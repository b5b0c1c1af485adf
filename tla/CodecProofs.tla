----------------------------- MODULE CodecProofs -----------------------------
(***************************************************************************)
(* Proofs about gap-encoded rows: what is put together run by run is the   *)
(* row that compressing its bits gives, a row says what bits it has, and   *)
(* dgap_AND intersects them.                                               *)
(*                                                                         *)
(* The operators of Codec are recursive functions over the runs of a row.  *)
(* That such a function exists, and what it gives, is an induction over    *)
(* its argument, here by the least number of a set.                        *)
(***************************************************************************)
EXTENDS Codec, FiniteSetTheorems, FunctionTheorems, SequenceTheorems, NaturalsInduction, WellFoundedInduction, TLAPS

----------------------------------------------------------------------------
(* Induction and recursion.                                                *)

\* A set of numbers has a least.
LEMMA Least ==
  ASSUME NEW T \in SUBSET Nat, T # {}
  PROVE  \E m \in T : \A n \in T : m <= n
<1>. DEFINE R == OpToRel(<, Nat)
<1>1. IsWellFoundedOn(R, Nat)
  BY NatLessThanWellFounded, Zenon
<1>2. \A n, m \in Nat : n < m => <<n, m>> \in R
  BY Zenon DEF OpToRel
<1>. HIDE DEF R
<1>3. PICK m \in T : \A n \in T : ~(<<n, m>> \in R)
  BY <1>1, WFMin
<1>4. \A n \in T : ~(n < m)
  BY <1>2, <1>3
<1>. QED
  BY <1>4

\* A set of numbers that has 0 and with each its successor has them all.
LEMMA Induct ==
  ASSUME NEW T, 0 \in T, \A n \in Nat : n \in T => n + 1 \in T
  PROVE  \A n \in Nat : n \in T
<1>. DEFINE Bad == Nat \ T
<1>. SUFFICES ASSUME Bad # {} PROVE FALSE
  OBVIOUS
<1>3. PICK n \in Bad : \A m \in Bad : n <= m
  BY Least
<1>4. \A m \in Bad : ~(m < n)
  BY <1>3
<1>5. n # 0 /\ n \in Nat
  BY <1>3
<1>6. n - 1 \in Nat /\ n - 1 < n /\ (n - 1) + 1 = n
  BY <1>5
<1>7. n - 1 \in T
  BY <1>4, <1>6
<1>. QED
  BY <1>3, <1>6, <1>7

\* A function that is defined step by step exists.
IsStep(n, S, step) == step \in [(1 .. n) \X S -> S]

IsSteps(f, n, S, b, step) ==
  f \in [0 .. n -> S] /\ f[0] = b /\ \A i \in 1 .. n : f[i] = step[<<i, f[i - 1]>>]

LEMMA Recursion ==
  ASSUME NEW n \in Nat, NEW S, NEW b \in S, NEW step, IsStep(n, S, step)
  PROVE  \E f : IsSteps(f, n, S, b, step)
<1>0. step \in [(1 .. n) \X S -> S]
  BY DEF IsStep
<1>. DEFINE Good(f, m) == f[0] = b /\ \A i \in 1 .. m : f[i] = step[<<i, f[i - 1]>>]
            T == {m \in Nat : m <= n => \E f \in [0 .. m -> S] : Good(f, m)}
<1>1. 0 \in T
  <2>1. [i \in 0 .. 0 |-> b] \in [0 .. 0 -> S] /\ Good([i \in 0 .. 0 |-> b], 0)
    OBVIOUS
  <2>. QED
    BY <2>1
<1>2. ASSUME NEW m \in Nat, m \in T
      PROVE  m + 1 \in T
  <2>. SUFFICES ASSUME m + 1 <= n
                PROVE  \E f \in [0 .. m + 1 -> S] : Good(f, m + 1)
    OBVIOUS
  <2>1. PICK g \in [0 .. m -> S] : Good(g, m)
    BY <1>2
  <2>. DEFINE f == [i \in 0 .. m + 1 |-> IF i <= m THEN g[i] ELSE step[<<m + 1, g[m]>>]]
  <2>2. m + 1 \in 1 .. n /\ g[m] \in S
    OBVIOUS
  <2>3. step[<<m + 1, g[m]>>] \in S
    BY <1>0, <2>2
  <2>4. f \in [0 .. m + 1 -> S]
    BY <2>3
  <2>5. \A i \in 0 .. m : f[i] = g[i]
    OBVIOUS
  <2>6. f[m + 1] = step[<<m + 1, g[m]>>]
    OBVIOUS
  <2>. HIDE DEF f
  <2>7. ASSUME NEW i \in 1 .. m + 1
        PROVE  f[i] = step[<<i, f[i - 1]>>]
    <3>1. i - 1 \in 0 .. m /\ f[i - 1] = g[i - 1]
      BY <2>5
    <3>2. CASE i \in 1 .. m
      BY <2>1, <2>5, <3>1, <3>2
    <3>3. CASE i = m + 1
      BY <2>6, <3>1, <3>3
    <3>. QED
      BY <3>2, <3>3
  <2>8. f[0] = b
    BY <2>1, <2>5
  <2>. QED
    BY <2>4, <2>7, <2>8
<1>. HIDE DEF T
<1>3. n \in T
  BY <1>1, <1>2, Induct
<1>. QED
  BY <1>3 DEF T, IsSteps

\* Two functions that agree at the start of an interval and go on alike are equal on it.
LEMMA InductOn ==
  ASSUME NEW n \in Nat, NEW T, 0 \in T, \A i \in 1 .. n : i - 1 \in T => i \in T
  PROVE  \A i \in 0 .. n : i \in T
<1>. DEFINE U == {i \in Nat : i <= n => i \in T}
<1>1. 0 \in U
  OBVIOUS
<1>2. ASSUME NEW i \in Nat, i \in U PROVE i + 1 \in U
  <2>. SUFFICES ASSUME i + 1 <= n PROVE i + 1 \in T
    OBVIOUS
  <2>1. i + 1 \in 1 .. n /\ (i + 1) - 1 = i /\ i \in T
    BY <1>2
  <2>. QED
    BY <2>1
<1>. HIDE DEF U
<1>3. \A i \in Nat : i \in U
  BY <1>1, <1>2, Induct
<1>. QED
  BY <1>3 DEF U

----------------------------------------------------------------------------
(* Arithmetic of unsigned numbers.                                         *)

LEMMA Wraps ==
  ASSUME NEW x \in Int
  PROVE  /\ x % Word \in 0 .. Word - 1
         /\ 0 <= x /\ x < Word => x % Word = x
         /\ 0 - Word <= x /\ x < 0 => x % Word = x + Word
BY WordAssumption

Length == 0 .. Word - 1

LEMMA NoWrap ==
  \A x \in Length : x \in Int /\ x % Word = x
<1>1. ASSUME NEW x \in Length PROVE x \in Int /\ x % Word = x
  <2>1. x \in Int /\ 0 <= x /\ x < Word
    BY WordAssumption DEF Length
  <2>. QED
    BY <2>1, Wraps
<1>. QED
  BY <1>1

----------------------------------------------------------------------------
(* Sums and the ends of runs.                                              *)

LEMMA SumsAre ==
  ASSUME NEW s \in Seq(Nat)
  PROVE  /\ Sums(s) \in [0 .. Len(s) -> Nat]
         /\ Sums(s)[0] = 0
         /\ \A i \in 1 .. Len(s) : Sums(s)[i] = Sums(s)[i - 1] + s[i]
<1>. DEFINE n == Len(s)
            Body(f) == [i \in 0 .. n |-> IF i = 0 THEN 0 ELSE f[i - 1] + s[i]]
            step == [p \in (1 .. n) \X Nat |-> p[2] + s[p[1]]]
<1>1. n \in Nat /\ \A i \in 1 .. n : s[i] \in Nat
  OBVIOUS
<1>2. step \in [(1 .. n) \X Nat -> Nat]
  BY <1>1
<1>3. \A i \in 1 .. n : \A x \in Nat : step[<<i, x>>] = x + s[i]
  OBVIOUS
<1>. HIDE DEF step, n
<1>3a. PICK g : IsSteps(g, n, Nat, 0, step)
  <2>1. 0 \in Nat /\ IsStep(n, Nat, step)
    BY <1>2 DEF IsStep
  <2>. QED
    BY <1>1, <2>1, Recursion, Zenon
<1>4. g \in [0 .. n -> Nat] /\ g[0] = 0 /\ \A i \in 1 .. n : g[i] = step[<<i, g[i - 1]>>]
  BY <1>3a DEF IsSteps
<1>5. \A i \in 1 .. n : g[i] = g[i - 1] + s[i]
  <2>1. \A i \in 1 .. n : i - 1 \in 0 .. n
    BY <1>1
  <2>. QED
    BY <1>3, <1>4, <2>1
<1>6. g = Body(g)
  BY <1>4, <1>5
<1>7. Sums(s) = CHOOSE f : f = Body(f)
  BY DEF Sums, n
<1>8. Sums(s) = Body(Sums(s))
  BY <1>6, <1>7
<1>9. Sums(s)[0] = 0 /\ \A i \in 1 .. n : Sums(s)[i] = Sums(s)[i - 1] + s[i]
  <2>. HIDE DEF Body
  <2>1. \A i \in 0 .. n : Body(Sums(s))[i] = IF i = 0 THEN 0 ELSE Sums(s)[i - 1] + s[i]
    BY DEF Body
  <2>. QED
    BY <1>1, <1>8, <2>1
<1>10. \A i \in 0 .. n : Sums(s)[i] \in Nat
  <2>. DEFINE T == {i \in 0 .. n : Sums(s)[i] \in Nat}
  <2>1. 0 \in T
    BY <1>1, <1>9
  <2>2. ASSUME NEW i \in 1 .. n, i - 1 \in T PROVE i \in T
    <3>1. s[i] \in Nat /\ Sums(s)[i - 1] \in Nat /\ Sums(s)[i] = Sums(s)[i - 1] + s[i]
      BY <1>1, <1>9, <2>2
    <3>. QED
      BY <1>1, <3>1
  <2>. HIDE DEF T
  <2>3. \A i \in 0 .. n : i \in T
    BY <1>1, <2>1, <2>2, InductOn
  <2>. QED
    BY <2>3 DEF T
<1>11. Sums(s) \in [0 .. n -> Nat]
  BY <1>8, <1>10
<1>. QED
  BY <1>9, <1>11 DEF n

\* Where the i-th run ends; the 0-th ends at 0.
EndOf(runs, i) == IF i = 0 THEN 0 ELSE Cumulative(runs)[i]

LEMMA CumulativeIs ==
  ASSUME NEW s \in Seq(Length)
  PROVE  /\ Cumulative(s) \in [1 .. Len(s) -> Length]
         /\ \A i \in 1 .. Len(s) : EndOf(s, i) = (EndOf(s, i - 1) + s[i]) % Word
         /\ \A i \in 0 .. Len(s) : EndOf(s, i) \in Length
<1>. DEFINE n == Len(s)
            Body(f) == [i \in 1 .. n |-> IF i = 1 THEN s[1] ELSE (f[i - 1] + s[i]) % Word]
            step == [p \in (1 .. n) \X Length |-> (p[2] + s[p[1]]) % Word]
<1>1. n \in Nat /\ \A i \in 1 .. n : s[i] \in Length
  OBVIOUS
<1>0. 0 \in Length /\ \A x \in Int : x % Word \in Length
  <2>1. \A x \in Int : x % Word \in Length
    BY Wraps DEF Length
  <2>. QED
    BY <2>1, WordAssumption DEF Length
<1>2. step \in [(1 .. n) \X Length -> Length]
  <2>1. ASSUME NEW p \in (1 .. n) \X Length PROVE (p[2] + s[p[1]]) % Word \in Length
    <3>1. p[2] + s[p[1]] \in Int
      BY <1>1 DEF Length
    <3>. QED
      BY <3>1, <1>0
  <2>. QED
    BY <2>1
<1>3. \A i \in 1 .. n : \A x \in Length : step[<<i, x>>] = (x + s[i]) % Word
  OBVIOUS
<1>. HIDE DEF step, n
<1>3a. PICK g : IsSteps(g, n, Length, 0, step)
  <2>1. IsStep(n, Length, step)
    BY <1>2 DEF IsStep
  <2>. QED
    BY <1>0, <1>1, <2>1, Recursion, Zenon
<1>4. g \in [0 .. n -> Length] /\ g[0] = 0 /\ \A i \in 1 .. n : g[i] = step[<<i, g[i - 1]>>]
  BY <1>3a DEF IsSteps
<1>5. \A i \in 1 .. n : g[i] = (g[i - 1] + s[i]) % Word
  <2>1. \A i \in 1 .. n : i - 1 \in 0 .. n
    BY <1>1
  <2>. QED
    BY <1>3, <1>4, <2>1
<1>. DEFINE h == [i \in 1 .. n |-> g[i]]
<1>6. h = Body(h)
  <2>1. ASSUME NEW i \in 1 .. n
        PROVE  h[i] = IF i = 1 THEN s[1] ELSE (h[i - 1] + s[i]) % Word
    <3>1. CASE i = 1
      <4>1. s[1] \in Int /\ 0 <= s[1] /\ s[1] < Word
        BY <1>1, <3>1, WordAssumption DEF Length
      <4>2. s[1] % Word = s[1]
        BY <4>1, Wraps
      <4>3. g[1] = (0 + s[1]) % Word
        BY <1>4, <1>5, <3>1
      <4>. QED
        BY <3>1, <4>1, <4>2, <4>3
    <3>2. CASE i # 1
      BY <1>1, <1>5, <3>2
    <3>. QED
      BY <3>1, <3>2
  <2>. QED
    BY <2>1
<1>7. Cumulative(s) = CHOOSE f : f = Body(f)
  BY DEF Cumulative, n
<1>8. Cumulative(s) = Body(Cumulative(s))
  <2>. HIDE DEF h, Body
  <2>. QED
    BY <1>6, <1>7
<1>9. \A i \in 1 .. n : Cumulative(s)[i] = IF i = 1 THEN s[1] ELSE (Cumulative(s)[i - 1] + s[i]) % Word
  <2>. HIDE DEF Body
  <2>1. \A i \in 1 .. n : Body(Cumulative(s))[i] = IF i = 1 THEN s[1] ELSE (Cumulative(s)[i - 1] + s[i]) % Word
    BY DEF Body
  <2>. QED
    BY <1>1, <1>8, <2>1
<1>10. \A i \in 0 .. n : EndOf(s, i) \in Length /\ (i > 0 => EndOf(s, i) = (EndOf(s, i - 1) + s[i]) % Word)
  <2>. DEFINE T == {i \in 0 .. n : EndOf(s, i) \in Length /\ (i > 0 => EndOf(s, i) = (EndOf(s, i - 1) + s[i]) % Word)}
  <2>1. 0 \in T
    BY <1>0, <1>1 DEF EndOf
  <2>2. ASSUME NEW i \in 1 .. n, i - 1 \in T PROVE i \in T
    <3>1. CASE i = 1
      <4>1. s[1] \in Int /\ 0 <= s[1] /\ s[1] < Word
        BY <1>1, <3>1, WordAssumption DEF Length
      <4>2. s[1] % Word = s[1] /\ 0 + s[1] = s[1]
        <5>. DEFINE x == s[1]
        <5>1. x \in Int /\ 0 <= x /\ x < Word
          BY <4>1
        <5>. HIDE DEF x
        <5>2. x % Word = x
          BY <5>1, Wraps
        <5>3. 0 + x = x
          BY <5>1
        <5>. QED
          BY <5>2, <5>3 DEF x
      <4>3. EndOf(s, 1) = s[1] /\ EndOf(s, 1 - 1) = 0
        BY <1>9, <3>1 DEF EndOf
      <4>4. s[1] \in Length /\ 1 \in 0 .. n
        BY <1>1, <3>1
      <4>5. EndOf(s, 1) = (EndOf(s, 1 - 1) + s[1]) % Word
        BY <4>2, <4>3
      <4>. QED
        BY <3>1, <4>3, <4>4, <4>5
    <3>2. CASE i # 1
      <4>1. EndOf(s, i) = (EndOf(s, i - 1) + s[i]) % Word
        BY <1>9, <3>2 DEF EndOf
      <4>2. EndOf(s, i - 1) + s[i] \in Int
        BY <1>1, <2>2, WordAssumption DEF Length
      <4>. QED
        BY <1>0, <4>1, <4>2
    <3>. QED
      BY <3>1, <3>2
  <2>. HIDE DEF T
  <2>3. \A i \in 0 .. n : i \in T
    BY <1>1, <2>1, <2>2, InductOn
  <2>. QED
    BY <2>3 DEF T
<1>11. \A i \in 1 .. n : Cumulative(s)[i] \in Length
  BY <1>1, <1>10 DEF EndOf
<1>12. Cumulative(s) \in [1 .. n -> Length]
  BY <1>8, <1>11
<1>. QED
  BY <1>1, <1>10, <1>12 DEF n

\* Runs that begin alike end alike.
LEMMA PrefixEnds ==
  ASSUME NEW s \in Seq(Length), NEW t \in Seq(Length), NEW m \in Nat,
         m <= Len(s), m <= Len(t), \A i \in 1 .. m : s[i] = t[i]
  PROVE  \A i \in 0 .. m : EndOf(s, i) = EndOf(t, i)
<1>. DEFINE T == {i \in 0 .. m : EndOf(s, i) = EndOf(t, i)}
<1>1. 0 \in T
  BY DEF EndOf
<1>2. ASSUME NEW i \in 1 .. m, i - 1 \in T PROVE i \in T
  <2>1. i \in 1 .. Len(s) /\ i \in 1 .. Len(t)
    OBVIOUS
  <2>2. EndOf(s, i) = (EndOf(s, i - 1) + s[i]) % Word
    BY <2>1, CumulativeIs
  <2>3. EndOf(t, i) = (EndOf(t, i - 1) + t[i]) % Word
    BY <2>1, CumulativeIs
  <2>. QED
    BY <1>2, <2>2, <2>3
<1>. HIDE DEF T
<1>3. \A i \in 0 .. m : i \in T
  BY <1>1, <1>2, InductOn
<1>. QED
  BY <1>3 DEF T

LEMMA FrontIs ==
  ASSUME NEW S, NEW s \in Seq(S), Len(s) >= 1
  PROVE  /\ Front(s) \in Seq(S) /\ Len(Front(s)) = Len(s) - 1
         /\ \A i \in 1 .. Len(s) - 1 : Front(s)[i] = s[i]
<1>1. Len(s) \in Nat /\ Len(s) - 1 \in Int /\ 1 \in Int
  OBVIOUS
<1>2. \A i \in 1 .. Len(s) - 1 : s[i] \in S
  OBVIOUS
<1>. DEFINE n == Len(s) - 1
            f == SubSeq(s, 1, n)
<1>3. f \in Seq(S) /\ Len(f) = (IF 1 <= n THEN n - 1 + 1 ELSE 0)
      /\ \A i \in 1 .. n - 1 + 1 : f[i] = s[1 + i - 1]
  <2>. HIDE DEF n
  <2>1. n \in Int
    BY <1>1 DEF n
  <2>2. \A i \in 1 .. n : s[i] \in S
    BY <1>2 DEF n
  <2>. QED
    BY <1>1, <2>1, <2>2, SubSeqProperties
<1>4. f = Front(s)
  BY DEF Front
<1>. HIDE DEF f
<1>5. Len(f) = Len(s) - 1
  <2>1. n \in Nat
    BY <1>1
  <2>2. Len(f) = n
    <3>. HIDE DEF n
    <3>. QED
      BY <1>3, <2>1
  <2>. QED
    BY <2>2
<1>6. \A i \in 1 .. Len(s) - 1 : f[i] = s[i]
  <2>1. TAKE i \in 1 .. Len(s) - 1
  <2>2. i \in 1 .. n - 1 + 1 /\ 1 + i - 1 = i
    BY <1>1
  <2>. QED
    BY <1>3, <2>2
<1>. QED
  BY <1>3, <1>4, <1>5, <1>6

----------------------------------------------------------------------------
(* Rows.                                                                   *)

\* The i-th run is not empty, and where it ends has not wrapped.
Solid(row, i) ==
  row.runs[i] >= 1 /\ EndOf(row.runs, i) = EndOf(row.runs, i - 1) + row.runs[i]

\* A row as it should be.
Straight(row) ==
  row \in Row /\ row.runs # << >> /\ \A i \in 1 .. Len(row.runs) : Solid(row, i)

\* A row whose last run, if it is of 0s, has any length: that of a mask made
\* from a stale width, and of what it is intersected with.
Loose(row) ==
  /\ row \in Row /\ row.runs # << >>
  /\ \A i \in 1 .. Len(row.runs) : i < Len(row.runs) \/ Value(row, i) => Solid(row, i)

\* The row of these bits, of this width.
IsRow(row, ids, w) ==
  /\ Straight(row)
  /\ EndOf(row.runs, Len(row.runs)) = w
  /\ ids \subseteq 1 .. w
  /\ \A i \in 1 .. Len(row.runs) :
       \A x \in EndOf(row.runs, i - 1) + 1 .. EndOf(row.runs, i) : x \in ids <=> Value(row, i)

LEMMA RowTypes ==
  ASSUME NEW row \in Row
  PROVE  /\ row.flag \in BOOLEAN
         /\ row.runs \in Seq(Length)
         /\ Len(row.runs) \in Nat
         /\ \A i \in 1 .. Len(row.runs) : row.runs[i] \in Length /\ row.runs[i] \in Nat
         /\ row.runs # << >> => Len(row.runs) >= 1
BY WordAssumption DEF Row, Length

\* Values alternate.
LEMMA Values ==
  ASSUME NEW row \in Row
  PROVE  /\ \A i : Value(row, i) \in BOOLEAN
         /\ Value(row, 1) = row.flag
         /\ \A i \in Nat : Value(row, i + 1) = ~Value(row, i)
         /\ \A i \in Nat : Value(row, i) = (row.flag = (i % 2 = 1))
<1>. row.flag \in BOOLEAN
  BY RowTypes
<1>1. \A i \in Nat : (i + 1) % 2 = 1 <=> ~(i % 2 = 1)
  OBVIOUS
<1>2. 1 % 2 = 1
  OBVIOUS
<1>. QED
  BY <1>1, <1>2 DEF Value

LEMMA StraightIsLoose ==
  ASSUME NEW row, Straight(row)
  PROVE  Loose(row)
BY DEF Straight, Loose

LEMMA RowEnds ==
  ASSUME NEW row \in Row
  PROVE  /\ EndOf(row.runs, 0) = 0
         /\ \A i \in 0 .. Len(row.runs) : EndOf(row.runs, i) \in Length /\ EndOf(row.runs, i) \in Nat
         /\ \A i \in 1 .. Len(row.runs) :
              EndOf(row.runs, i) = (EndOf(row.runs, i - 1) + row.runs[i]) % Word
<1>1. row.runs \in Seq(Length)
  BY RowTypes
<1>2. EndOf(row.runs, 0) = 0
  BY DEF EndOf
<1>3. \A i \in 0 .. Len(row.runs) : EndOf(row.runs, i) \in Length
  BY <1>1, CumulativeIs
<1>4. Length \subseteq Nat
  BY WordAssumption DEF Length
<1>. QED
  BY <1>1, <1>2, <1>3, <1>4, CumulativeIs

\* Solid runs end one after the other, and there is nothing between them.
LEMMA SolidEnds ==
  ASSUME NEW row \in Row, NEW m \in 0 .. Len(row.runs), \A i \in 1 .. m : Solid(row, i)
  PROVE  /\ \A j \in 0 .. m : \A i \in 0 .. j : EndOf(row.runs, i) + (j - i) <= EndOf(row.runs, j)
         /\ \A x \in 1 .. EndOf(row.runs, m) :
              \E i \in 1 .. m : EndOf(row.runs, i - 1) < x /\ x <= EndOf(row.runs, i)
<1>. DEFINE E(i) == EndOf(row.runs, i)
            Up(j) == \A i \in 0 .. j : E(i) + (j - i) <= E(j)
            In(j) == \A x \in 1 .. E(j) : \E i \in 1 .. j : E(i - 1) < x /\ x <= E(i)
            T == {j \in 0 .. m : Up(j) /\ In(j)}
<1>0. /\ E(0) = 0 /\ m \in Nat
      /\ \A i \in 0 .. m : E(i) \in Nat
      /\ \A i \in 1 .. m : row.runs[i] \in Nat /\ row.runs[i] >= 1 /\ E(i) = E(i - 1) + row.runs[i]
  BY RowEnds, RowTypes DEF Solid
<1>. HIDE DEF E
<1>1. 0 \in T
  BY <1>0
<1>2. ASSUME NEW j \in 1 .. m, j - 1 \in T PROVE j \in T
  <2>1. Up(j - 1) /\ In(j - 1) /\ j - 1 \in 0 .. m
    BY <1>2
  <2>2. E(j) = E(j - 1) + row.runs[j] /\ row.runs[j] >= 1 /\ row.runs[j] \in Nat /\ E(j - 1) \in Nat /\ E(j) \in Nat
    BY <1>0, <2>1
  <2>3. ASSUME NEW i \in 0 .. j PROVE E(i) + (j - i) <= E(j)
    <3>1. CASE i = j
      BY <2>2, <3>1
    <3>2. CASE i # j
      <4>1. i \in 0 .. j - 1 /\ E(i) \in Nat
        BY <1>0, <3>2
      <4>2. E(i) + ((j - 1) - i) <= E(j - 1)
        BY <2>1, <4>1
      <4>. QED
        BY <2>2, <4>1, <4>2
    <3>. QED
      BY <3>1, <3>2
  <2>4. ASSUME NEW x \in 1 .. E(j) PROVE \E i \in 1 .. j : E(i - 1) < x /\ x <= E(i)
    <3>1. CASE x <= E(j - 1)
      <4>1. x \in 1 .. E(j - 1)
        BY <2>2, <3>1
      <4>. QED
        BY <2>1, <4>1
    <3>2. CASE ~(x <= E(j - 1))
      BY <2>2, <3>2
    <3>. QED
      BY <3>1, <3>2
  <2>. QED
    BY <2>3, <2>4
<1>. HIDE DEF T
<1>3. \A j \in 0 .. m : j \in T
  BY <1>0, <1>1, <1>2, InductOn
<1>4. \A j \in 0 .. m : Up(j)
  BY <1>3 DEF T
<1>5. In(m)
  BY <1>0, <1>3 DEF T
<1>. QED
  BY <1>4, <1>5 DEF E

\* The bits are those of the runs of 1s.
LEMMA BitsAre ==
  ASSUME NEW row, Loose(row)
  PROVE  \A x : x \in Bits(row) <=>
           /\ x \in Int
           /\ \E i \in 1 .. Len(row.runs) :
                Value(row, i) /\ EndOf(row.runs, i - 1) < x /\ x <= EndOf(row.runs, i)
<1>. DEFINE n == Len(row.runs)
            ends == Cumulative(row.runs)
            Ones == {k \in DOMAIN ends : Value(row, k)}
            Of(i) == (ends[i] - row.runs[i] + 1) .. ends[i]
<1>1. row \in Row
  BY DEF Loose
<1>2. DOMAIN ends = 1 .. n
  BY <1>1, RowTypes, CumulativeIs
<1>3. \A x : x \in Bits(row) <=> \E i \in Ones : x \in Of(i)
  BY DEF Bits
<1>4. \A i \in 1 .. n : Value(row, i) => Of(i) = EndOf(row.runs, i - 1) + 1 .. EndOf(row.runs, i)
  <2>1. SUFFICES ASSUME NEW i \in 1 .. n, Value(row, i)
                 PROVE  Of(i) = EndOf(row.runs, i - 1) + 1 .. EndOf(row.runs, i)
    OBVIOUS
  <2>2. Solid(row, i)
    BY <2>1 DEF Loose
  <2>3. ends[i] = EndOf(row.runs, i)
    BY <1>1, RowTypes DEF EndOf
  <2>4. i - 1 \in 0 .. n /\ n \in Nat
    BY <1>1, RowTypes
  <2>5. EndOf(row.runs, i - 1) \in Nat /\ EndOf(row.runs, i) \in Nat /\ row.runs[i] \in Nat
    BY <1>1, <2>4, RowEnds, RowTypes
  <2>. QED
    BY <2>2, <2>3, <2>5 DEF Solid
<1>5. \A i \in 0 .. n : EndOf(row.runs, i) \in Int
  BY <1>1, RowEnds
<1>6. \A i \in 1 .. n : i - 1 \in 0 .. n /\ i \in 0 .. n
  BY <1>1, RowTypes
<1>. HIDE DEF n, Of
<1>7. TAKE x
<1>8. (\E i \in Ones : x \in Of(i)) <=> (\E i \in 1 .. n : Value(row, i) /\ x \in EndOf(row.runs, i - 1) + 1 .. EndOf(row.runs, i))
  BY <1>2, <1>4
<1>9. \A i \in 1 .. n : x \in EndOf(row.runs, i - 1) + 1 .. EndOf(row.runs, i) <=>
           x \in Int /\ EndOf(row.runs, i - 1) < x /\ x <= EndOf(row.runs, i)
  BY <1>5, <1>6
<1>. QED
  BY <1>3, <1>8, <1>9 DEF n

LEMMA BitsOfRow ==
  ASSUME NEW row, NEW ids, NEW w, IsRow(row, ids, w)
  PROVE  Bits(row) = ids
<1>. DEFINE n == Len(row.runs)
            E(i) == EndOf(row.runs, i)
<1>1. Straight(row) /\ E(n) = w /\ ids \subseteq 1 .. w
      /\ \A i \in 1 .. n : \A x \in E(i - 1) + 1 .. E(i) : x \in ids <=> Value(row, i)
  BY DEF IsRow
<1>2. Loose(row) /\ row \in Row /\ n \in Nat /\ \A i \in 1 .. n : Solid(row, i)
  BY <1>1, StraightIsLoose, RowTypes DEF Straight
<1>3. \A x \in 1 .. w : \E i \in 1 .. n : E(i - 1) < x /\ x <= E(i)
  <2>1. n \in 0 .. Len(row.runs)
    BY <1>2
  <2>. QED
    BY <1>1, <1>2, <2>1, SolidEnds
<1>4. \A i \in 0 .. n : E(i) \in Nat
  BY <1>2, RowEnds
<1>4a. w \in Nat
  BY <1>1, <1>2, <1>4
<1>5. \A x : x \in Bits(row) <=> x \in Int /\ \E i \in 1 .. n : Value(row, i) /\ E(i - 1) < x /\ x <= E(i)
  BY <1>2, BitsAre
<1>. HIDE DEF n, E
<1>6. \A i \in 1 .. n : i - 1 \in 0 .. n /\ i \in 0 .. n
  BY <1>2
<1>7. ASSUME NEW x, x \in Bits(row) PROVE x \in ids
  <2>1. PICK i \in 1 .. n : Value(row, i) /\ E(i - 1) < x /\ x <= E(i)
    BY <1>5, <1>7
  <2>2. x \in E(i - 1) + 1 .. E(i)
    BY <1>4, <1>5, <1>6, <1>7, <2>1
  <2>. QED
    BY <1>1, <2>1, <2>2
<1>8. ASSUME NEW x, x \in ids PROVE x \in Bits(row)
  <2>1. x \in 1 .. w /\ x \in Int
    BY <1>1, <1>4a, <1>8
  <2>2. PICK i \in 1 .. n : E(i - 1) < x /\ x <= E(i)
    BY <1>3, <2>1
  <2>3. x \in E(i - 1) + 1 .. E(i)
    BY <1>4, <1>6, <2>1, <2>2
  <2>4. Value(row, i)
    BY <1>1, <1>8, <2>3
  <2>. QED
    BY <1>5, <2>1, <2>2, <2>4
<1>. QED
  BY <1>7, <1>8

\* A row of which one knows where the runs end.
LEMMA StraightBy ==
  ASSUME NEW row \in Row, NEW m \in 0 .. Len(row.runs), NEW x \in Nat,
         \A i \in 1 .. m : Solid(row, i),
         m + 1 = Len(row.runs),
         row.runs[m + 1] = x, x >= 1, EndOf(row.runs, m) + x < Word
  PROVE  Straight(row) /\ EndOf(row.runs, m + 1) = EndOf(row.runs, m) + x
<1>1. EndOf(row.runs, m) \in Nat /\ m + 1 \in 1 .. Len(row.runs) /\ (m + 1) - 1 = m
  BY RowEnds
<1>2. EndOf(row.runs, m + 1) = (EndOf(row.runs, m) + x) % Word
  BY <1>1, RowEnds
<1>3. EndOf(row.runs, m + 1) = EndOf(row.runs, m) + x
  BY <1>1, <1>2, Wraps
<1>4. Solid(row, m + 1)
  BY <1>1, <1>3 DEF Solid
<1>5. \A i \in 1 .. Len(row.runs) : Solid(row, i)
  BY <1>4
<1>6. row.runs # << >>
  BY <1>1
<1>. QED
  BY <1>3, <1>5, <1>6 DEF Straight

\* Concatenating a run.
LEMMA Extended ==
  ASSUME NEW a, NEW ids, NEW w \in Nat, IsRow(a, ids, w),
         NEW v \in BOOLEAN, NEW k \in Nat \ {0}, w + k < Word
  PROVE  IsRow(Concatenate(a, Run(v, k)), IF v THEN ids \cup (w + 1 .. w + k) ELSE ids, w + k)
<1>. DEFINE n == Len(a.runs)
            r == Concatenate(a, Run(v, k))
            E(i) == EndOf(a.runs, i)
            new == IF v THEN ids \cup (w + 1 .. w + k) ELSE ids
<1>1. Straight(a) /\ E(n) = w /\ ids \subseteq 1 .. w
      /\ \A i \in 1 .. n : \A x \in E(i - 1) + 1 .. E(i) : x \in ids <=> Value(a, i)
  BY DEF IsRow
<1>2. a \in Row /\ a.runs \in Seq(Length) /\ a.flag \in BOOLEAN /\ n \in Nat /\ n >= 1
      /\ \A i \in 1 .. n : Solid(a, i) /\ a.runs[i] \in Nat
  BY <1>1, RowTypes DEF Straight
<1>3. k \in Length /\ <<k>> \in Seq(Length) /\ Len(<<k>>) = 1 /\ <<k>>[1] = k
  <2>1. k \in Length
    BY WordAssumption DEF Length
  <2>. QED
    BY <2>1
<1>4. Value(a, n) \in BOOLEAN
  BY <1>2, Values
<1>5. \A i \in 0 .. n : E(i) \in Nat
  BY <1>2, RowEnds
<1>6. \A i \in 1 .. n : i - 1 \in 0 .. n /\ i \in 0 .. n
  BY <1>2
<1>7. \A i \in 1 .. n : E(i) <= w
  <2>1. n \in 0 .. Len(a.runs)
    BY <1>2
  <2>2. \A i \in 0 .. n : E(i) + (n - i) <= E(n)
    BY <1>2, <2>1, SolidEnds
  <2>3. n \in Nat /\ E(n) = w /\ w \in Nat
    BY <1>1, <1>2
  <2>4. TAKE i \in 1 .. n
  <2>5. E(i) + (n - i) <= E(n) /\ E(i) \in Nat
    BY <1>5, <1>6, <2>2
  <2>6. i \in Int /\ i <= n
    BY <2>3
  <2>. HIDE DEF E, n
  <2>. QED
    BY <2>3, <2>5, <2>6
<1>8. new \subseteq 1 .. w + k
  BY <1>1
<1>9. CASE Value(a, n) = v
  <2>1. r = [flag |-> a.flag, runs |-> Front(a.runs) \o <<Last(a.runs) + k>> \o Tail(<<k>>)]
    BY <1>9 DEF Concatenate, Run
  <2>2. Tail(<<k>>) = << >>
    OBVIOUS
  <2>3. E(n) = E(n - 1) + a.runs[n] /\ E(n - 1) \in Nat /\ a.runs[n] >= 1 /\ a.runs[n] \in Nat
    BY <1>2, <1>5, <1>6 DEF Solid
  <2>4. Last(a.runs) = a.runs[n]
    BY DEF Last
  <2>5. a.runs[n] + k \in Length /\ a.runs[n] + k \in Nat /\ a.runs[n] + k >= 1
    <3>. DEFINE x == a.runs[n]
                y == E(n - 1)
    <3>1. x \in Nat /\ x >= 1 /\ y \in Nat /\ w = y + x
      BY <1>1, <2>3
    <3>. HIDE DEF x, y
    <3>2. x + k \in Nat /\ x + k >= 1 /\ x + k < Word
      <4>1. k \in Nat /\ w + k < Word /\ Word \in Nat
        BY WordAssumption
      <4>. QED
        BY <3>1, <4>1
    <3>3. x + k \in Length
      BY <3>2, WordAssumption DEF Length
    <3>. QED
      BY <3>2, <3>3 DEF x
  <2>6. Front(a.runs) \in Seq(Length) /\ Len(Front(a.runs)) = n - 1 /\ \A i \in 1 .. n - 1 : Front(a.runs)[i] = a.runs[i]
    BY <1>2, FrontIs
  <2>7. r.flag = a.flag /\ r.runs \in Seq(Length) /\ Len(r.runs) = n /\ r.runs[n] = a.runs[n] + k
        /\ \A i \in 1 .. n - 1 : r.runs[i] = a.runs[i]
    <3>1. DEFINE f == Front(a.runs)
                 one == <<Last(a.runs) + k>>
    <3>2. f \in Seq(Length) /\ one \in Seq(Length) /\ Len(f) = n - 1 /\ Len(one) = 1
          /\ one[1] = a.runs[n] + k
      BY <2>4, <2>5, <2>6
    <3>3. f \o one \in Seq(Length) /\ Len(f \o one) = Len(f) + Len(one)
          /\ \A i \in 1 .. Len(f) + Len(one) : (f \o one)[i] = IF i <= Len(f) THEN f[i] ELSE one[i - Len(f)]
      BY <3>2, ConcatProperties
    <3>4. (f \o one) \o << >> = f \o one
      BY <3>3, ConcatEmptySeq
    <3>5. r.flag = a.flag /\ r.runs = f \o one
      BY <2>1, <2>2, <3>4
    <3>. HIDE DEF f, one
    <3>6. Len(f) + Len(one) = n /\ n \in 1 .. n /\ n - Len(f) = 1 /\ ~(n <= Len(f))
      BY <1>2, <3>2
    <3>7. r.runs[n] = a.runs[n] + k
      BY <3>2, <3>3, <3>5, <3>6
    <3>8. \A i \in 1 .. n - 1 : r.runs[i] = f[i]
      BY <1>2, <3>2, <3>3, <3>5
    <3>. QED
      BY <2>6, <3>3, <3>5, <3>6, <3>7, <3>8 DEF f
  <2>8. r \in Row
    BY <1>2, <2>1, <2>7 DEF Row, Length
  <2>9. \A i \in 0 .. n - 1 : EndOf(r.runs, i) = E(i)
    <3>1. n - 1 \in Nat /\ n - 1 <= Len(r.runs) /\ n - 1 <= Len(a.runs)
      BY <1>2, <2>7
    <3>. QED
      BY <1>2, <2>7, <3>1, PrefixEnds
  <2>10. \A i \in 1 .. n - 1 : Solid(r, i)
    <3>1. TAKE i \in 1 .. n - 1
    <3>2. Solid(a, i) /\ i \in 0 .. n - 1 /\ i - 1 \in 0 .. n - 1
      BY <1>2
    <3>. QED
      BY <2>7, <2>9, <3>2 DEF Solid
  <2>11. Straight(r) /\ EndOf(r.runs, n) = w + k
    <3>1. n - 1 \in 0 .. Len(r.runs) /\ (n - 1) + 1 = Len(r.runs) /\ (n - 1) + 1 = n /\ n - 1 \in 0 .. n - 1
      BY <1>2, <2>7
    <3>2. EndOf(r.runs, n - 1) = E(n - 1)
      BY <2>9, <3>1
    <3>3. EndOf(r.runs, n - 1) + (a.runs[n] + k) = w + k
      BY <1>1, <2>3, <3>2
    <3>. QED
      BY <2>5, <2>7, <2>8, <2>10, <3>1, <3>3, StraightBy
  <2>12. ASSUME NEW i \in 1 .. n, NEW x \in EndOf(r.runs, i - 1) + 1 .. EndOf(r.runs, i)
         PROVE  x \in new <=> Value(r, i)
    <3>1. Value(r, i) = Value(a, i)
      BY <2>7 DEF Value
    <3>2. EndOf(r.runs, i - 1) = E(i - 1) /\ E(i - 1) \in Nat /\ E(i) \in Nat /\ E(i) <= w
      <4>1. i - 1 \in 0 .. n - 1
        BY <1>2
      <4>. QED
        BY <1>5, <1>6, <1>7, <2>9, <4>1
    <3>3. CASE x <= E(i)
      <4>1. x \in E(i - 1) + 1 .. E(i) /\ x <= w
        BY <3>2, <3>3
      <4>2. x \in ids <=> Value(a, i)
        BY <1>1, <4>1
      <4>3. x \in new <=> x \in ids
        BY <1>3, <4>1
      <4>. QED
        BY <3>1, <4>2, <4>3
    <3>4. CASE x > E(i)
      <4>1. i = n
        <5>1. i # n => EndOf(r.runs, i) = E(i)
          BY <2>9
        <5>. QED
          BY <3>2, <3>4, <5>1
      <4>2. x > w /\ x <= w + k /\ x \in Int
        BY <1>1, <2>11, <3>2, <3>4, <4>1
      <4>3. x \notin ids /\ x \in w + 1 .. w + k
        BY <1>1, <4>2
      <4>. QED
        BY <1>9, <3>1, <4>1, <4>3
    <3>. QED
      BY <3>2, <3>3, <3>4
  <2>. QED
    BY <1>8, <2>7, <2>11, <2>12 DEF IsRow
<1>10. CASE Value(a, n) # v
  <2>1. r = [flag |-> a.flag, runs |-> a.runs \o <<k>>]
    BY <1>10 DEF Concatenate, Run
  <2>2. r.flag = a.flag /\ r.runs \in Seq(Length) /\ Len(r.runs) = n + 1 /\ r.runs[n + 1] = k
        /\ \A i \in 1 .. n : r.runs[i] = a.runs[i]
    BY <1>2, <1>3, <2>1
  <2>3. r \in Row
    BY <1>2, <2>1, <2>2 DEF Row, Length
  <2>4. \A i \in 0 .. n : EndOf(r.runs, i) = E(i)
    <3>1. n \in Nat /\ n <= Len(r.runs) /\ n <= Len(a.runs)
      BY <1>2, <2>2
    <3>. QED
      BY <1>2, <2>2, <3>1, PrefixEnds
  <2>5. \A i \in 1 .. n : Solid(r, i)
    <3>1. TAKE i \in 1 .. n
    <3>. QED
      BY <1>2, <1>6, <2>2, <2>4 DEF Solid
  <2>6. Straight(r) /\ EndOf(r.runs, n + 1) = w + k
    <3>1. n \in 0 .. Len(r.runs) /\ n \in 0 .. n
      BY <1>2, <2>2
    <3>2. EndOf(r.runs, n) = w
      BY <1>1, <2>4, <3>1
    <3>. QED
      <4>1. n + 1 = Len(r.runs) /\ k \in Nat /\ k >= 1 /\ r.runs[n + 1] = k /\ EndOf(r.runs, n) + k < Word
        BY <2>2, <3>2
      <4>. QED
        BY <2>3, <2>5, <3>1, <3>2, <4>1, StraightBy
  <2>7. \A i \in Nat : Value(r, i) = Value(a, i)
    BY <2>2 DEF Value
  <2>8. Value(a, n + 1) = v
    BY <1>2, <1>4, <1>10, Values
  <2>9. ASSUME NEW i \in 1 .. n + 1, NEW x \in EndOf(r.runs, i - 1) + 1 .. EndOf(r.runs, i)
        PROVE  x \in new <=> Value(r, i)
    <3>1. CASE i <= n
      <4>1. i \in 1 .. n /\ i - 1 \in 0 .. n /\ i \in 0 .. n /\ i \in Nat
        BY <1>2, <3>1
      <4>2. x \in E(i - 1) + 1 .. E(i) /\ x <= w
        BY <1>5, <1>7, <2>4, <4>1
      <4>3. x \in ids <=> Value(a, i)
        BY <1>1, <4>1, <4>2
      <4>4. x \in new <=> x \in ids
        BY <4>2
      <4>. QED
        BY <2>7, <4>1, <4>3, <4>4
    <3>2. CASE i = n + 1
      <4>1. i - 1 = n /\ n \in 0 .. n /\ n + 1 \in Nat
        BY <1>2, <3>2
      <4>2. x \in w + 1 .. w + k
        BY <1>1, <2>4, <2>6, <3>2, <4>1
      <4>3. x \notin ids
        BY <1>1, <4>2
      <4>. QED
        BY <2>7, <2>8, <3>2, <4>1, <4>2, <4>3
    <3>. QED
      BY <1>2, <3>1, <3>2
  <2>. QED
    BY <1>8, <2>2, <2>6, <2>9 DEF IsRow
<1>. QED
  BY <1>9, <1>10

\* A row of one run.
LEMMA OneRun ==
  ASSUME NEW v \in BOOLEAN, NEW k \in Nat \ {0}, k < Word
  PROVE  IsRow(Run(v, k), IF v THEN 1 .. k ELSE {}, k)
<1>. DEFINE r == Run(v, k)
<1>1. r.flag = v /\ r.runs = <<k>> /\ r = [flag |-> v, runs |-> <<k>>]
  BY DEF Run
<1>2. k \in 0 .. Word - 1 /\ Len(<<k>>) = 1 /\ <<k>>[1] = k
  BY WordAssumption
<1>3. r \in Row
  BY <1>1, <1>2 DEF Row
<1>4. EndOf(r.runs, 0) = 0
  BY DEF EndOf
<1>5. Straight(r) /\ EndOf(r.runs, 1) = k
  <2>1. 0 \in 0 .. Len(r.runs) /\ 0 + 1 = Len(r.runs) /\ \A i \in 1 .. 0 : Solid(r, i)
    BY <1>1, <1>2
  <2>. QED
    BY <1>1, <1>2, <1>3, <1>4, <2>1, StraightBy
<1>6. Value(r, 1) = v
  BY <1>1, <1>3, Values
<1>. QED
  BY <1>1, <1>2, <1>4, <1>5, <1>6 DEF IsRow

----------------------------------------------------------------------------
(* Orders and ranks.                                                       *)

\* A strict total order, as a set of pairs.
IsOrder(S, R) ==
  /\ \A x \in S : <<x, x>> \notin R
  /\ \A x, y \in S : x # y => <<x, y>> \in R \/ <<y, x>> \in R
  /\ \A x, y, z \in S : <<x, y>> \in R /\ <<y, z>> \in R => <<x, z>> \in R

Rank(S, R, x) == Cardinality({y \in S : <<y, x>> \in R})

LEMMA Ranks ==
  ASSUME NEW S, IsFiniteSet(S), NEW R, IsOrder(S, R)
  PROVE  /\ \A x \in S : Rank(S, R, x) \in 0 .. Cardinality(S) - 1
         /\ \A x, y \in S : <<x, y>> \in R <=> Rank(S, R, x) < Rank(S, R, y)
         /\ \A i \in 1 .. Cardinality(S) : \E x \in S : Rank(S, R, x) = i - 1
<1>. DEFINE n == Cardinality(S)
            B(x) == {y \in S : <<y, x>> \in R}
            f == [x \in S |-> Rank(S, R, x) + 1]
<1>1. n \in Nat
  BY FS_CardinalityType
<1>2. \A x \in S : IsFiniteSet(B(x)) /\ Cardinality(B(x)) \in Nat /\ Rank(S, R, x) = Cardinality(B(x))
  <2>1. TAKE x \in S
  <2>2. B(x) \in SUBSET S
    OBVIOUS
  <2>3. IsFiniteSet(B(x))
    BY <2>2, FS_Subset
  <2>. QED
    BY <2>3, FS_CardinalityType DEF Rank
<1>3. \A x \in S : Rank(S, R, x) \in 0 .. n - 1
  <2>1. TAKE x \in S
  <2>2. B(x) \in SUBSET (S \ {x})
    BY DEF IsOrder
  <2>3. IsFiniteSet(S \ {x}) /\ Cardinality(S \ {x}) = n - 1
    BY FS_RemoveElement
  <2>4. Cardinality(B(x)) <= n - 1
    <3>. DEFINE A == B(x)
                Others == S \ {x}
    <3>1. A \in SUBSET Others /\ IsFiniteSet(Others) /\ Cardinality(Others) = n - 1
      BY <2>2, <2>3
    <3>. HIDE DEF A, Others, n
    <3>2. Cardinality(A) <= Cardinality(Others)
      BY <3>1, FS_Subset
    <3>3. Cardinality(A) <= n - 1
      BY <3>1, <3>2
    <3>. QED
      BY <3>3 DEF A
  <2>. QED
    BY <1>1, <1>2, <2>4
<1>4. ASSUME NEW x \in S, NEW y \in S, <<x, y>> \in R
      PROVE  Rank(S, R, x) < Rank(S, R, y)
  <2>1. B(x) \cup {x} \in SUBSET B(y) /\ x \notin B(x)
    BY <1>4 DEF IsOrder
  <2>2. Cardinality(B(x) \cup {x}) = Cardinality(B(x)) + 1
    BY <1>2, <2>1, FS_AddElement
  <2>3. Cardinality(B(x) \cup {x}) <= Cardinality(B(y))
    BY <1>2, <2>1, FS_Subset
  <2>. QED
    BY <1>2, <2>2, <2>3
<1>5. \A x, y \in S : <<x, y>> \in R <=> Rank(S, R, x) < Rank(S, R, y)
  <2>1. TAKE x, y \in S
  <2>2. Rank(S, R, x) \in Int /\ Rank(S, R, y) \in Int
    BY <1>3
  <2>3. CASE x = y
    BY <2>2, <2>3 DEF IsOrder
  <2>4. CASE x # y
    <3>1. <<x, y>> \in R \/ <<y, x>> \in R
      BY <2>4 DEF IsOrder
    <3>2. <<x, y>> \in R => Rank(S, R, x) < Rank(S, R, y)
      BY <1>4
    <3>3. <<y, x>> \in R => Rank(S, R, y) < Rank(S, R, x)
      BY <1>4
    <3>. QED
      BY <2>2, <3>1, <3>2, <3>3
  <2>. QED
    BY <2>3, <2>4
<1>6. \A x, y \in S : x # y => Rank(S, R, x) # Rank(S, R, y)
  <2>1. TAKE x, y \in S
  <2>2. Rank(S, R, x) \in Int /\ Rank(S, R, y) \in Int
    BY <1>3
  <2>3. HAVE x # y
  <2>4. <<x, y>> \in R \/ <<y, x>> \in R
    BY <2>3 DEF IsOrder
  <2>. QED
    BY <1>5, <2>2, <2>4
<1>7. f \in Injection(S, 1 .. n)
  <2>1. \A x \in S : Rank(S, R, x) + 1 \in 1 .. n
    BY <1>1, <1>3
  <2>2. f \in [S -> 1 .. n]
    BY <2>1
  <2>3. \A x, y \in S : f[x] = f[y] => x = y
    <3>1. TAKE x, y \in S
    <3>2. Rank(S, R, x) \in Int /\ Rank(S, R, y) \in Int
      BY <1>3
    <3>. QED
      BY <1>6, <3>2
  <2>. HIDE DEF f
  <2>. QED
    BY <2>2, <2>3, Fun_IsInj
<1>8. IsFiniteSet(1 .. n) /\ Cardinality(1 .. n) = n
  <2>1. 1 \in Int /\ n \in Int
    BY <1>1
  <2>. QED
    BY <1>1, <2>1, FS_Interval
<1>9. f \in Surjection(S, 1 .. n)
  <2>. HIDE DEF f
  <2>. QED
    BY <1>7, <1>8, FS_Injection
<1>10. \A i \in 1 .. n : \E x \in S : f[x] = i
  <2>. HIDE DEF f
  <2>. QED
    BY <1>9, Fun_SurjectionProperties
<1>11. \A i \in 1 .. n : \E x \in S : Rank(S, R, x) = i - 1
  <2>1. TAKE i \in 1 .. n
  <2>2. PICK x \in S : f[x] = i
    BY <1>10
  <2>3. Rank(S, R, x) \in Int /\ Rank(S, R, x) + 1 = i
    BY <1>3, <2>2
  <2>. QED
    BY <2>3
<1>. QED
  BY <1>3, <1>5, <1>11

\* Numbers in order, however they were come by, are the members of their set in order.
LEMMA AscendingUnique ==
  ASSUME NEW n \in Nat, NEW S \in SUBSET Int, NEW e \in [1 .. n -> S],
         \A i, j \in 1 .. n : i < j => e[i] < e[j],
         \A x \in S : \E i \in 1 .. n : e[i] = x
  PROVE  IsFiniteSet(S) /\ Cardinality(S) = n /\ Ascending(S) = e
<1>. DEFINE Upto(x) == {y \in S : y <= x}
<1>1. \A i \in 1 .. n : e[i] \in Int
  OBVIOUS
<1>2. \A i, j \in 1 .. n : e[i] = e[j] => i = j
  BY <1>1
<1>3. IsFiniteSet(S) /\ Cardinality(S) = n
  <2>1. e \in Bijection(1 .. n, S)
    BY <1>2, Fun_IsBij
  <2>2. ExistsBijection(1 .. n, S)
    BY <2>1 DEF ExistsBijection
  <2>. QED
    BY <2>2, FS_CountingElements, FS_NatBijection
<1>4. \A i \in 1 .. n : Cardinality(Upto(e[i])) = i
  <2>1. TAKE i \in 1 .. n
  <2>. DEFINE g == [j \in 1 .. i |-> e[j]]
  <2>2. \A j \in 1 .. n : j <= i <=> e[j] <= e[i]
    BY <1>1
  <2>3. \A j \in 1 .. i : j \in 1 .. n
    OBVIOUS
  <2>4. g \in [1 .. i -> Upto(e[i])]
    BY <2>2, <2>3
  <2>5. \A j, k \in 1 .. i : g[j] = g[k] => j = k
    BY <1>2, <2>3
  <2>6. \A x \in Upto(e[i]) : \E j \in 1 .. i : g[j] = x
    <3>1. TAKE x \in Upto(e[i])
    <3>2. PICK j \in 1 .. n : e[j] = x
      OBVIOUS
    <3>3. j \in 1 .. i
      BY <2>2, <3>2
    <3>. QED
      BY <3>2, <3>3
  <2>7. g \in Bijection(1 .. i, Upto(e[i]))
    <3>. HIDE DEF g, Upto
    <3>. QED
      BY <2>4, <2>5, <2>6, Fun_IsBij
  <2>8. ExistsBijection(1 .. i, Upto(e[i])) /\ i \in Nat
    <3>. HIDE DEF g, Upto
    <3>. QED
      BY <2>7 DEF ExistsBijection
  <2>. QED
    BY <2>8, FS_CountingElements
<1>5. \A i \in 1 .. n : (CHOOSE x \in S : Cardinality(Upto(x)) = i) = e[i]
  <2>1. TAKE i \in 1 .. n
  <2>2. \A x \in S : Cardinality(Upto(x)) = i => x = e[i]
    <3>1. TAKE x \in S
    <3>2. PICK j \in 1 .. n : e[j] = x
      OBVIOUS
    <3>. HIDE DEF Upto
    <3>. QED
      BY <1>4, <3>2
  <2>3. e[i] \in S /\ Cardinality(Upto(e[i])) = i
    BY <1>4
  <2>. HIDE DEF Upto
  <2>. QED
    BY <2>2, <2>3
<1>6. Ascending(S) = [i \in 1 .. n |-> CHOOSE x \in S : Cardinality(Upto(x)) = i]
  BY <1>3 DEF Ascending
<1>. HIDE DEF Upto
<1>. QED
  BY <1>3, <1>5, <1>6

----------------------------------------------------------------------------
(* Compressing.                                                            *)

\* The ends of the runs give back the runs.
LEMMA DeCumulativeOfEnds ==
  ASSUME NEW row \in Row
  PROVE  DeCumulative([i \in 1 .. Len(row.runs) |-> EndOf(row.runs, i)]) = row.runs
<1>. DEFINE n == Len(row.runs)
            e == [i \in 1 .. n |-> EndOf(row.runs, i)]
<1>1. row.runs \in Seq(Length) /\ n \in Nat /\ \A i \in 1 .. n : row.runs[i] \in Length
  BY RowTypes
<1>2. ASSUME NEW i \in 1 .. n
      PROVE  (IF i = 1 THEN e[1] ELSE (e[i] - e[i - 1]) % Word) = row.runs[i]
  <2>1. /\ EndOf(row.runs, i) = (EndOf(row.runs, i - 1) + row.runs[i]) % Word
        /\ EndOf(row.runs, i) \in Length
        /\ EndOf(row.runs, i - 1) \in Length
        /\ row.runs[i] \in Length
    <3>1. i - 1 \in 0 .. n /\ i \in 0 .. n
      BY <1>1
    <3>. QED
      BY <1>1, <3>1, CumulativeIs
  <2>2. CASE i = 1
    <3>1. EndOf(row.runs, 0) = 0
      BY DEF EndOf
    <3>2. row.runs[1] % Word = row.runs[1] /\ 0 + row.runs[1] = row.runs[1]
      BY <2>1, <2>2, NoWrap
    <3>3. 1 - 1 = 0
      OBVIOUS
    <3>. QED
      BY <2>1, <2>2, <3>1, <3>2, <3>3
  <2>3. CASE i # 1
    <3>1. i - 1 \in 1 .. n
      BY <1>1, <2>3
    <3>2. e[i] = EndOf(row.runs, i) /\ e[i - 1] = EndOf(row.runs, i - 1)
      BY <3>1
    <3>3. \A x, y \in Length : (((x + y) % Word) - x) % Word = y
      <4>1. TAKE x, y \in Length
      <4>2. CASE x + y < Word
        <5>1. x + y \in Length /\ (x + y) - x = y
          BY <4>2, WordAssumption DEF Length
        <5>. QED
          BY <5>1, NoWrap
      <4>3. CASE x + y >= Word
        <5>1. (x + y) - Word \in 0 .. Word - 1
          BY <4>3, WordAssumption DEF Length
        <5>2. (x + y) % Word = (x + y) - Word
          BY <5>1, WordAssumption DEF Length
        <5>3. ((x + y) - Word) - x = y - Word /\ y - Word \in Int /\ 0 - Word <= y - Word /\ y - Word < 0
          BY WordAssumption DEF Length
        <5>4. (y - Word) % Word = (y - Word) + Word
          BY <5>3, Wraps
        <5>5. (y - Word) + Word = y
          BY WordAssumption DEF Length
        <5>. QED
          BY <5>2, <5>3, <5>4, <5>5
      <4>. QED
        BY <4>2, <4>3, WordAssumption DEF Length
    <3>. QED
      BY <2>1, <2>3, <3>2, <3>3
  <2>. QED
    BY <2>2, <2>3
<1>3. DeCumulative(e) = [i \in 1 .. n |-> IF i = 1 THEN e[1] ELSE (e[i] - e[i - 1]) % Word]
  BY DEF DeCumulative
<1>4. DeCumulative(e) = [i \in 1 .. n |-> row.runs[i]]
  <2>. HIDE DEF e
  <2>. QED
    BY <1>2, <1>3
<1>. QED
  BY <1>1, <1>4

\* A row is what compressing its bits gives.
LEMMA Canonical ==
  ASSUME NEW row, NEW ids, NEW w, IsRow(row, ids, w)
  PROVE  row = Compress(ids, w)
<1>. DEFINE n == Len(row.runs)
            E(i) == EndOf(row.runs, i)
            ends == {p \in 1 .. w : p = w \/ ((p \in ids) # (p + 1 \in ids))}
            e == [i \in 1 .. n |-> E(i)]
<1>1. /\ Straight(row) /\ E(n) = w /\ ids \subseteq 1 .. w
      /\ \A i \in 1 .. n : \A x \in E(i - 1) + 1 .. E(i) : x \in ids <=> Value(row, i)
  BY DEF IsRow
<1>2. row \in Row /\ n \in Nat /\ n >= 1 /\ \A i \in 1 .. n : Solid(row, i)
  BY <1>1, RowTypes DEF Straight
<1>3. E(0) = 0 /\ \A i \in 0 .. n : E(i) \in Nat
  BY <1>2, RowEnds
<1>4. /\ \A j \in 0 .. n : \A i \in 0 .. j : E(i) + (j - i) <= E(j)
      /\ \A x \in 1 .. w : \E i \in 1 .. n : E(i - 1) < x /\ x <= E(i)
  <2>1. n \in 0 .. Len(row.runs)
    BY <1>2
  <2>. QED
    BY <1>1, <1>2, <2>1, SolidEnds
<1>5. \A i \in 1 .. n : Value(row, i) \in BOOLEAN /\ Value(row, i + 1) = ~Value(row, i)
  BY <1>2, Values
<1>6. \A i \in 1 .. n : i - 1 \in 0 .. n /\ i \in 0 .. n
  BY <1>2
<1>7. w \in Nat
  BY <1>1, <1>2, <1>3
<1>8. \A i, j \in 0 .. n : i < j => E(i) < E(j)
  <2>1. TAKE i, j \in 0 .. n
  <2>2. HAVE i < j
  <2>3. i \in 0 .. j /\ E(i) + (j - i) <= E(j) /\ E(i) \in Nat /\ E(j) \in Nat
    BY <1>3, <1>4, <2>2
  <2>. QED
    BY <2>2, <2>3
<1>. HIDE DEF n, E
<1>9. ASSUME NEW i \in 1 .. n
      PROVE  E(i) \in ends
  <2>1. E(i - 1) \in Nat /\ E(i) \in Nat /\ E(i - 1) < E(i)
    BY <1>3, <1>6, <1>8
  <2>2. E(i) \in ids <=> Value(row, i)
    <3>1. E(i) \in E(i - 1) + 1 .. E(i)
      BY <2>1
    <3>. QED
      BY <1>1, <3>1
  <2>3. CASE i = n
    BY <1>1, <2>1, <2>3
  <2>4. CASE i # n
    <3>1. i + 1 \in 1 .. n /\ (i + 1) - 1 = i /\ i + 1 \in 0 .. n /\ n \in 0 .. n /\ i \in 0 .. n /\ i < n /\ i < i + 1
      BY <1>2, <2>4
    <3>2. E(i + 1) \in Nat /\ E(i) < E(i + 1) /\ E(i) < w
      BY <1>1, <1>3, <1>8, <3>1
    <3>3. E(i) + 1 \in E((i + 1) - 1) + 1 .. E(i + 1)
      BY <2>1, <3>1, <3>2
    <3>4. E(i) + 1 \in ids <=> Value(row, i + 1)
      BY <1>1, <3>1, <3>3
    <3>. QED
      <4>1. Value(row, i) \in BOOLEAN /\ Value(row, i + 1) = ~Value(row, i)
        BY <1>5
      <4>2. (E(i) \in ids) # (E(i) + 1 \in ids)
        BY <2>2, <3>4, <4>1
      <4>3. E(i) \in 1 .. w
        BY <1>3, <1>6, <1>7, <2>1, <3>2
      <4>. HIDE DEF E
      <4>. QED
        BY <4>2, <4>3
  <2>. QED
    BY <2>3, <2>4
<1>10. ASSUME NEW p \in ends
       PROVE  \E i \in 1 .. n : E(i) = p
  <2>1. p \in 1 .. w /\ p \in Nat
    BY <1>7
  <2>2. PICK i \in 1 .. n : E(i - 1) < p /\ p <= E(i)
    BY <1>4, <2>1
  <2>3. E(i - 1) \in Nat /\ E(i) \in Nat
    BY <1>3, <1>6
  <2>4. SUFFICES ASSUME p < E(i) PROVE FALSE
    BY <2>1, <2>2, <2>3
  <2>5. p \in E(i - 1) + 1 .. E(i) /\ p + 1 \in E(i - 1) + 1 .. E(i)
    BY <2>1, <2>2, <2>3, <2>4
  <2>6. (p \in ids) = (p + 1 \in ids)
    BY <1>1, <2>5
  <2>7. E(i) <= w
    BY <1>1, <1>2, <1>3, <1>6, <1>8
  <2>. QED
    BY <1>7, <2>1, <2>3, <2>4, <2>6, <2>7
<1>11. Ascending(ends) = e
  <2>1. e \in [1 .. n -> ends]
    BY <1>9
  <2>2. \A i, j \in 1 .. n : i < j => e[i] < e[j]
    BY <1>6, <1>8
  <2>3. \A x \in ends : \E i \in 1 .. n : e[i] = x
    BY <1>10
  <2>4. ends \in SUBSET Int
    BY <1>7
  <2>. HIDE DEF e, ends
  <2>. QED
    BY <1>2, <2>1, <2>2, <2>3, <2>4, AscendingUnique
<1>12. DeCumulative(e) = row.runs
  BY <1>2, DeCumulativeOfEnds DEF n, E
<1>13. (1 \in ids) = row.flag
  <2>1. 1 \in 1 .. n /\ E(1 - 1) = 0 /\ 0 \in 0 .. n /\ 1 \in 0 .. n
    BY <1>2, <1>3
  <2>2. E(1) \in Nat /\ E(0) < E(1)
    BY <1>3, <1>8, <2>1
  <2>3. 1 \in E(1 - 1) + 1 .. E(1)
    BY <1>3, <2>1, <2>2
  <2>4. 1 \in ids <=> Value(row, 1)
    BY <1>1, <2>1, <2>3
  <2>. QED
    BY <1>2, <2>4, Values, RowTypes
<1>14. Compress(ids, w) = [flag |-> 1 \in ids, runs |-> DeCumulative(Ascending(ends))]
  BY DEF Compress
<1>. QED
  BY <1>2, <1>11, <1>12, <1>13, <1>14 DEF Row

\* Every set of bits has a row.
LEMMA HasRow ==
  ASSUME NEW w \in Nat \ {0}, w < Word, NEW ids \in SUBSET (1 .. w)
  PROVE  IsRow(Compress(ids, w), ids, w)
<1>. DEFINE Has(k) == \E row : IsRow(row, ids \cap (1 .. k), k)
            T == {k \in 0 .. w : k >= 1 => Has(k)}
<1>1. 0 \in T
  OBVIOUS
<1>2. ASSUME NEW k \in 1 .. w, k - 1 \in T PROVE k \in T
  <2>1. CASE k = 1
    <3>. DEFINE v == 1 \in ids
    <3>1. IsRow(Run(v, 1), IF v THEN 1 .. 1 ELSE {}, 1)
      <4>1. v \in BOOLEAN /\ 1 \in Nat \ {0} /\ 1 < Word
        BY WordAssumption
      <4>. HIDE DEF v
      <4>. QED
        BY <4>1, OneRun
    <3>2. (IF v THEN 1 .. 1 ELSE {}) = ids \cap (1 .. 1)
      OBVIOUS
    <3>. QED
      BY <2>1, <3>1, <3>2
  <2>2. CASE k # 1
    <3>. DEFINE v == k \in ids
                old == ids \cap (1 .. k - 1)
    <3>0. Has(k - 1)
      <4>1. k - 1 >= 1
        BY <2>2
      <4>. HIDE DEF Has
      <4>. QED
        BY <1>2, <4>1
    <3>1. PICK row : IsRow(row, old, k - 1)
      BY <3>0
    <3>2. k - 1 \in Nat /\ 1 \in Nat \ {0} /\ (k - 1) + 1 = k /\ (k - 1) + 1 < Word /\ v \in BOOLEAN
      BY WordAssumption
    <3>. DEFINE all == IF v THEN old \cup ((k - 1) + 1 .. (k - 1) + 1) ELSE old
    <3>3. IsRow(Concatenate(row, Run(v, 1)), all, (k - 1) + 1)
      <4>. HIDE DEF old, v
      <4>. QED
        BY <3>1, <3>2, Extended
    <3>4. all = ids \cap (1 .. k)
      OBVIOUS
    <3>5. Has(k)
      <4>. HIDE DEF all
      <4>. QED
        BY <3>2, <3>3, <3>4
    <3>. HIDE DEF Has
    <3>. QED
      BY <3>5
  <2>. QED
    BY <2>1, <2>2
<1>. HIDE DEF T
<1>3. \A k \in 0 .. w : k \in T
  BY <1>1, <1>2, InductOn
<1>4. Has(w)
  BY <1>3 DEF T
<1>5. ids \cap (1 .. w) = ids
  OBVIOUS
<1>6. PICK row : IsRow(row, ids, w)
  BY <1>4, <1>5
<1>. QED
  BY <1>6, Canonical

----------------------------------------------------------------------------
(* Counting.                                                               *)

\* The bits of the runs up to the i-th.
BitsTo(row, i) ==
  {x \in Nat : \E j \in 1 .. i :
     Value(row, j) /\ EndOf(row.runs, j - 1) < x /\ x <= EndOf(row.runs, j)}

LEMMA LooseEnds ==
  ASSUME NEW row, Loose(row)
  PROVE  /\ row \in Row /\ Len(row.runs) \in Nat /\ Len(row.runs) >= 1
         /\ EndOf(row.runs, 0) = 0
         /\ \A i \in 0 .. Len(row.runs) : EndOf(row.runs, i) \in Nat /\ EndOf(row.runs, i) \in Length
         /\ \A i, j \in 0 .. Len(row.runs) :
              i <= j /\ j < Len(row.runs) => EndOf(row.runs, i) <= EndOf(row.runs, j)
         /\ \A i \in 1 .. Len(row.runs) :
              i < Len(row.runs) \/ Value(row, i) => EndOf(row.runs, i - 1) < EndOf(row.runs, i)
<1>. DEFINE n == Len(row.runs)
            E(i) == EndOf(row.runs, i)
<1>1. row \in Row /\ n \in Nat /\ n >= 1 /\ \A i \in 1 .. n : row.runs[i] \in Nat
  BY RowTypes DEF Loose
<1>2. E(0) = 0 /\ \A i \in 0 .. n : E(i) \in Nat /\ E(i) \in Length
  BY <1>1, RowEnds
<1>3. \A i \in 1 .. n : i < n \/ Value(row, i) => E(i) = E(i - 1) + row.runs[i] /\ row.runs[i] >= 1
  BY DEF Loose, Solid
<1>4. \A j \in 0 .. n - 1 : \A i \in 0 .. j : E(i) + (j - i) <= E(j)
  <2>1. n - 1 \in 0 .. Len(row.runs) /\ \A i \in 1 .. n - 1 : Solid(row, i)
    BY <1>1 DEF Loose
  <2>. QED
    BY <1>1, <2>1, SolidEnds
<1>. HIDE DEF n, E
<1>5. \A i, j \in 0 .. n : i <= j /\ j < n => E(i) <= E(j)
  <2>1. TAKE i, j \in 0 .. n
  <2>2. HAVE i <= j /\ j < n
  <2>3. j \in 0 .. n - 1 /\ i \in 0 .. j /\ E(i) \in Nat /\ E(j) \in Nat
    BY <1>1, <1>2, <2>2
  <2>4. E(i) + (j - i) <= E(j)
    BY <1>4, <2>3
  <2>. QED
    BY <2>3, <2>4
<1>6. \A i \in 1 .. n : i < n \/ Value(row, i) => E(i - 1) < E(i)
  <2>1. TAKE i \in 1 .. n
  <2>2. HAVE i < n \/ Value(row, i)
  <2>3. i - 1 \in 0 .. n /\ i \in 0 .. n /\ E(i) \in Nat /\ E(i - 1) \in Nat /\ row.runs[i] \in Nat
    BY <1>1, <1>2
  <2>. QED
    BY <1>3, <2>2, <2>3
<1>. QED
  BY <1>1, <1>2, <1>5, <1>6 DEF n, E

LEMMA BitsToAll ==
  ASSUME NEW row, Loose(row)
  PROVE  Bits(row) = BitsTo(row, Len(row.runs))
<1>1. \A i \in 1 .. Len(row.runs) : i - 1 \in 0 .. Len(row.runs) /\ EndOf(row.runs, i - 1) \in Nat
  BY LooseEnds
<1>2. \A x : x \in Bits(row) <=> x \in BitsTo(row, Len(row.runs))
  <2>1. TAKE x
  <2>2. x \in Bits(row) <=> x \in Int /\ \E i \in 1 .. Len(row.runs) :
             Value(row, i) /\ EndOf(row.runs, i - 1) < x /\ x <= EndOf(row.runs, i)
    BY BitsAre
  <2>. QED
    BY <1>1, <2>2 DEF BitsTo
<1>. QED
  BY <1>2

\* count_triples_in_row counts the bits.
THEOREM CountIsBits ==
  ASSUME NEW row, Loose(row)
  PROVE  /\ IsFiniteSet(Bits(row))
         /\ CountTriplesInRow(row) = Cardinality(Bits(row))
<1>. DEFINE n == Len(row.runs)
            E(i) == EndOf(row.runs, i)
            s == [i \in 1 .. n |-> IF Value(row, i) THEN row.runs[i] ELSE 0]
            T == {i \in 0 .. n : IsFiniteSet(BitsTo(row, i)) /\ Sums(s)[i] = Cardinality(BitsTo(row, i))}
<1>1. row \in Row /\ n \in Nat /\ n >= 1 /\ \A i \in 1 .. n : row.runs[i] \in Nat
  BY LooseEnds, RowTypes
<1>2. s \in Seq(Nat) /\ Len(s) = n /\ \A i \in 1 .. n : s[i] = IF Value(row, i) THEN row.runs[i] ELSE 0
  BY <1>1
<1>. HIDE DEF s
<1>3. Sums(s)[0] = 0 /\ \A i \in 1 .. n : Sums(s)[i] = Sums(s)[i - 1] + s[i]
  BY <1>2, SumsAre
<1>4. 0 \in T
  <2>1. BitsTo(row, 0) = {}
    BY DEF BitsTo
  <2>2. IsFiniteSet(BitsTo(row, 0)) /\ Cardinality(BitsTo(row, 0)) = 0
    BY <2>1, FS_EmptySet, Zenon
  <2>. HIDE DEF n
  <2>. QED
    BY <1>1, <1>3, <2>2
<1>5. ASSUME NEW i \in 1 .. n, i - 1 \in T PROVE i \in T
  <2>1. IsFiniteSet(BitsTo(row, i - 1)) /\ Sums(s)[i - 1] = Cardinality(BitsTo(row, i - 1))
    BY <1>5
  <2>2. E(i - 1) \in Nat /\ E(i) \in Nat /\ i - 1 \in 0 .. n /\ i \in 0 .. n
    BY <1>1, LooseEnds
  <2>. DEFINE new == E(i - 1) + 1 .. E(i)
  <2>3. CASE Value(row, i)
    <3>1. E(i) = E(i - 1) + row.runs[i] /\ row.runs[i] \in Nat
      BY <1>1, <2>3 DEF Loose, Solid
    <3>2. BitsTo(row, i) = BitsTo(row, i - 1) \cup new
      <4>1. \A x \in Nat : x \in new <=> E(i - 1) < x /\ x <= E(i)
        BY <2>2
      <4>2. new \subseteq Nat
        BY <2>2
      <4>3. \A j : j \in 1 .. i <=> j \in 1 .. i - 1 \/ j = i
        OBVIOUS
      <4>. HIDE DEF new
      <4>. QED
        BY <2>3, <4>1, <4>2, <4>3 DEF BitsTo
    <3>3. BitsTo(row, i - 1) \cap new = {}
      <4>1. SUFFICES ASSUME NEW x \in new, x \in BitsTo(row, i - 1) PROVE FALSE
        OBVIOUS
      <4>2. PICK j \in 1 .. i - 1 : x <= E(j)
        BY <4>1 DEF BitsTo
      <4>3. j \in 0 .. n /\ j <= i - 1 /\ i - 1 < n
        BY <1>1, <2>2
      <4>4. E(j) <= E(i - 1) /\ E(j) \in Nat
        BY <2>2, <4>3, LooseEnds
      <4>. QED
        BY <2>2, <4>2, <4>4
    <3>4. IsFiniteSet(new) /\ Cardinality(new) = row.runs[i]
      <4>1. E(i - 1) + 1 \in Int /\ E(i) \in Int
        BY <2>2
      <4>2. IsFiniteSet(new) /\ Cardinality(new) = IF E(i - 1) + 1 > E(i) THEN 0 ELSE E(i) - (E(i - 1) + 1) + 1
        BY <4>1, FS_Interval
      <4>. QED
        BY <2>2, <3>1, <4>2
    <3>5. IsFiniteSet(BitsTo(row, i)) /\ Cardinality(BitsTo(row, i)) = Cardinality(BitsTo(row, i - 1)) + row.runs[i]
      <4>1. Cardinality(BitsTo(row, i - 1) \cap new) = 0
        BY <3>3, FS_EmptySet
      <4>2. Cardinality(BitsTo(row, i - 1)) \in Nat
        BY <2>1, FS_CardinalityType
      <4>3. IsFiniteSet(BitsTo(row, i - 1) \cup new) /\ Cardinality(BitsTo(row, i - 1) \cup new) =
              Cardinality(BitsTo(row, i - 1)) + Cardinality(new) - Cardinality(BitsTo(row, i - 1) \cap new)
        BY <2>1, <3>4, FS_Union
      <4>. HIDE DEF new
      <4>. QED
        BY <3>1, <3>2, <3>4, <4>1, <4>2, <4>3
    <3>. QED
      BY <1>2, <1>3, <2>1, <2>2, <2>3, <3>5
  <2>4. CASE ~Value(row, i)
    <3>1. BitsTo(row, i) = BitsTo(row, i - 1)
      <4>1. \A j : j \in 1 .. i <=> j \in 1 .. i - 1 \/ j = i
        OBVIOUS
      <4>. QED
        BY <2>4, <4>1 DEF BitsTo
    <3>2. Sums(s)[i] = Sums(s)[i - 1]
      <4>1. Cardinality(BitsTo(row, i - 1)) \in Nat
        BY <2>1, FS_CardinalityType
      <4>. QED
        BY <1>2, <1>3, <2>1, <2>4, <4>1
    <3>. QED
      BY <2>1, <2>2, <3>1, <3>2
  <2>. QED
    BY <2>3, <2>4
<1>. HIDE DEF T
<1>6. \A i \in 0 .. n : i \in T
  BY <1>1, <1>4, <1>5, InductOn
<1>7. IsFiniteSet(BitsTo(row, n)) /\ Sums(s)[n] = Cardinality(BitsTo(row, n))
  BY <1>1, <1>6 DEF T
<1>8. CountTriplesInRow(row) = Sums(s)[n]
  BY <1>2 DEF CountTriplesInRow, SumOf, s
<1>. QED
  BY <1>7, <1>8, BitsToAll

\* The test of a result is the test for no bit.
LEMMA ZeroIsNoBit ==
  ASSUME NEW row, Loose(row)
  PROVE  IsZero(row) <=> Bits(row) = {}
<1>. DEFINE n == Len(row.runs)
<1>1. row \in Row /\ n \in Nat /\ n >= 1 /\ row.flag \in BOOLEAN
  BY LooseEnds, RowTypes
<1>2. ASSUME NEW i \in 1 .. n, Value(row, i) PROVE Bits(row) # {}
  <2>1. EndOf(row.runs, i - 1) < EndOf(row.runs, i) /\ EndOf(row.runs, i) \in Nat /\ i \in 0 .. n
    BY <1>2, LooseEnds
  <2>2. EndOf(row.runs, i) \in Bits(row)
    <3>1. EndOf(row.runs, i) \in Int /\ EndOf(row.runs, i) <= EndOf(row.runs, i)
      BY <2>1
    <3>. QED
      BY <1>2, <2>1, <3>1, BitsAre
  <2>. QED
    BY <2>2
<1>3. ASSUME Bits(row) # {} PROVE \E i \in 1 .. n : Value(row, i)
  BY <1>3, BitsAre
<1>4. Value(row, 1) = row.flag /\ Value(row, 2) = ~row.flag
  <2>1. 1 \in Nat /\ 1 + 1 = 2
    OBVIOUS
  <2>. QED
    BY <1>1, <2>1, Values
<1>5. CASE IsZero(row)
  <2>1. n = 1 /\ ~row.flag
    BY <1>5 DEF IsZero
  <2>2. \A i \in 1 .. n : i = 1
    BY <2>1
  <2>. QED
    BY <1>3, <1>4, <1>5, <2>1, <2>2
<1>6. CASE ~IsZero(row)
  <2>1. row.flag \/ n >= 2
    <3>1. row.flag \/ n # 1
      BY <1>6, Zenon DEF IsZero
    <3>2. n # 1 => n >= 2
      <4>1. n \in Nat /\ n >= 1
        BY LooseEnds
      <4>. HIDE DEF n
      <4>. QED
        BY <4>1
    <3>. QED
      BY <3>1, <3>2, Zenon
  <2>2. CASE row.flag
    <3>1. 1 \in 1 .. n
      BY <1>1
    <3>. QED
      BY <1>2, <1>4, <1>6, <2>2, <3>1
  <2>3. CASE ~row.flag
    <3>1. 2 \in 1 .. n
      BY <1>1, <2>1, <2>3
    <3>. QED
      BY <1>2, <1>4, <1>6, <2>3, <3>1
  <2>. QED
    BY <2>2, <2>3
<1>. QED
  BY <1>5, <1>6

----------------------------------------------------------------------------
(* dgap_AND.                                                               *)

\* The i-th run is the one that goes on after v, or there is no 1 after v.
Covers(row, i, v) ==
  LET n == Len(row.runs) IN
    /\ i \in 1 .. n + 1
    /\ i <= n => /\ EndOf(row.runs, i - 1) <= v
                 /\ i < n \/ Value(row, i) => v < EndOf(row.runs, i)
    /\ i = n + 1 => \A k \in 1 .. n : Value(row, k) => EndOf(row.runs, k) <= v

LEMMA EndsSeq ==
  ASSUME NEW row \in Row
  PROVE  /\ Cumulative(row.runs) \in Seq(Length) /\ Len(Cumulative(row.runs)) = Len(row.runs)
         /\ \A i \in 1 .. Len(row.runs) : Cumulative(row.runs)[i] = EndOf(row.runs, i)
<1>1. row.runs \in Seq(Length) /\ Len(row.runs) \in Nat
  BY RowTypes
<1>2. Cumulative(row.runs) \in [1 .. Len(row.runs) -> Length]
  BY <1>1, CumulativeIs
<1>3. \A i \in 1 .. Len(row.runs) : Cumulative(row.runs)[i] = EndOf(row.runs, i)
  BY <1>1 DEF EndOf
<1>. QED
  BY <1>1, <1>2, <1>3

LEMMA PastType ==
  ASSUME NEW ends \in Seq(Length), NEW i \in 1 .. Len(ends), NEW v \in Nat
  PROVE  Past(ends, i, v) \in i .. Len(ends) + 1
<1>. DEFINE later == {k \in i + 1 .. Len(ends) : ends[k] > v}
<1>1. Len(ends) \in Nat
  OBVIOUS
<1>2. ASSUME later # {}
      PROVE  (CHOOSE k \in later : \A l \in later : k <= l) \in later
  <2>1. PICK m \in later : \A l \in later : m <= l
    <3>1. later \in SUBSET Nat
      OBVIOUS
    <3>. HIDE DEF later
    <3>. QED
      BY <1>2, <3>1, Least
  <2>. HIDE DEF later
  <2>. QED
    BY <2>1
<1>3. Past(ends, i, v) = IF ends[i] > v THEN i ELSE IF ends[i] = v THEN i + 1
                         ELSE IF later = {} THEN Len(ends) + 1
                         ELSE CHOOSE k \in later : \A l \in later : k <= l
  BY DEF Past
<1>4. \A k \in later : k \in i .. Len(ends) + 1
  BY <1>1
<1>. HIDE DEF later
<1>. QED
  BY <1>1, <1>2, <1>3, <1>4

LEMMA PastCovers ==
  ASSUME NEW row, Loose(row), NEW i \in 1 .. Len(row.runs), NEW v \in Nat,
         EndOf(row.runs, i - 1) <= v,
         NEW ends, ends = Cumulative(row.runs)
  PROVE  LET p == Past(ends, i, v) IN
           /\ p \in i .. Len(row.runs) + 1
           /\ Covers(row, p, v)
           /\ EndOf(row.runs, i) <= v => p >= i + 1
           /\ EndOf(row.runs, i) = v => p = i + 1
           /\ v < EndOf(row.runs, i) => p = i
<1>. DEFINE n == Len(row.runs)
            E(k) == EndOf(row.runs, k)
            p == Past(ends, i, v)
            later == {k \in i + 1 .. Len(ends) : ends[k] > v}
            least == CHOOSE k \in later : \A l \in later : k <= l
<1>1. row \in Row /\ n \in Nat /\ n >= 1 /\ \A k \in 0 .. n : E(k) \in Nat
  BY LooseEnds
<1>2. ends \in Seq(Length) /\ Len(ends) = n /\ \A k \in 1 .. n : ends[k] = E(k)
  BY <1>1, EndsSeq
<1>3. p \in i .. n + 1
  BY <1>2, PastType
<1>4. p = IF ends[i] > v THEN i ELSE IF ends[i] = v THEN i + 1
          ELSE IF later = {} THEN Len(ends) + 1 ELSE least
  BY DEF Past
<1>5. /\ \A k, l \in 0 .. n : k <= l /\ l < n => E(k) <= E(l)
      /\ \A k \in 1 .. n : k < n \/ Value(row, k) => E(k - 1) < E(k)
  BY LooseEnds
<1>6. E(i) \in Nat /\ i \in 0 .. n /\ i \in 1 .. n /\ i \in Nat
  BY <1>1
<1>7. ASSUME later # {} PROVE least \in later /\ \A l \in later : least <= l
  <2>1. \E m \in later : \A l \in later : m <= l
    <3>1. later \in SUBSET Nat
      BY <1>1, <1>2
    <3>. HIDE DEF later
    <3>. QED
      BY <1>7, <3>1, Least
  <2>. HIDE DEF later
  <2>. QED
    BY <2>1
<1>8. \A k : k \in later <=> k \in i + 1 .. n /\ E(k) > v
  BY <1>1, <1>2
<1>. HIDE DEF n, E, later, least, p
<1>9. CASE v < E(i)
  <2>1. p = i
    BY <1>2, <1>4, <1>6, <1>9
  <2>2. Covers(row, p, v)
    BY <1>1, <1>9, <2>1 DEF Covers, n, E
  <2>. QED
    BY <1>3, <1>6, <1>9, <2>1, <2>2 DEF p, n, E
<1>10. CASE E(i) = v
  <2>1. p = i + 1
    BY <1>2, <1>4, <1>6, <1>10
  <2>2. ASSUME p <= n PROVE E(p - 1) <= v /\ (p < n \/ Value(row, p) => v < E(p))
    <3>1. p \in 1 .. n /\ p - 1 = i
      BY <1>1, <2>1, <2>2
    <3>. QED
      BY <1>5, <1>6, <1>10, <3>1
  <2>3. ASSUME p = n + 1, NEW k \in 1 .. n, Value(row, k) PROVE E(k) <= v
    <3>1. i = n
      BY <1>1, <2>1, <2>3
    <3>2. CASE k = n
      BY <1>6, <1>10, <3>1, <3>2
    <3>3. CASE k # n
      <4>1. n - 1 \in 0 .. n /\ k \in 0 .. n /\ k <= n - 1 /\ n - 1 < n
        BY <1>1, <3>3
      <4>2. E(k) <= E(n - 1) /\ E(k) \in Nat /\ E(n - 1) \in Nat
        BY <1>1, <1>5, <4>1
      <4>. QED
        BY <3>1, <4>2 DEF E
    <3>. QED
      BY <3>2, <3>3
  <2>4. Covers(row, p, v)
    BY <1>1, <1>3, <2>2, <2>3 DEF Covers, n, E
  <2>. QED
    BY <1>3, <1>6, <1>10, <2>1, <2>4 DEF p, n, E
<1>11. CASE E(i) < v
  <2>1. p = IF later = {} THEN n + 1 ELSE least
    BY <1>2, <1>4, <1>6, <1>11
  <2>2. p >= i + 1
    <3>1. CASE later = {}
      BY <1>1, <1>6, <2>1, <3>1
    <3>2. CASE later # {}
      <4>1. p \in i + 1 .. n
        BY <1>7, <1>8, <2>1, <3>2
      <4>. QED
        BY <1>1, <1>6, <4>1
    <3>. QED
      BY <3>1, <3>2
  <2>3. \A k \in i + 1 .. n : k < p => E(k) <= v
    <3>1. TAKE k \in i + 1 .. n
    <3>2. E(k) \in Nat
      BY <1>1
    <3>3. CASE later = {}
      BY <1>8, <3>2, <3>3
    <3>4. CASE later # {}
      <4>1. p = least /\ p \in Nat
        BY <1>3, <2>1, <3>4
      <4>2. k < p => k \notin later
        BY <1>7, <3>4, <4>1
      <4>. QED
        BY <1>8, <3>2, <4>2
    <3>. QED
      BY <3>3, <3>4
  <2>4. ASSUME p <= n PROVE E(p - 1) <= v /\ v < E(p)
    <3>1. later # {} /\ p = least
      BY <1>1, <2>1, <2>4
    <3>2. E(p) > v /\ p \in i + 1 .. n
      BY <1>7, <1>8, <3>1
    <3>3. p - 1 = i \/ (p - 1 \in i + 1 .. n /\ p - 1 < p)
      BY <1>1, <1>6, <3>2
    <3>4. E(p - 1) <= v
      BY <1>6, <1>11, <2>3, <3>3
    <3>5. E(p) \in Nat
      BY <1>1, <3>2
    <3>. QED
      BY <3>2, <3>4, <3>5
  <2>5. ASSUME p = n + 1, NEW k \in 1 .. n, Value(row, k) PROVE E(k) <= v
    <3>1. CASE k > i
      <4>1. k \in i + 1 .. n /\ k < p
        BY <1>1, <2>5, <3>1
      <4>. QED
        BY <2>3, <4>1
    <3>2. CASE k = i
      BY <1>6, <1>11, <3>2
    <3>3. CASE k < i
      <4>1. i - 1 \in 0 .. n /\ k \in 0 .. n /\ k <= i - 1 /\ i - 1 < n
        BY <1>1, <1>6, <3>3
      <4>2. E(k) <= E(i - 1) /\ E(k) \in Nat /\ E(i - 1) \in Nat
        BY <1>1, <1>5, <4>1
      <4>. QED
        BY <4>2 DEF E
    <3>. QED
      BY <3>1, <3>2, <3>3
  <2>6. Covers(row, p, v)
    BY <1>1, <1>3, <2>4, <2>5 DEF Covers, n, E
  <2>. QED
    BY <1>3, <1>6, <1>11, <2>2, <2>6 DEF p, n, E
<1>. QED
  BY <1>6, <1>9, <1>10, <1>11

\* What the run that covers v says of the bits after v.
LEMMA CoveredRun ==
  ASSUME NEW row, Loose(row), NEW i \in 1 .. Len(row.runs), NEW v \in Nat, Covers(row, i, v)
  PROVE  /\ EndOf(row.runs, i) \in Nat /\ EndOf(row.runs, i) \in Length
         /\ Value(row, i) => /\ v < EndOf(row.runs, i)
                             /\ \A x \in v + 1 .. EndOf(row.runs, i) : x \in Bits(row)
         /\ ~Value(row, i) => /\ \A x \in Bits(row) : x > v => x > EndOf(row.runs, i)
                              /\ \/ v < EndOf(row.runs, i)
                                 \/ i = Len(row.runs) /\ \A x \in Bits(row) : x <= v
<1>. DEFINE n == Len(row.runs)
            E(k) == EndOf(row.runs, k)
<1>1. /\ row \in Row /\ n \in Nat /\ n >= 1 /\ \A k \in 0 .. n : E(k) \in Nat /\ E(k) \in Length
      /\ \A k, l \in 0 .. n : k <= l /\ l < n => E(k) <= E(l)
  BY LooseEnds
<1>2. E(i - 1) <= v /\ (i < n \/ Value(row, i) => v < E(i))
  BY DEF Covers
<1>3. \A x : x \in Bits(row) <=> x \in Int /\ \E k \in 1 .. n : Value(row, k) /\ E(k - 1) < x /\ x <= E(k)
  BY BitsAre
<1>4. E(i) \in Nat /\ E(i) \in Length /\ E(i - 1) \in Nat /\ i - 1 \in 0 .. n /\ i \in 0 .. n
  BY <1>1
<1>. HIDE DEF n, E
<1>5. ASSUME Value(row, i), NEW x \in v + 1 .. E(i) PROVE x \in Bits(row)
  <2>1. x \in Int /\ E(i - 1) < x /\ x <= E(i)
    BY <1>2, <1>4
  <2>2. i \in 1 .. n
    BY DEF n
  <2>. QED
    BY <1>3, <1>5, <2>1, <2>2
\* A bit after v is in a later run.
<1>6. ASSUME ~Value(row, i), NEW x \in Bits(row), x > v
      PROVE  i < n /\ x > E(i)
  <2>1. x \in Int
    BY <1>3
  <2>2. PICK k \in 1 .. n : Value(row, k) /\ E(k - 1) < x /\ x <= E(k)
    BY <1>3
  <2>3. k # i /\ k - 1 \in 0 .. n /\ k \in 0 .. n /\ E(k) \in Nat /\ E(k - 1) \in Nat
    BY <1>1, <1>6, <2>2
  <2>4. CASE k < i
    <3>1. k <= i - 1 /\ i - 1 < n
      BY <1>1, <1>4, <2>4
    <3>2. E(k) <= E(i - 1)
      BY <1>1, <1>4, <2>3, <3>1
    <3>. QED
      BY <1>2, <1>4, <1>6, <2>1, <2>2, <2>3, <3>2
  <2>5. CASE k > i
    <3>1. i <= k - 1 /\ k - 1 < n /\ i < n
      BY <1>1, <1>4, <2>5
    <3>2. E(i) <= E(k - 1)
      BY <1>1, <1>4, <2>3, <3>1
    <3>. QED
      BY <1>4, <2>1, <2>2, <2>3, <3>1, <3>2
  <2>. QED
    BY <2>3, <2>4, <2>5
<1>7. \A x \in Bits(row) : x \in Int
  BY <1>3
<1>8. ASSUME ~Value(row, i), ~(v < E(i)) PROVE i = n /\ \A x \in Bits(row) : x <= v
  <2>1. i = n
    BY <1>1, <1>2, <1>4, <1>8
  <2>2. \A x \in Bits(row) : ~(x > v)
    BY <1>1, <1>6, <1>8, <2>1
  <2>. QED
    BY <1>7, <2>1, <2>2
<1>. QED
  BY <1>2, <1>4, <1>5, <1>6, <1>8 DEF n, E

\* The value of the k-th run of the result, where it ends, and its 1s.
AndValue(a, b, k) == (a.flag /\ b.flag) = (k % 2 = 1)

End0(ends, k) == IF k = 0 THEN 0 ELSE ends[k]

OnesOf(a, b, ends) ==
  {x \in Nat : \E k \in 1 .. Len(ends) :
     AndValue(a, b, k) /\ End0(ends, k - 1) < x /\ x <= End0(ends, k)}

Both(a, b) == Bits(a) \cap Bits(b)

AndState(a, b) ==
  [i : 1 .. Len(a.runs) + 1, j : 1 .. Len(b.runs) + 1, ends : Seq(Length)]

Going(a, b, st) == st.i <= Len(a.runs) /\ st.j <= Len(b.runs)

\* While the loop goes on the result is right up to where its last run ends.
RightSoFar(a, b, st) ==
  LET m == Len(st.ends)
      v == End0(st.ends, m)
  IN /\ \A k \in 1 .. m : End0(st.ends, k - 1) < End0(st.ends, k)
     /\ OnesOf(a, b, st.ends) = {x \in Both(a, b) : x <= v}
     /\ Covers(a, st.i, v) /\ Covers(b, st.j, v)
     /\ m = 0 => st.i = 1 /\ st.j = 1
     /\ m > 0 /\ AndValue(a, b, m) => ~(Value(a, st.i) /\ Value(b, st.j))

\* When it has ended it is right, but for where its last run of 0s ends.
Right(a, b, ends) ==
  LET m == Len(ends)
  IN /\ m >= 1
     /\ \A k \in 1 .. m : k < m \/ AndValue(a, b, k) => End0(ends, k - 1) < End0(ends, k)
     /\ OnesOf(a, b, ends) = Both(a, b)

AndInv(a, b, st) ==
  /\ st \in AndState(a, b)
  /\ IF Going(a, b, st) THEN RightSoFar(a, b, st) ELSE Right(a, b, st.ends)

LEMMA AndValues ==
  ASSUME NEW a \in Row, NEW b \in Row
  PROVE  /\ AndValue(a, b, 1) <=> a.flag /\ b.flag
         /\ \A k \in Nat : AndValue(a, b, k + 1) <=> ~AndValue(a, b, k)
         /\ \A k \in Nat : (a.flag /\ b.flag) # (k % 2 = 1) <=> ~AndValue(a, b, k)
<1>1. \A i \in Nat : (i + 1) % 2 = 1 <=> ~(i % 2 = 1)
  OBVIOUS
<1>2. 1 % 2 = 1
  OBVIOUS
<1>. QED
  BY <1>1, <1>2 DEF AndValue

\* A run of 1s.
LEMMA AppendOnes ==
  ASSUME NEW a, NEW b, NEW e \in Seq(Length), NEW w \in Length,
         AndValue(a, b, Len(e) + 1), End0(e, Len(e)) < w
  PROVE  /\ Append(e, w) \in Seq(Length) /\ Len(Append(e, w)) = Len(e) + 1
         /\ \A k \in 0 .. Len(e) : End0(Append(e, w), k) = End0(e, k)
         /\ End0(Append(e, w), Len(e) + 1) = w
         /\ OnesOf(a, b, Append(e, w)) = OnesOf(a, b, e) \cup (End0(e, Len(e)) + 1 .. w)
<1>. DEFINE m == Len(e)
            f == Append(e, w)
<1>1. m \in Nat /\ \A k \in 1 .. m : e[k] \in Length
  OBVIOUS
<1>2. f \in Seq(Length) /\ Len(f) = m + 1 /\ (\A k \in 1 .. m : f[k] = e[k]) /\ f[m + 1] = w
  OBVIOUS
<1>3. w \in Nat /\ \A k \in 0 .. m : End0(e, k) \in Nat
  BY <1>1, WordAssumption DEF End0, Length
<1>4. \A k \in 0 .. m : End0(f, k) = End0(e, k)
  BY <1>2 DEF End0
<1>5. End0(f, m + 1) = w
  BY <1>1, <1>2 DEF End0
<1>. HIDE DEF f, m
<1>6. OnesOf(a, b, f) = OnesOf(a, b, e) \cup (End0(e, m) + 1 .. w)
  <2>1. \A x \in Nat : x \in OnesOf(a, b, f) <=> x \in OnesOf(a, b, e) \/ x \in End0(e, m) + 1 .. w
    <3>1. TAKE x \in Nat
    <3>2. x \in OnesOf(a, b, f) <=> \E k \in 1 .. m + 1 : AndValue(a, b, k) /\ End0(f, k - 1) < x /\ x <= End0(f, k)
      BY <1>2 DEF OnesOf
    <3>3. x \in OnesOf(a, b, e) <=> \E k \in 1 .. m : AndValue(a, b, k) /\ End0(e, k - 1) < x /\ x <= End0(e, k)
      BY DEF OnesOf, m
    <3>4. \A k : k \in 1 .. m + 1 <=> k \in 1 .. m \/ k = m + 1
      BY <1>1
    <3>5. \A k \in 1 .. m : End0(f, k - 1) = End0(e, k - 1) /\ End0(f, k) = End0(e, k)
      BY <1>1, <1>4
    <3>6. m + 1 - 1 = m /\ End0(f, m) = End0(e, m) /\ End0(e, m) \in Nat
      BY <1>1, <1>3, <1>4
    <3>. DEFINE P(k) == AndValue(a, b, k) /\ End0(f, k - 1) < x /\ x <= End0(f, k)
                Q(k) == AndValue(a, b, k) /\ End0(e, k - 1) < x /\ x <= End0(e, k)
    <3>8. \A k \in 1 .. m : P(k) <=> Q(k)
      BY <3>5
    <3>9. x \in OnesOf(a, b, f) <=> \E k \in 1 .. m + 1 : P(k)
      BY <3>2
    <3>10. x \in OnesOf(a, b, e) <=> \E k \in 1 .. m : Q(k)
      BY <3>3
    <3>11. x \in End0(e, m) + 1 .. w <=> P(m + 1)
      <4>1. AndValue(a, b, m + 1)
        BY DEF m
      <4>2. P(m + 1) <=> End0(e, m) < x /\ x <= w
        BY <1>1, <1>5, <3>6, <4>1
      <4>. HIDE DEF P
      <4>. QED
        BY <1>3, <3>6, <4>2
    <3>. HIDE DEF P, Q
    <3>12. (\E k \in 1 .. m + 1 : P(k)) <=> (\E k \in 1 .. m : P(k)) \/ P(m + 1)
      BY <3>4
    <3>13. (\E k \in 1 .. m : P(k)) <=> (\E k \in 1 .. m : Q(k))
      BY <3>8
    <3>. QED
      BY <3>9, <3>10, <3>11, <3>12, <3>13
  <2>2. OnesOf(a, b, f) \subseteq Nat /\ OnesOf(a, b, e) \subseteq Nat
    BY DEF OnesOf
  <2>3. End0(e, m) + 1 .. w \subseteq Nat
    BY <1>1, <1>3
  <2>. QED
    BY <2>1, <2>2, <2>3
<1>. QED
  BY <1>2, <1>4, <1>5, <1>6 DEF f, m

\* The result goes on with 0s up to w: after m runs there is one of them.
ZerosTo(a, b, e, w, f, m) ==
  \/ /\ f = Front(e) \o <<w>> /\ m = Len(e) - 1
     /\ Len(e) >= 1 /\ ~AndValue(a, b, Len(e))
  \/ /\ f = Append(e, w) /\ m = Len(e)
     /\ ~AndValue(a, b, Len(e) + 1)

\* A run of 0s, or the last one prolonged.
LEMMA AppendZeros ==
  ASSUME NEW a, NEW b, NEW e \in Seq(Length), NEW w \in Length,
         NEW f, NEW m, ZerosTo(a, b, e, w, f, m)
  PROVE  /\ f \in Seq(Length) /\ Len(f) = m + 1
         /\ \A k \in 0 .. m : End0(f, k) = End0(e, k)
         /\ End0(f, m + 1) = w
         /\ ~AndValue(a, b, m + 1)
         /\ OnesOf(a, b, f) = OnesOf(a, b, e)
<1>. DEFINE n == Len(e)
<1>. USE DEF ZerosTo
<1>1. n \in Nat /\ (\A k \in 1 .. n : e[k] \in Length) /\ m \in Nat /\ m <= n
  OBVIOUS
<1>2. f \in Seq(Length) /\ Len(f) = m + 1 /\ (\A k \in 1 .. m : f[k] = e[k]) /\ f[m + 1] = w
  <2>1. CASE m = n
    <3>1. f = Append(e, w)
      BY <1>1, <2>1
    <3>. QED
      BY <1>1, <2>1, <3>1
  <2>2. CASE m = n - 1
    <3>. DEFINE g == Front(e)
                one == <<w>>
    <3>1. g \in Seq(Length) /\ Len(g) = n - 1 /\ \A k \in 1 .. n - 1 : g[k] = e[k]
      BY <2>2, FrontIs
    <3>2. one \in Seq(Length) /\ Len(one) = 1 /\ one[1] = w
      OBVIOUS
    <3>. HIDE DEF g, one
    <3>3. /\ g \o one \in Seq(Length) /\ Len(g \o one) = Len(g) + Len(one)
          /\ \A i \in 1 .. Len(g) + Len(one) : (g \o one)[i] = IF i <= Len(g) THEN g[i] ELSE one[i - Len(g)]
      <4>. HIDE DEF Length
      <4>1. g \in Seq(Length) /\ one \in Seq(Length)
        BY <3>1, <3>2
      <4>. QED
        BY <4>1, ConcatProperties
    <3>4. Len(g) + Len(one) = n /\ m + 1 = n /\ n >= 1
      BY <1>1, <2>2, <3>1, <3>2
    <3>5. (g \o one)[n] = w
      <4>1. n \in 1 .. Len(g) + Len(one) /\ ~(n <= Len(g)) /\ n - Len(g) = 1
        BY <1>1, <3>1, <3>4
      <4>. QED
        BY <3>2, <3>3, <4>1
    <3>6. \A k \in 1 .. m : (g \o one)[k] = e[k]
      BY <1>1, <3>1, <3>3, <3>4
    <3>7. f = g \o one
      BY <2>2 DEF g, one
    <3>. QED
      BY <3>3, <3>4, <3>5, <3>6, <3>7
  <2>. QED
    BY <2>1, <2>2
<1>3. \A k \in 0 .. m : End0(f, k) = End0(e, k)
  BY <1>2 DEF End0
<1>4. End0(f, m + 1) = w
  BY <1>1, <1>2 DEF End0
<1>5. ~AndValue(a, b, m + 1)
  <2>1. m = n - 1 => m + 1 = n
    BY <1>1
  <2>. QED
    BY <2>1
<1>6. \A k \in 1 .. n : k > m => ~AndValue(a, b, k)
  <2>1. TAKE k \in 1 .. n
  <2>2. k > m => m = n - 1 /\ k = n
    OBVIOUS
  <2>. QED
    BY <2>2
<1>. HIDE DEF n
<1>7. OnesOf(a, b, f) = OnesOf(a, b, e)
  <2>1. \A x \in Nat : x \in OnesOf(a, b, f) <=> x \in OnesOf(a, b, e)
    <3>1. TAKE x \in Nat
    <3>2. x \in OnesOf(a, b, f) <=> \E k \in 1 .. m + 1 : AndValue(a, b, k) /\ End0(f, k - 1) < x /\ x <= End0(f, k)
      BY <1>2 DEF OnesOf
    <3>3. x \in OnesOf(a, b, e) <=> \E k \in 1 .. n : AndValue(a, b, k) /\ End0(e, k - 1) < x /\ x <= End0(e, k)
      BY DEF OnesOf, n
    <3>4. \A k : k \in 1 .. m + 1 <=> k \in 1 .. m \/ k = m + 1
      BY <1>1
    <3>5. \A k \in 1 .. m : End0(f, k - 1) = End0(e, k - 1) /\ End0(f, k) = End0(e, k)
      BY <1>1, <1>3
    <3>6. \A k \in 1 .. n : k \in 1 .. m \/ k > m
      BY <1>1
    <3>7. \A k \in 1 .. m : k \in 1 .. n
      BY <1>1
    <3>. QED
      BY <1>5, <1>6, <3>2, <3>3, <3>4, <3>5, <3>6, <3>7
  <2>2. OnesOf(a, b, f) \subseteq Nat /\ OnesOf(a, b, e) \subseteq Nat
    BY DEF OnesOf
  <2>. QED
    BY <2>1, <2>2
<1>. QED
  BY <1>2, <1>3, <1>4, <1>5, <1>7

LEMMA RisingEnds ==
  ASSUME NEW e, NEW m \in Nat, \A k \in 0 .. m : End0(e, k) \in Nat,
         \A k \in 1 .. m : End0(e, k - 1) < End0(e, k)
  PROVE  \A l \in 0 .. m : \A k \in 0 .. l : End0(e, k) <= End0(e, l)
<1>. DEFINE T == {l \in 0 .. m : \A k \in 0 .. l : End0(e, k) <= End0(e, l)}
<1>1. 0 \in T
  OBVIOUS
<1>2. ASSUME NEW l \in 1 .. m, l - 1 \in T PROVE l \in T
  <2>1. End0(e, l - 1) \in Nat /\ End0(e, l) \in Nat /\ End0(e, l - 1) < End0(e, l)
    BY <1>2
  <2>2. ASSUME NEW k \in 0 .. l PROVE End0(e, k) <= End0(e, l)
    <3>1. CASE k = l
      BY <2>1, <3>1
    <3>2. CASE k # l
      <4>1. k \in 0 .. l - 1 /\ End0(e, k) \in Nat
        BY <3>2
      <4>. QED
        BY <1>2, <2>1, <4>1
    <3>. QED
      BY <3>1, <3>2
  <2>. QED
    BY <2>2
<1>. HIDE DEF T
<1>3. \A l \in 0 .. m : l \in T
  BY <1>1, <1>2, InductOn
<1>. QED
  BY <1>3 DEF T

\* Past the last run there is no bit.
LEMMA LastBit ==
  ASSUME NEW row, Loose(row), NEW v \in Nat, Covers(row, Len(row.runs) + 1, v)
  PROVE  \A t \in Bits(row) : t <= v
<1>1. \A k \in 1 .. Len(row.runs) : Value(row, k) => EndOf(row.runs, k) <= v
  BY DEF Covers
<1>2. \A k \in 1 .. Len(row.runs) : EndOf(row.runs, k) \in Nat
  <2>1. \A k \in 1 .. Len(row.runs) : k \in 0 .. Len(row.runs)
    BY LooseEnds
  <2>. QED
    BY <2>1, LooseEnds
<1>3. \A t \in Bits(row) : t \in Int /\ \E k \in 1 .. Len(row.runs) : Value(row, k) /\ t <= EndOf(row.runs, k)
  BY BitsAre
<1>. QED
  BY <1>1, <1>2, <1>3

\* A round of the loop keeps the result right, and goes on in one of the rows.
LEMMA AndStepKeeps ==
  ASSUME NEW a, Loose(a), NEW b, Loose(b), NEW st, AndInv(a, b, st), Going(a, b, st)
  PROVE  LET next == AndStep(a, Cumulative(a.runs), b, Cumulative(b.runs), st)
         IN AndInv(a, b, next) /\ next.i + next.j >= st.i + st.j + 1
<1>. DEFINE na == Len(a.runs)
            nb == Len(b.runs)
            i == st.i
            j == st.j
            e == st.ends
            m == Len(e)
            v == End0(e, m)
            p == Value(a, i)
            q == Value(b, j)
            x == EndOf(a.runs, i)
            y == EndOf(b.runs, j)
            w == CASE ~p /\ ~q -> IF x >= y THEN x ELSE y
                   [] p /\ q   -> IF x <= y THEN x ELSE y
                   [] ~p /\ q  -> x
                   [] p /\ ~q  -> y
            zeros == e # << >> /\ (a.flag /\ b.flag) # (m % 2 = 1)
            i1 == Past(Cumulative(a.runs), i, w)
            j1 == Past(Cumulative(b.runs), j, w)
            f == IF ~(p /\ q) /\ zeros THEN Front(e) \o <<w>> ELSE Append(e, w)
            next == AndStep(a, Cumulative(a.runs), b, Cumulative(b.runs), st)
<1>1. /\ a \in Row /\ na \in Nat /\ na >= 1
      /\ b \in Row /\ nb \in Nat /\ nb >= 1
  BY LooseEnds
<1>2. /\ i \in 1 .. na /\ j \in 1 .. nb /\ e \in Seq(Length) /\ m \in Nat
      /\ \A k \in 1 .. m : End0(e, k - 1) < End0(e, k)
      /\ OnesOf(a, b, e) = {t \in Both(a, b) : t <= v}
      /\ Covers(a, i, v) /\ Covers(b, j, v)
      /\ m = 0 => i = 1 /\ j = 1
      /\ m > 0 /\ AndValue(a, b, m) => ~(p /\ q)
  BY <1>1 DEF AndInv, Going, RightSoFar, AndState
<1>3. p \in BOOLEAN /\ q \in BOOLEAN /\ zeros \in BOOLEAN
  BY <1>1, Values
<1>4. /\ \A k \in 0 .. m : End0(e, k) \in Nat
      /\ v \in Nat
  <2>1. \A k \in 1 .. m : e[k] \in Length
    BY <1>2
  <2>2. \A k \in 0 .. m : End0(e, k) \in Nat
    BY <2>1, WordAssumption DEF End0, Length
  <2>. QED
    BY <1>2, <2>2
<1>5. next = [i |-> i1, j |-> j1, ends |-> f]
  <2>1. Cumulative(a.runs)[i] = x /\ Cumulative(b.runs)[j] = y
    BY <1>1, <1>2, EndsSeq
  <2>. QED
    BY <2>1 DEF AndStep
<1>. HIDE DEF next
<1>6. /\ x \in Nat /\ x \in Length
      /\ p => v < x /\ \A t \in v + 1 .. x : t \in Bits(a)
      /\ ~p => /\ \A t \in Bits(a) : t > v => t > x
               /\ v < x \/ (i = na /\ \A t \in Bits(a) : t <= v)
  <2>1. i \in 1 .. Len(a.runs) /\ v \in Nat /\ Covers(a, i, v)
    BY <1>2, <1>4
  <2>. HIDE DEF i, v
  <2>. QED
    BY <2>1, CoveredRun
<1>7. /\ y \in Nat /\ y \in Length
      /\ q => v < y /\ \A t \in v + 1 .. y : t \in Bits(b)
      /\ ~q => /\ \A t \in Bits(b) : t > v => t > y
               /\ v < y \/ (j = nb /\ \A t \in Bits(b) : t <= v)
  <2>1. j \in 1 .. Len(b.runs) /\ v \in Nat /\ Covers(b, j, v)
    BY <1>2, <1>4
  <2>. HIDE DEF j, v
  <2>. QED
    BY <2>1, CoveredRun
<1>8. /\ w = x \/ w = y
      /\ p /\ q => w <= x /\ w <= y
      /\ ~(p /\ q) => (~p /\ w = x) \/ (~q /\ w = y)
  <2>. HIDE DEF p, q, x, y
  <2>1. CASE ~p /\ ~q
    <3>1. w = IF x >= y THEN x ELSE y
      BY <2>1, Zenon
    <3>. HIDE DEF w
    <3>. QED
      BY <2>1, <3>1, Zenon
  <2>2. CASE p /\ q
    <3>1. w = IF x <= y THEN x ELSE y
      BY <2>2, Zenon
    <3>. HIDE DEF w
    <3>. QED
      BY <1>6, <1>7, <2>2, <3>1
  <2>3. CASE ~p /\ q
    <3>1. w = x
      BY <2>3, Zenon
    <3>. HIDE DEF w
    <3>. QED
      BY <2>3, <3>1, Zenon
  <2>4. CASE p /\ ~q
    <3>1. w = y
      BY <2>4, Zenon
    <3>. HIDE DEF w
    <3>. QED
      BY <2>4, <3>1, Zenon
  <2>. QED
    BY <1>3, <2>1, <2>2, <2>3, <2>4
<1>9. w \in Nat /\ w \in Length
  BY <1>6, <1>7, <1>8
<1>10. /\ AndValue(a, b, 1) <=> a.flag /\ b.flag
       /\ AndValue(a, b, m + 1) <=> ~AndValue(a, b, m)
       /\ (a.flag /\ b.flag) # (m % 2 = 1) <=> ~AndValue(a, b, m)
  BY <1>1, <1>2, AndValues
<1>11. zeros <=> m >= 1 /\ ~AndValue(a, b, m)
  <2>1. e # << >> <=> m >= 1
    BY <1>2
  <2>. HIDE DEF m
  <2>. QED
    BY <1>10, <2>1, Zenon
<1>12. m = 0 => (AndValue(a, b, m + 1) <=> p /\ q)
  <2>1. Value(a, 1) = a.flag /\ Value(b, 1) = b.flag
    BY <1>1, Values
  <2>2. SUFFICES ASSUME m = 0 PROVE AndValue(a, b, m + 1) <=> p /\ q
    OBVIOUS
  <2>3. i = 1 /\ j = 1 /\ m + 1 = 1
    BY <1>2, <2>2
  <2>4. p = a.flag /\ q = b.flag
    BY <2>1, <2>3
  <2>. HIDE DEF p, q, m
  <2>. QED
    BY <1>10, <2>3, <2>4, Zenon
<1>13. i1 \in i .. na + 1 /\ j1 \in j .. nb + 1
  <2>1. Cumulative(a.runs) \in Seq(Length) /\ Len(Cumulative(a.runs)) = na
        /\ Cumulative(b.runs) \in Seq(Length) /\ Len(Cumulative(b.runs)) = nb
    BY <1>1, EndsSeq
  <2>. HIDE DEF w, na, nb
  <2>. QED
    BY <1>2, <1>9, <2>1, PastType
\* A result that goes on with 0s.
<1>17. ASSUME ~(p /\ q)
       PROVE  \E n \in 0 .. m :
                /\ f \in Seq(Length) /\ Len(f) = n + 1
                /\ \A k \in 0 .. n : End0(f, k) = End0(e, k)
                /\ End0(f, n + 1) = w
                /\ ~AndValue(a, b, n + 1)
                /\ OnesOf(a, b, f) = OnesOf(a, b, e)
  <2>. DEFINE g == IF zeros THEN Front(e) \o <<w>> ELSE Append(e, w)
              n == IF zeros THEN m - 1 ELSE m
  <2>1. f = g
    BY <1>17
  <2>2. zeros => Len(e) >= 1 /\ ~AndValue(a, b, Len(e))
    BY <1>11
  <2>3. ~zeros => ~AndValue(a, b, Len(e) + 1)
    <3>1. m = 0 \/ m >= 1
      BY <1>2
    <3>. HIDE DEF p, q, zeros
    <3>. QED
      BY <1>10, <1>11, <1>12, <1>17, <3>1
  <2>4. n \in 0 .. m
    <3>. HIDE DEF zeros, m
    <3>. QED
      BY <1>2, <1>11
  <2>5. /\ g \in Seq(Length) /\ Len(g) = n + 1
        /\ \A k \in 0 .. n : End0(g, k) = End0(e, k)
        /\ End0(g, n + 1) = w
        /\ ~AndValue(a, b, n + 1)
        /\ OnesOf(a, b, g) = OnesOf(a, b, e)
    <3>1. \/ /\ g = Front(e) \o <<w>> /\ n = Len(e) - 1
             /\ Len(e) >= 1 /\ ~AndValue(a, b, Len(e))
          \/ /\ g = Append(e, w) /\ n = Len(e)
             /\ ~AndValue(a, b, Len(e) + 1)
      <4>. HIDE DEF zeros, w, e
      <4>. QED
        BY <1>3, <2>2, <2>3
    <3>2. e \in Seq(Length) /\ w \in Length
      BY <1>2, <1>9
    <3>3. ZerosTo(a, b, e, w, g, n)
      <4>. HIDE DEF zeros, w, e, g, n
      <4>. QED
        BY <3>1 DEF ZerosTo
    <3>. HIDE DEF zeros, w, e, g, n
    <3>. QED
      BY <3>2, <3>3, AppendZeros, Zenon
  <2>. HIDE DEF f, g, n
  <2>. QED
    BY <2>1, <2>4, <2>5
<1>18. Cumulative(a.runs)[i] = x /\ Cumulative(b.runs)[j] = y
  BY <1>1, <1>2, EndsSeq
<1>19. next.i = i1 /\ next.j = j1 /\ next.ends = f
  BY <1>5
\* The end of a 0-run before v is that of the last.
<1>14. ASSUME ~(p /\ q), ~(v < w)
       PROVE  AndInv(a, b, next) /\ next.i + next.j >= st.i + st.j + 1
  <2>1. \/ w = x /\ i = na /\ \A t \in Bits(a) : t <= v
        \/ w = y /\ j = nb /\ \A t \in Bits(b) : t <= v
    <3>. HIDE DEF p, q, x, y, w, v, i, j, na, nb
    <3>. QED
      BY <1>6, <1>7, <1>8, <1>14
  <2>2. OnesOf(a, b, e) = Both(a, b)
    <3>1. \A t \in Both(a, b) : t <= v
      <4>. HIDE DEF w, v, x, y
      <4>. QED
        BY <2>1 DEF Both
    <3>. HIDE DEF v
    <3>. QED
      BY <1>2, <3>1
  <2>3. PICK n \in 0 .. m :
          /\ f \in Seq(Length) /\ Len(f) = n + 1
          /\ \A k \in 0 .. n : End0(f, k) = End0(e, k)
          /\ End0(f, n + 1) = w
          /\ ~AndValue(a, b, n + 1)
          /\ OnesOf(a, b, f) = OnesOf(a, b, e)
    <3>. HIDE DEF f, p, q, w, e, m
    <3>. QED
      BY <1>14, <1>17
  <2>4. (w = x => i1 = i + 1) /\ (w = y => j1 = j + 1)
    <3>. HIDE DEF w, x, y, i, j
    <3>1. w = x => i1 = i + 1
      BY <1>9, <1>18 DEF Past
    <3>2. w = y => j1 = j + 1
      BY <1>9, <1>18 DEF Past
    <3>. QED
      BY <3>1, <3>2
  <2>. HIDE DEF f, w, x, y, p, q, i1, j1, v, e
  <2>5. Right(a, b, f)
    <3>1. n \in Nat /\ n + 1 >= 1
      BY <1>2
    <3>2. \A k \in 1 .. n + 1 : k < n + 1 \/ AndValue(a, b, k) => End0(f, k - 1) < End0(f, k)
      <4>1. TAKE k \in 1 .. n + 1
      <4>2. CASE k = n + 1
        BY <2>3, <3>1, <4>2
      <4>3. CASE k # n + 1
        <5>1. k \in 1 .. m /\ k \in 0 .. n /\ k - 1 \in 0 .. n
          BY <1>2, <3>1, <4>3
        <5>. QED
          BY <1>2, <2>3, <5>1
      <4>. QED
        BY <4>2, <4>3
    <3>. QED
      BY <2>2, <2>3, <3>1, <3>2 DEF Right
  <2>6. next \in AndState(a, b)
    BY <1>1, <1>2, <1>5, <1>13, <2>3 DEF AndState
  <2>7. ~Going(a, b, next)
    BY <1>1, <1>19, <2>1, <2>4 DEF Going
  <2>8. next.i + next.j >= st.i + st.j + 1
    <3>1. i1 \in Nat /\ j1 \in Nat /\ i1 >= i /\ j1 >= j /\ i \in Nat /\ j \in Nat
      BY <1>1, <1>2, <1>13
    <3>2. i1 = i + 1 \/ j1 = j + 1
      BY <2>1, <2>4
    <3>. QED
      BY <1>19, <3>1, <3>2
  <2>. QED
    BY <1>19, <2>5, <2>6, <2>7, <2>8 DEF AndInv
<1>15. ASSUME v < w
       PROVE  AndInv(a, b, next) /\ next.i + next.j >= st.i + st.j + 1
  <2>1. Covers(a, i1, w) /\ (x <= w => i1 >= i + 1) /\ (x = w => i1 = i + 1)
    <3>1. EndOf(a.runs, i - 1) \in Nat /\ EndOf(a.runs, i - 1) <= v
      <4>1. i - 1 \in 0 .. na
        BY <1>1, <1>2
      <4>. QED
        BY <1>1, <1>2, <4>1, RowEnds DEF Covers
    <3>2. EndOf(a.runs, i - 1) <= w /\ i \in 1 .. Len(a.runs)
      <4>. HIDE DEF w, v
      <4>. QED
        BY <1>2, <1>4, <1>9, <1>15, <3>1
    <3>. HIDE DEF w, i
    <3>. QED
      BY <1>9, <3>2, PastCovers
  <2>2. Covers(b, j1, w) /\ (y <= w => j1 >= j + 1) /\ (y = w => j1 = j + 1)
    <3>1. EndOf(b.runs, j - 1) \in Nat /\ EndOf(b.runs, j - 1) <= v
      <4>1. j - 1 \in 0 .. nb
        BY <1>1, <1>2
      <4>. QED
        BY <1>1, <1>2, <4>1, RowEnds DEF Covers
    <3>2. EndOf(b.runs, j - 1) <= w /\ j \in 1 .. Len(b.runs)
      <4>. HIDE DEF w, v
      <4>. QED
        BY <1>2, <1>4, <1>9, <1>15, <3>1
    <3>. HIDE DEF w, j
    <3>. QED
      BY <1>9, <3>2, PastCovers
  <2>3. \A t \in Both(a, b) : t \in Nat
    <3>1. \A t \in Both(a, b) : t \in Int /\ \E k \in 1 .. na : EndOf(a.runs, k - 1) < t
      BY BitsAre DEF Both
    <3>2. \A k \in 1 .. na : EndOf(a.runs, k - 1) \in Nat
      <4>1. \A k \in 1 .. na : k - 1 \in 0 .. na
        BY <1>1
      <4>. QED
        BY <1>1, <4>1, RowEnds
    <3>. QED
      BY <3>1, <3>2
  <2>4. /\ f \in Seq(Length) /\ Len(f) >= 1
        /\ \A k \in 1 .. Len(f) : End0(f, k - 1) < End0(f, k)
        /\ End0(f, Len(f)) = w
        /\ OnesOf(a, b, f) = {t \in Both(a, b) : t <= w}
        /\ AndValue(a, b, Len(f)) => p /\ q
    <3>1. CASE p /\ q
      <4>1. AndValue(a, b, Len(e) + 1)
        <5>1. m = 0 \/ m > 0
          BY <1>2
        <5>. HIDE DEF p, q
        <5>. QED
          BY <1>2, <1>10, <1>12, <3>1, <5>1
      <4>2. f = Append(e, w)
        BY <3>1
      <4>. HIDE DEF p, q, w, f
      <4>3. /\ f \in Seq(Length) /\ Len(f) = m + 1
            /\ \A k \in 0 .. m : End0(f, k) = End0(e, k)
            /\ End0(f, m + 1) = w
            /\ OnesOf(a, b, f) = OnesOf(a, b, e) \cup (v + 1 .. w)
        <5>. HIDE DEF e
        <5>. QED
          BY <1>2, <1>9, <1>15, <4>1, <4>2, AppendOnes
      <4>4. \A k \in 1 .. m + 1 : End0(f, k - 1) < End0(f, k)
        <5>1. TAKE k \in 1 .. m + 1
        <5>2. CASE k = m + 1
          <6>1. k - 1 = m /\ m \in 0 .. m
            BY <1>2, <5>2
          <6>. QED
            BY <1>15, <4>3, <5>2, <6>1
        <5>3. CASE k # m + 1
          <6>1. k \in 1 .. m /\ k \in 0 .. m /\ k - 1 \in 0 .. m
            BY <1>2, <5>3
          <6>. QED
            BY <1>2, <4>3, <6>1
        <5>. QED
          BY <5>2, <5>3
      <4>5. \A t \in v + 1 .. w : t \in Both(a, b)
        <5>1. w <= x /\ w <= y
          BY <1>8, <3>1
        <5>2. \A t \in v + 1 .. w : t \in v + 1 .. x /\ t \in v + 1 .. y
          <6>. HIDE DEF x, y, v
          <6>. QED
            BY <1>4, <1>6, <1>7, <1>9, <5>1
        <5>3. \A t \in v + 1 .. x : t \in Bits(a)
          BY <1>6, <3>1
        <5>4. \A t \in v + 1 .. y : t \in Bits(b)
          BY <1>7, <3>1
        <5>. QED
          BY <5>2, <5>3, <5>4 DEF Both
      <4>6. OnesOf(a, b, f) = {t \in Both(a, b) : t <= w}
        <5>. HIDE DEF v, e
        <5>1. \A t \in Both(a, b) : t <= w <=> t <= v \/ t \in v + 1 .. w
          BY <1>4, <1>9, <1>15, <2>3
        <5>2. \A t : t \in v + 1 .. w => t \in Both(a, b) /\ t <= w
          BY <1>4, <1>9, <4>5
        <5>. QED
          BY <1>2, <4>3, <5>1, <5>2
      <4>. QED
        BY <1>2, <3>1, <4>3, <4>4, <4>6
    <3>2. CASE ~(p /\ q)
      <4>1. PICK n \in 0 .. m :
              /\ f \in Seq(Length) /\ Len(f) = n + 1
              /\ \A k \in 0 .. n : End0(f, k) = End0(e, k)
              /\ End0(f, n + 1) = w
              /\ ~AndValue(a, b, n + 1)
              /\ OnesOf(a, b, f) = OnesOf(a, b, e)
        <5>. HIDE DEF f, p, q, w, e, m
        <5>. QED
          BY <1>17, <3>2
      <4>. HIDE DEF f, w, p, q, x, y, e
      <4>2. n \in Nat /\ n <= m
        BY <1>2
      <4>3. \A k \in 1 .. n + 1 : End0(f, k - 1) < End0(f, k)
        <5>1. TAKE k \in 1 .. n + 1
        <5>2. CASE k = n + 1
          <6>1. k - 1 = n /\ n \in 0 .. n /\ n \in 0 .. m /\ m \in 0 .. m
            BY <1>2, <4>2, <5>2
          <6>2. End0(e, n) <= End0(e, m)
            <7>1. n = m \/ n < m
              BY <1>2, <4>2
            <7>2. CASE n = m
              BY <1>4, <6>1, <7>2
            <7>3. CASE n < m
              BY <1>2, <1>4, <4>2, <6>1, <7>3, RisingEnds
            <7>. QED
              BY <7>1, <7>2, <7>3
          <6>3. End0(e, n) < w
            BY <1>4, <1>9, <1>15, <6>1, <6>2
          <6>. QED
            BY <4>1, <5>2, <6>1, <6>3
        <5>3. CASE k # n + 1
          <6>1. k \in 1 .. m /\ k \in 0 .. n /\ k - 1 \in 0 .. n
            BY <1>2, <4>2, <5>3
          <6>. QED
            BY <1>2, <4>1, <6>1
        <5>. QED
          BY <5>2, <5>3
      <4>4. \A t \in Both(a, b) : t <= w => t <= v
        <5>1. \A t \in Both(a, b) : t \in Int /\ t \in Bits(a) /\ t \in Bits(b)
          BY <2>3 DEF Both
        <5>. HIDE DEF v
        <5>2. CASE ~p /\ w = x
          BY <1>4, <1>6, <1>9, <5>1, <5>2
        <5>3. CASE ~q /\ w = y
          BY <1>4, <1>7, <1>9, <5>1, <5>3
        <5>. QED
          BY <1>8, <3>2, <5>2, <5>3
      <4>5. \A t \in Both(a, b) : t <= v => t <= w
        <5>. HIDE DEF v
        <5>. QED
          BY <1>4, <1>9, <1>15, <2>3
      <4>6. OnesOf(a, b, f) = {t \in Both(a, b) : t <= w}
        <5>. HIDE DEF v
        <5>. QED
          BY <1>2, <4>1, <4>4, <4>5
      <4>. QED
        BY <4>1, <4>2, <4>3, <4>6
    <3>. HIDE DEF p, q
    <3>. QED
      BY <3>1, <3>2
  <2>5. (x = w => i1 = i + 1) /\ (y = w => j1 = j + 1)
    BY <2>1, <2>2
  <2>6. next \in AndState(a, b)
    <3>. HIDE DEF f, i1, j1
    <3>. QED
      BY <1>1, <1>2, <1>5, <1>13, <2>4 DEF AndState
  <2>7. next.i + next.j >= st.i + st.j + 1
    <3>1. i1 \in Nat /\ j1 \in Nat /\ i1 >= i /\ j1 >= j /\ i \in Nat /\ j \in Nat
      <4>. HIDE DEF i1, j1
      <4>. QED
        BY <1>1, <1>2, <1>13
    <3>2. i1 = i + 1 \/ j1 = j + 1
      BY <1>8, <2>5, Zenon
    <3>. HIDE DEF i1, j1
    <3>. QED
      BY <1>19, <3>1, <3>2
  <2>8. CASE Going(a, b, next)
    <3>1. p /\ q => ~(Value(a, i1) /\ Value(b, j1))
      <4>1. Value(a, i + 1) = ~p /\ Value(b, j + 1) = ~q
        <5>1. \A k \in Nat : Value(a, k + 1) = ~Value(a, k) /\ Value(b, k + 1) = ~Value(b, k)
          BY <1>1, Values
        <5>2. i \in Nat /\ j \in Nat
          BY <1>1, <1>2
        <5>. HIDE DEF i, j
        <5>. QED
          BY <5>1, <5>2
      <4>2. i1 = i + 1 \/ j1 = j + 1
        BY <1>8, <2>5, Zenon
      <4>. HIDE DEF p, q, i1, j1
      <4>. QED
        BY <4>1, <4>2
    <3>. HIDE DEF f, i1, j1, w, p, q, x, y
    <3>2. RightSoFar(a, b, next)
      BY <1>19, <2>1, <2>2, <2>4, <3>1 DEF RightSoFar
    <3>. QED
      BY <2>6, <2>7, <2>8, <3>2 DEF AndInv
  <2>9. CASE ~Going(a, b, next)
    <3>1. \A t \in Both(a, b) : t <= w
      <4>. HIDE DEF i1, j1, w, x, y, p, q, f
      <4>1. i1 = na + 1 \/ j1 = nb + 1
        BY <1>1, <1>2, <1>13, <1>19, <2>9 DEF Going
      <4>2. CASE i1 = na + 1
        BY <1>1, <1>9, <2>1, <4>2, LastBit DEF Both
      <4>3. CASE j1 = nb + 1
        BY <1>1, <1>9, <2>2, <4>3, LastBit DEF Both
      <4>. QED
        BY <4>1, <4>2, <4>3
    <3>. HIDE DEF f, i1, j1, w, p, q, x, y
    <3>2. Right(a, b, f)
      BY <2>4, <3>1 DEF Right
    <3>. QED
      BY <1>19, <2>6, <2>7, <2>9, <3>2 DEF AndInv
  <2>. QED
    BY <2>8, <2>9
<1>16. p /\ q => v < w
  <2>. HIDE DEF p, q, x, y, w, v
  <2>. QED
    BY <1>6, <1>7, <1>8
<1>. HIDE DEF p, q, v, w
<1>. QED
  BY <1>14, <1>15, <1>16, Zenon DEF next

\* From ends to runs and back.
LEMMA FromEnds ==
  ASSUME NEW e \in Seq(Length)
  PROVE  /\ DeCumulative(e) \in Seq(Length) /\ Len(DeCumulative(e)) = Len(e)
         /\ \A k \in 0 .. Len(e) : EndOf(DeCumulative(e), k) = End0(e, k)
         /\ \A k \in 1 .. Len(e) :
              End0(e, k - 1) < End0(e, k) => DeCumulative(e)[k] = End0(e, k) - End0(e, k - 1)
<1>. DEFINE n == Len(e)
            d == DeCumulative(e)
<1>1. n \in Nat /\ (\A k \in 1 .. n : e[k] \in Length) /\ DOMAIN e = 1 .. n
  OBVIOUS
<1>2. \A k \in 0 .. n : End0(e, k) \in Length
  BY <1>1, WordAssumption DEF End0, Length
<1>3. d = [k \in 1 .. n |-> IF k = 1 THEN e[1] ELSE (e[k] - e[k - 1]) % Word]
  BY <1>1 DEF DeCumulative
<1>. HIDE DEF d, n
<1>4. ASSUME NEW k \in 1 .. n
      PROVE  d[k] \in Length /\ d[k] = (End0(e, k) - End0(e, k - 1)) % Word
  <2>1. CASE k = 1
    <3>1. d[1] = e[1] /\ e[1] \in Length /\ End0(e, 1) = e[1] /\ End0(e, 1 - 1) = 0
      BY <1>1, <1>3, <2>1 DEF End0
    <3>2. e[1] \in Int /\ e[1] % Word = e[1]
      BY <3>1, NoWrap
    <3>3. e[1] - 0 = e[1]
      BY <3>2
    <3>. QED
      BY <2>1, <3>1, <3>2, <3>3
  <2>2. CASE k # 1
    <3>1. k - 1 \in 1 .. n /\ k - 1 # 0 /\ k # 0
      BY <1>1, <2>2
    <3>2. d[k] = (e[k] - e[k - 1]) % Word
      BY <1>3, <2>2
    <3>3. e[k] - e[k - 1] \in Int
      BY <1>1, <3>1, WordAssumption DEF Length
    <3>4. d[k] \in Length
      BY <3>2, <3>3, Wraps DEF Length
    <3>. QED
      BY <3>1, <3>2, <3>4 DEF End0
  <2>. QED
    BY <2>1, <2>2
<1>5. d \in Seq(Length) /\ Len(d) = n
  <2>1. d \in [1 .. n -> Length]
    BY <1>3, <1>4
  <2>. QED
    BY <1>1, <2>1
<1>. DEFINE T == {k \in 0 .. n : EndOf(d, k) = End0(e, k)}
<1>6. 0 \in T
  BY <1>1 DEF EndOf, End0
<1>7. ASSUME NEW k \in 1 .. n, k - 1 \in T PROVE k \in T
  <2>. DEFINE x == End0(e, k - 1)
              y == End0(e, k)
  <2>1. x \in Length /\ y \in Length
    <3>1. k - 1 \in 0 .. n /\ k \in 0 .. n
      BY <1>1
    <3>. QED
      BY <1>2, <3>1
  <2>2. EndOf(d, k) = (EndOf(d, k - 1) + d[k]) % Word
    BY <1>5, CumulativeIs
  <2>3. EndOf(d, k) = (x + ((y - x) % Word)) % Word
    BY <1>4, <1>7, <2>2
  <2>. HIDE DEF x, y
  <2>4. x \in Int /\ y \in Int /\ 0 <= x /\ x < Word /\ 0 <= y /\ y < Word
    BY <2>1, WordAssumption DEF Length
  <2>5. (x + ((y - x) % Word)) % Word = y
    <3>1. CASE x <= y
      <4>1. y - x \in Length /\ x + (y - x) = y
        BY <2>4, <3>1, WordAssumption DEF Length
      <4>2. (y - x) % Word = y - x /\ y % Word = y
        BY <2>1, <4>1, NoWrap
      <4>. QED
        BY <4>1, <4>2
    <3>2. CASE y < x
      <4>1. (y - x) % Word = (y - x) + Word
        <5>1. y - x \in Int /\ 0 - Word <= y - x /\ y - x < 0
          BY <2>4, <3>2, WordAssumption
        <5>. QED
          BY <5>1, Wraps
      <4>2. x + ((y - x) + Word) = y + Word
        BY <2>4, WordAssumption
      <4>3. (y + Word) % Word = y
        BY <2>4, WordAssumption
      <4>. QED
        BY <4>1, <4>2, <4>3
    <3>. QED
      BY <2>4, <3>1, <3>2
  <2>6. k \in 0 .. n
    BY <1>1
  <2>. QED
    BY <2>3, <2>5, <2>6 DEF y
<1>8. \A k \in 0 .. n : EndOf(d, k) = End0(e, k)
  <2>. HIDE DEF T
  <2>1. \A k \in 0 .. n : k \in T
    BY <1>1, <1>6, <1>7, InductOn
  <2>. QED
    BY <2>1 DEF T
<1>9. ASSUME NEW k \in 1 .. n, End0(e, k - 1) < End0(e, k)
      PROVE  d[k] = End0(e, k) - End0(e, k - 1)
  <2>1. End0(e, k - 1) \in Length /\ End0(e, k) \in Length
    <3>1. k - 1 \in 0 .. n /\ k \in 0 .. n
      BY <1>1
    <3>. QED
      BY <1>2, <3>1
  <2>2. End0(e, k) - End0(e, k - 1) \in Length
    BY <1>9, <2>1, WordAssumption DEF Length
  <2>. QED
    BY <1>4, <2>2, NoWrap
<1>. QED
  BY <1>5, <1>8, <1>9 DEF d, n

\* The states of the loop.
LEMMA AndRoundsAre ==
  ASSUME NEW a, Loose(a), NEW b, Loose(b)
  PROVE  LET n  == Len(a.runs) + Len(b.runs)
             st == AndRounds(a, b)
         IN /\ st[0] = [i |-> 1, j |-> 1, ends |-> << >>]
            /\ \A k \in 1 .. n :
                 st[k] = AndRound(a, Cumulative(a.runs), b, Cumulative(b.runs), st[k - 1])
<1>. DEFINE n == Len(a.runs) + Len(b.runs)
            aEnds == Cumulative(a.runs)
            bEnds == Cumulative(b.runs)
            first == [i |-> 1, j |-> 1, ends |-> << >>]
            S == AndState(a, b)
            step == [p \in (1 .. n) \X S |-> AndRound(a, aEnds, b, bEnds, p[2])]
            Body(f) == [k \in 0 .. n |-> IF k = 0 THEN first ELSE AndRound(a, aEnds, b, bEnds, f[k - 1])]
<1>1. /\ a \in Row /\ Len(a.runs) \in Nat /\ Len(a.runs) >= 1
      /\ b \in Row /\ Len(b.runs) \in Nat /\ Len(b.runs) >= 1
      /\ n \in Nat
  <2>1. /\ a \in Row /\ Len(a.runs) \in Nat /\ Len(a.runs) >= 1
        /\ b \in Row /\ Len(b.runs) \in Nat /\ Len(b.runs) >= 1
    BY LooseEnds
  <2>2. \A x, y \in Nat : x + y \in Nat
    OBVIOUS
  <2>. QED
    BY <2>1, <2>2, Zenon
<1>2. /\ aEnds \in Seq(Length) /\ Len(aEnds) = Len(a.runs)
      /\ bEnds \in Seq(Length) /\ Len(bEnds) = Len(b.runs)
  BY <1>1, EndsSeq
<1>3. first \in S
  BY <1>1 DEF AndState
<1>. HIDE DEF n, aEnds, bEnds, first
<1>4. ASSUME NEW st \in S PROVE AndRound(a, aEnds, b, bEnds, st) \in S
  <2>1. CASE st.i > Len(aEnds) \/ st.j > Len(bEnds)
    BY <2>1 DEF AndRound
  <2>2. CASE ~(st.i > Len(aEnds) \/ st.j > Len(bEnds))
    <3>. DEFINE x == aEnds[st.i]
                y == bEnds[st.j]
                p == Value(a, st.i)
                q == Value(b, st.j)
                v == CASE ~p /\ ~q -> IF x >= y THEN x ELSE y
                       [] p /\ q   -> IF x <= y THEN x ELSE y
                       [] ~p /\ q  -> x
                       [] p /\ ~q  -> y
                zeros == st.ends # << >> /\ (a.flag /\ b.flag) # (Len(st.ends) % 2 = 1)
                e == IF ~(p /\ q) /\ zeros THEN Front(st.ends) \o <<v>> ELSE Append(st.ends, v)
    <3>1. st.i \in 1 .. Len(aEnds) /\ st.j \in 1 .. Len(bEnds) /\ st.ends \in Seq(Length)
      BY <1>1, <1>2, <2>2 DEF AndState
    <3>2. x \in Length /\ y \in Length
      BY <1>2, <3>1
    <3>3. p \in BOOLEAN /\ q \in BOOLEAN
      BY <1>1, Values
    <3>4. v = x \/ v = y
      <4>. HIDE DEF p, q, x, y
      <4>. QED
        BY <3>3
    <3>. HIDE DEF v, x, y
    <3>5. v \in Length /\ v \in Nat
      BY <3>2, <3>4, WordAssumption DEF Length
    <3>6. st.ends # << >> => Front(st.ends) \o <<v>> \in Seq(Length)
      <4>. SUFFICES ASSUME st.ends # << >> PROVE Front(st.ends) \o <<v>> \in Seq(Length)
        OBVIOUS
      <4>1. Len(st.ends) >= 1
        BY <3>1
      <4>2. Front(st.ends) \in Seq(Length)
        BY <3>1, <4>1, FrontIs
      <4>3. <<v>> \in Seq(Length)
        BY <3>5
      <4>. QED
        BY <4>2, <4>3, ConcatProperties
    <3>7. e \in Seq(Length)
      <4>1. Append(st.ends, v) \in Seq(Length)
        BY <3>1, <3>5
      <4>. QED
        BY <3>6, <4>1
    <3>8. Past(aEnds, st.i, v) \in 1 .. Len(a.runs) + 1 /\ Past(bEnds, st.j, v) \in 1 .. Len(b.runs) + 1
      <4>1. Past(aEnds, st.i, v) \in st.i .. Len(aEnds) + 1
        BY <1>2, <3>1, <3>5, PastType
      <4>2. Past(bEnds, st.j, v) \in st.j .. Len(bEnds) + 1
        BY <1>2, <3>1, <3>5, PastType
      <4>. QED
        BY <1>1, <1>2, <3>1, <4>1, <4>2
    <3>9. AndRound(a, aEnds, b, bEnds, st) = [i |-> Past(aEnds, st.i, v), j |-> Past(bEnds, st.j, v), ends |-> e]
      BY <2>2 DEF AndRound, AndStep, v, x, y
    <3>. HIDE DEF e
    <3>. QED
      BY <3>7, <3>8, <3>9 DEF AndState
  <2>. QED
    BY <2>1, <2>2
<1>5. step \in [(1 .. n) \X S -> S]
  <2>1. ASSUME NEW p \in (1 .. n) \X S PROVE AndRound(a, aEnds, b, bEnds, p[2]) \in S
    <3>. HIDE DEF S
    <3>1. p[2] \in S
      OBVIOUS
    <3>. QED
      BY <1>4, <3>1
  <2>. HIDE DEF S
  <2>. QED
    BY <2>1
<1>6. \A k \in 1 .. n : \A st \in S : step[<<k, st>>] = AndRound(a, aEnds, b, bEnds, st)
  <2>. HIDE DEF S
  <2>. QED
    OBVIOUS
<1>. HIDE DEF step, S
<1>7. PICK g : IsSteps(g, n, S, first, step)
  <2>1. IsStep(n, S, step)
    BY <1>5 DEF IsStep
  <2>. QED
    BY <1>1, <1>3, <2>1, Recursion, Zenon
<1>8. g \in [0 .. n -> S] /\ g[0] = first /\ \A k \in 1 .. n : g[k] = step[<<k, g[k - 1]>>]
  BY <1>7 DEF IsSteps
<1>9. \A k \in 1 .. n : g[k] = AndRound(a, aEnds, b, bEnds, g[k - 1])
  <2>1. \A k \in 1 .. n : k - 1 \in 0 .. n
    BY <1>1
  <2>. QED
    BY <1>6, <1>8, <2>1
<1>10. g = Body(g)
  BY <1>8, <1>9
<1>11. AndRounds(a, b) = CHOOSE f : f = Body(f)
  BY DEF AndRounds, n, aEnds, bEnds, first
<1>12. AndRounds(a, b) = Body(AndRounds(a, b))
  BY <1>10, <1>11
<1>13. \A k \in 0 .. n : Body(AndRounds(a, b))[k] =
         IF k = 0 THEN first ELSE AndRound(a, aEnds, b, bEnds, AndRounds(a, b)[k - 1])
  OBVIOUS
<1>. HIDE DEF Body
<1>14. \A k \in 0 .. n : AndRounds(a, b)[k] =
         IF k = 0 THEN first ELSE AndRound(a, aEnds, b, bEnds, AndRounds(a, b)[k - 1])
  BY <1>12, <1>13
<1>15. AndRounds(a, b)[0] = first
  BY <1>1, <1>14
<1>16. ASSUME NEW k \in 1 .. n
       PROVE  AndRounds(a, b)[k] = AndRound(a, aEnds, b, bEnds, AndRounds(a, b)[k - 1])
  BY <1>1, <1>14
<1>. QED
  BY <1>15, <1>16 DEF n, aEnds, bEnds, first

\* The loop keeps its result right, and ends within as many rounds as the rows have runs.
LEMMA AndLoop ==
  ASSUME NEW a, Loose(a), NEW b, Loose(b)
  PROVE  LET st == AndRounds(a, b)[Len(a.runs) + Len(b.runs)]
         IN st \in AndState(a, b) /\ Right(a, b, st.ends)
<1>. DEFINE na == Len(a.runs)
            nb == Len(b.runs)
            n == na + nb
            st == AndRounds(a, b)
            aEnds == Cumulative(a.runs)
            bEnds == Cumulative(b.runs)
            Good(k) == /\ AndInv(a, b, st[k])
                       /\ Going(a, b, st[k]) => st[k].i + st[k].j >= k + 2
            T == {k \in 0 .. n : Good(k)}
<1>1. /\ a \in Row /\ na \in Nat /\ na >= 1
      /\ b \in Row /\ nb \in Nat /\ nb >= 1
  BY LooseEnds
<1>2. Len(aEnds) = na /\ Len(bEnds) = nb
  BY <1>1, EndsSeq
<1>3. /\ st[0] = [i |-> 1, j |-> 1, ends |-> << >>]
      /\ \A k \in 1 .. n : st[k] = AndRound(a, aEnds, b, bEnds, st[k - 1])
  BY AndRoundsAre
<1>. HIDE DEF st, aEnds, bEnds
<1>4. Good(0)
  <2>. DEFINE s == [i |-> 1, j |-> 1, ends |-> << >>]
  <2>1. s \in AndState(a, b)
    BY <1>1 DEF AndState
  <2>2. Going(a, b, s)
    BY <1>1 DEF Going
  <2>3. Len(s.ends) = 0 /\ End0(s.ends, 0) = 0
    BY DEF End0
  <2>4. OnesOf(a, b, s.ends) = {}
    BY <2>3 DEF OnesOf
  <2>5. \A row : Loose(row) => /\ \A t \in Bits(row) : ~(t <= 0)
                               /\ Covers(row, 1, 0)
    <3>1. SUFFICES ASSUME NEW row, Loose(row)
                   PROVE  (\A t \in Bits(row) : ~(t <= 0)) /\ Covers(row, 1, 0)
      OBVIOUS
    <3>2. /\ Len(row.runs) \in Nat /\ Len(row.runs) >= 1
          /\ EndOf(row.runs, 0) = 0
          /\ \A k \in 1 .. Len(row.runs) : k < Len(row.runs) \/ Value(row, k) => EndOf(row.runs, k - 1) < EndOf(row.runs, k)
          /\ \A k \in 0 .. Len(row.runs) : EndOf(row.runs, k) \in Nat
      BY <3>1, LooseEnds
    <3>3. \A t \in Bits(row) : ~(t <= 0)
      <4>1. \A t \in Bits(row) : t \in Int /\ \E k \in 1 .. Len(row.runs) : EndOf(row.runs, k - 1) < t
        BY <3>1, BitsAre
      <4>2. \A k \in 1 .. Len(row.runs) : k - 1 \in 0 .. Len(row.runs)
        BY <3>2
      <4>. QED
        BY <3>2, <4>1, <4>2
    <3>4. Covers(row, 1, 0)
      <4>1. 1 \in 1 .. Len(row.runs) /\ 1 - 1 = 0 /\ 1 # Len(row.runs) + 1
        BY <3>2
      <4>2. 1 < Len(row.runs) \/ Value(row, 1) => EndOf(row.runs, 0) < EndOf(row.runs, 1)
        BY <3>2, <4>1
      <4>. QED
        BY <3>2, <4>1, <4>2 DEF Covers
    <3>. QED
      BY <3>3, <3>4
  <2>6. {x \in Both(a, b) : x <= 0} = {}
    BY <2>5 DEF Both
  <2>7. Covers(a, 1, 0) /\ Covers(b, 1, 0)
    BY <2>5
  <2>8. RightSoFar(a, b, s)
    BY <2>3, <2>4, <2>6, <2>7 DEF RightSoFar
  <2>9. AndInv(a, b, s) /\ s.i + s.j >= 0 + 2
    BY <2>1, <2>2, <2>8 DEF AndInv
  <2>. QED
    BY <1>3, <2>9
<1>5. ASSUME NEW k \in 1 .. n, Good(k - 1) PROVE Good(k)
  <2>. DEFINE s == st[k - 1]
  <2>1. st[k] = AndRound(a, aEnds, b, bEnds, s)
    BY <1>3
  <2>2. AndInv(a, b, s) /\ (Going(a, b, s) => s.i + s.j >= k - 1 + 2)
    BY <1>5
  <2>. HIDE DEF s
  <2>3. s.i \in Nat /\ s.j \in Nat
    BY <1>1, <2>2 DEF AndInv, AndState
  <2>4. CASE Going(a, b, s)
    <3>1. st[k] = AndStep(a, aEnds, b, bEnds, s)
      BY <1>1, <1>2, <2>1, <2>3, <2>4 DEF AndRound, Going
    <3>2. AndInv(a, b, st[k]) /\ st[k].i + st[k].j >= s.i + s.j + 1
      BY <2>2, <2>4, <3>1, AndStepKeeps DEF aEnds, bEnds
    <3>3. st[k].i \in Nat /\ st[k].j \in Nat
      BY <1>1, <3>2 DEF AndInv, AndState
    <3>4. st[k].i + st[k].j >= k + 2
      BY <1>1, <2>2, <2>3, <2>4, <3>2, <3>3
    <3>. QED
      BY <3>2, <3>4
  <2>5. CASE ~Going(a, b, s)
    <3>1. st[k] = s
      BY <1>1, <1>2, <2>1, <2>3, <2>5 DEF AndRound, Going
    <3>. QED
      BY <2>2, <2>5, <3>1
  <2>. QED
    BY <2>4, <2>5
<1>6. n \in Nat /\ n \in 0 .. n /\ 0 \in 0 .. n /\ \A k \in 1 .. n : k \in 0 .. n /\ k - 1 \in 0 .. n
  <2>1. n \in Nat
    <3>. HIDE DEF na, nb
    <3>. QED
      BY <1>1
  <2>. HIDE DEF n
  <2>. QED
    BY <2>1
<1>. HIDE DEF Good
<1>7. 0 \in T /\ \A k \in 1 .. n : k - 1 \in T => k \in T
  <2>. HIDE DEF n
  <2>. QED
    BY <1>4, <1>5, <1>6
<1>8. n \in T
  <2>. HIDE DEF T
  <2>1. \A k \in 0 .. n : k \in T
    BY <1>6, <1>7, InductOn
  <2>. QED
    BY <1>6, <2>1
<1>9. AndInv(a, b, st[n]) /\ (Going(a, b, st[n]) => st[n].i + st[n].j >= n + 2)
  BY <1>8 DEF Good
<1>. DEFINE s == st[n]
<1>10. s.i \in Nat /\ s.j \in Nat
  <2>. HIDE DEF s, n
  <2>1. s \in AndState(a, b)
    BY <1>9 DEF AndInv, s
  <2>. QED
    BY <1>1, <2>1 DEF AndState
<1>11. ~Going(a, b, s)
  <2>1. Going(a, b, s) => s.i + s.j >= n + 2
    BY <1>9
  <2>. HIDE DEF s, n
  <2>2. SUFFICES ASSUME s.i <= na, s.j <= nb PROVE FALSE
    BY DEF Going
  <2>3. s.i + s.j >= na + nb + 2
    BY <2>1, <2>2 DEF Going, n
  <2>. HIDE DEF na, nb
  <2>. QED
    BY <1>1, <1>10, <2>2, <2>3
<1>. QED
  BY <1>9, <1>11 DEF AndInv, st

\* dgap_AND gives the bits that both rows have, also with a mask whose last run
\* of 0s has the wrong length.
THEOREM DgapAndMeets ==
  ASSUME NEW a, Loose(a), NEW b, Loose(b)
  PROVE  Loose(DgapAnd(a, b)) /\ Bits(DgapAnd(a, b)) = Bits(a) \cap Bits(b)
<1>. DEFINE e == AndRounds(a, b)[Len(a.runs) + Len(b.runs)].ends
            c == DgapAnd(a, b)
            m == Len(e)
<1>1. e \in Seq(Length) /\ Right(a, b, e)
  BY AndLoop DEF AndState
<1>2. c.flag = (a.flag /\ b.flag) /\ c.runs = DeCumulative(e) /\ c = [flag |-> a.flag /\ b.flag, runs |-> DeCumulative(e)]
  BY DEF DgapAnd
<1>. HIDE DEF c, e
<1>3. /\ DeCumulative(e) \in Seq(Length) /\ Len(DeCumulative(e)) = m
      /\ \A k \in 0 .. m : EndOf(DeCumulative(e), k) = End0(e, k)
      /\ \A k \in 1 .. m :
           End0(e, k - 1) < End0(e, k) => DeCumulative(e)[k] = End0(e, k) - End0(e, k - 1)
  BY <1>1, FromEnds
<1>4. m \in Nat /\ m >= 1
  BY <1>1 DEF Right
<1>5. c \in Row /\ Len(c.runs) = m /\ c.runs # << >>
  <2>1. c \in Row
    BY <1>2, <1>3 DEF Row, Length
  <2>. QED
    BY <1>2, <1>3, <1>4, <2>1
<1>6. \A k : Value(c, k) <=> AndValue(a, b, k)
  BY <1>2 DEF Value, AndValue
<1>7. \A k \in 0 .. m : End0(e, k) \in Nat
  <2>1. \A k \in 1 .. m : e[k] \in Length
    BY <1>1
  <2>. QED
    BY <2>1, WordAssumption DEF End0, Length
<1>8. ASSUME NEW k \in 1 .. m, k < m \/ Value(c, k) PROVE Solid(c, k)
  <2>1. End0(e, k - 1) < End0(e, k)
    BY <1>1, <1>6, <1>8 DEF Right
  <2>2. k - 1 \in 0 .. m /\ k \in 0 .. m
    BY <1>4
  <2>3. c.runs[k] = End0(e, k) - End0(e, k - 1) /\ EndOf(c.runs, k) = End0(e, k) /\ EndOf(c.runs, k - 1) = End0(e, k - 1)
    BY <1>2, <1>3, <2>1, <2>2
  <2>. QED
    BY <1>7, <2>1, <2>2, <2>3 DEF Solid
<1>9. Loose(c)
  <2>. HIDE DEF m
  <2>. QED
    BY <1>5, <1>8 DEF Loose
<1>10. \A x : x \in Bits(c) <=> x \in OnesOf(a, b, e)
  <2>1. \A x : x \in Bits(c) <=>
           /\ x \in Int
           /\ \E k \in 1 .. m : Value(c, k) /\ EndOf(c.runs, k - 1) < x /\ x <= EndOf(c.runs, k)
    <3>. HIDE DEF m
    <3>. QED
      BY <1>5, <1>9, BitsAre
  <2>2. \A k \in 1 .. m : EndOf(c.runs, k - 1) = End0(e, k - 1) /\ EndOf(c.runs, k) = End0(e, k) /\ End0(e, k - 1) \in Nat
    <3>1. \A k \in 1 .. m : k - 1 \in 0 .. m /\ k \in 0 .. m
      BY <1>4
    <3>. HIDE DEF m
    <3>. QED
      BY <1>2, <1>3, <1>7, <3>1
  <2>. HIDE DEF m
  <2>3. ASSUME NEW x, NEW k \in 1 .. m
        PROVE  (x \in Int /\ EndOf(c.runs, k - 1) < x /\ x <= EndOf(c.runs, k))
               <=> (x \in Nat /\ End0(e, k - 1) < x /\ x <= End0(e, k))
    BY <2>2
  <2>4. \A x : x \in OnesOf(a, b, e) <=>
          /\ x \in Nat
          /\ \E k \in 1 .. m : AndValue(a, b, k) /\ End0(e, k - 1) < x /\ x <= End0(e, k)
    BY DEF OnesOf, m
  <2>. QED
    BY <1>6, <2>1, <2>3, <2>4, Zenon
<1>11. Bits(c) = Both(a, b)
  BY <1>1, <1>10 DEF Right
<1>. QED
  BY <1>9, <1>11 DEF Both, c

\* The mask of one column has its bit, whatever the stale width it was made for.
LEMMA MaskIs ==
  ASSUME NEW bit \in 1 .. Word - 1, NEW bytes \in Nat
  PROVE  Loose(AndArray(bit, bytes)) /\ Bits(AndArray(bit, bytes)) = {bit}
<1>. DEFINE later == (8 * bytes - bit) % Word
            c == AndArray(bit, bytes)
            k == IF bit = 1 THEN 1 ELSE 2
<1>1. later \in Length
  <2>1. 8 * bytes - bit \in Int
    BY WordAssumption
  <2>. QED
    BY <2>1, Wraps DEF Length
<1>2. c = [flag |-> bit = 1,
           runs |-> (IF bit = 1 THEN <<1>> ELSE <<bit - 1, 1>>)
                    \o (IF later = 0 THEN << >> ELSE <<later>>)]
  BY DEF AndArray
<1>3. /\ bit \in Nat /\ bit \in Length /\ 1 \in Length
      /\ bit # 1 => bit - 1 \in Length /\ bit - 1 >= 1
  BY WordAssumption DEF Length
<1>. HIDE DEF later, c
<1>4. /\ c.flag = (bit = 1) /\ c.runs \in Seq(Length)
      /\ Len(c.runs) \in {k, k + 1}
      /\ c.runs[k] = 1
      /\ bit # 1 => c.runs[1] = bit - 1
  <2>1. CASE bit = 1 /\ later = 0
    <3>1. c.runs = <<1>>
      BY <1>2, <2>1
    <3>. QED
      BY <1>2, <1>3, <2>1, <3>1
  <2>2. CASE bit = 1 /\ later # 0
    <3>1. c.runs = <<1, later>>
      <4>1. c.runs = <<1>> \o <<later>>
        BY <1>2, <2>2
      <4>. DEFINE u == <<1>>
                  z == <<later>>
      <4>2. u \o z = <<1, later>>
        <5>1. u \in Seq(Length) /\ z \in Seq(Length) /\ Len(u) = 1 /\ Len(z) = 1 /\ u[1] = 1 /\ z[1] = later
          BY <1>1, <1>3
        <5>. HIDE DEF u, z
        <5>2. /\ u \o z \in Seq(Length) /\ Len(u \o z) = Len(u) + Len(z)
              /\ \A i \in 1 .. Len(u) + Len(z) : (u \o z)[i] = IF i <= Len(u) THEN u[i] ELSE z[i - Len(u)]
          BY <5>1, ConcatProperties
        <5>3. (u \o z)[1] = 1 /\ (u \o z)[2] = later
          <6>1. 1 \in 1 .. 2 /\ 2 \in 1 .. 2 /\ 2 - 1 = 1 /\ 1 + 1 = 2 /\ 1 <= 1 /\ ~(2 <= 1)
            OBVIOUS
          <6>. QED
            BY <5>1, <5>2, <6>1
        <5>4. \A x : x \in Seq(Length) /\ Len(x) = 2 => x = <<x[1], x[2]>>
          OBVIOUS
        <5>5. u \o z \in Seq(Length) /\ Len(u \o z) = 2
          BY <5>1, <5>2
        <5>6. u \o z = <<(u \o z)[1], (u \o z)[2]>>
          BY <5>4, <5>5, Zenon
        <5>. QED
          BY <5>3, <5>6, Zenon
      <4>. QED
        BY <4>1, <4>2, Zenon
    <3>. QED
      BY <1>1, <1>2, <1>3, <2>2, <3>1
  <2>3. CASE bit # 1 /\ later = 0
    <3>1. c.runs = <<bit - 1, 1>>
      BY <1>2, <2>3
    <3>. QED
      BY <1>2, <1>3, <2>3, <3>1
  <2>4. CASE bit # 1 /\ later # 0
    <3>1. c.runs = <<bit - 1, 1, later>>
      <4>. DEFINE u == <<bit - 1, 1>>
                  z == <<later>>
      <4>1. c.runs = u \o z
        BY <1>2, <2>4
      <4>2. u \in Seq(Length) /\ z \in Seq(Length) /\ Len(u) = 2 /\ Len(z) = 1
        BY <1>1, <1>3, <2>4
      <4>3. u[1] = bit - 1 /\ u[2] = 1 /\ z[1] = later
        OBVIOUS
      <4>. HIDE DEF u, z
      <4>4. /\ u \o z \in Seq(Length) /\ Len(u \o z) = Len(u) + Len(z)
            /\ \A i \in 1 .. Len(u) + Len(z) : (u \o z)[i] = IF i <= Len(u) THEN u[i] ELSE z[i - Len(u)]
        BY <4>2, ConcatProperties
      <4>5. 1 \in 1 .. 3 /\ 2 \in 1 .. 3 /\ 3 \in 1 .. 3 /\ 3 - 2 = 1 /\ 2 + 1 = 3 /\ 1 <= 2 /\ 2 <= 2 /\ ~(3 <= 2)
        OBVIOUS
      <4>6. (u \o z)[1] = bit - 1 /\ (u \o z)[2] = 1 /\ (u \o z)[3] = later
        BY <4>2, <4>3, <4>4, <4>5
      <4>7. \A x : x \in Seq(Length) /\ Len(x) = 3 => x = <<x[1], x[2], x[3]>>
        OBVIOUS
      <4>. QED
        BY <4>1, <4>2, <4>4, <4>5, <4>6, <4>7
    <3>. QED
      BY <1>1, <1>2, <1>3, <2>4, <3>1
  <2>. QED
    BY <2>1, <2>2, <2>3, <2>4
<1>5. c \in Row
  BY <1>2, <1>4 DEF Row, Length
<1>6. EndOf(c.runs, k) = bit /\ EndOf(c.runs, k - 1) = bit - 1
  <2>1. /\ EndOf(c.runs, 0) = 0
        /\ \A i \in 1 .. Len(c.runs) : EndOf(c.runs, i) = (EndOf(c.runs, i - 1) + c.runs[i]) % Word
    BY <1>5, RowEnds
  <2>2. bit % Word = bit
    BY <1>3, NoWrap
  <2>3. CASE bit = 1
    <3>1. 1 \in 1 .. Len(c.runs) /\ k = 1
      BY <1>4, <2>3
    <3>2. EndOf(c.runs, 1) = (0 + 1) % Word
      <4>1. EndOf(c.runs, 1) = (EndOf(c.runs, 1 - 1) + c.runs[1]) % Word
        BY <2>1, <3>1
      <4>. QED
        BY <1>4, <2>1, <3>1, <4>1
    <3>. QED
      BY <2>1, <2>2, <2>3, <3>1, <3>2
  <2>4. CASE bit # 1
    <3>1. 1 \in 1 .. Len(c.runs) /\ 2 \in 1 .. Len(c.runs) /\ k = 2
      BY <1>4, <2>4
    <3>2. EndOf(c.runs, 1) = (0 + (bit - 1)) % Word
      <4>1. EndOf(c.runs, 1) = (EndOf(c.runs, 1 - 1) + c.runs[1]) % Word
        BY <2>1, <3>1
      <4>. QED
        BY <1>4, <2>1, <2>4, <4>1
    <3>3. EndOf(c.runs, 1) = bit - 1
      BY <1>3, <2>4, <3>2, NoWrap
    <3>4. EndOf(c.runs, 2) = ((bit - 1) + 1) % Word
      <4>1. EndOf(c.runs, 2) = (EndOf(c.runs, 2 - 1) + c.runs[2]) % Word
        BY <2>1, <3>1
      <4>. QED
        BY <1>4, <3>1, <3>3, <4>1
    <3>. QED
      BY <1>3, <2>2, <3>1, <3>3, <3>4
  <2>. QED
    BY <2>3, <2>4
<1>7. \A i \in 1 .. Len(c.runs) : Value(c, i) <=> i = k
  <2>1. 1 % 2 = 1 /\ 2 % 2 # 1 /\ 3 % 2 = 1
    OBVIOUS
  <2>2. CASE bit = 1
    <3>1. \A i \in 1 .. Len(c.runs) : i = 1 \/ i = 2
      <4>1. Len(c.runs) = 1 \/ Len(c.runs) = 2
        BY <1>4, <2>2
      <4>2. (\A i \in 1 .. 1 : i = 1) /\ (\A i \in 1 .. 2 : i = 1 \/ i = 2)
        OBVIOUS
      <4>. QED
        BY <4>1, <4>2, Zenon
    <3>2. c.flag = TRUE /\ k = 1
      BY <1>4, <2>2
    <3>3. \A i : Value(c, i) <=> i % 2 = 1
      BY <3>2 DEF Value
    <3>. HIDE DEF k
    <3>. QED
      BY <2>1, <3>1, <3>2, <3>3
  <2>3. CASE bit # 1
    <3>1. \A i \in 1 .. Len(c.runs) : i = 1 \/ i = 2 \/ i = 3
      <4>1. Len(c.runs) = 2 \/ Len(c.runs) = 3
        BY <1>4, <2>3
      <4>2. (\A i \in 1 .. 2 : i = 1 \/ i = 2) /\ (\A i \in 1 .. 3 : i = 1 \/ i = 2 \/ i = 3)
        OBVIOUS
      <4>. QED
        BY <4>1, <4>2, Zenon
    <3>2. c.flag = FALSE /\ k = 2
      BY <1>4, <2>3
    <3>3. \A i : Value(c, i) <=> i % 2 # 1
      <4>1. \A i : (i % 2 = 1) \in BOOLEAN
        OBVIOUS
      <4>. QED
        BY <3>2, <4>1 DEF Value
    <3>. HIDE DEF k
    <3>. QED
      BY <2>1, <3>1, <3>2, <3>3
  <2>. QED
    BY <2>2, <2>3
<1>8. k \in 1 .. Len(c.runs) /\ Len(c.runs) \in Nat
  BY <1>4
<1>9. \A i \in 1 .. Len(c.runs) : i < Len(c.runs) \/ Value(c, i) => Solid(c, i)
  <2>1. Solid(c, k)
    BY <1>3, <1>4, <1>6 DEF Solid
  <2>2. bit # 1 => Solid(c, 1)
    <3>. SUFFICES ASSUME bit # 1 PROVE Solid(c, 1)
      OBVIOUS
    <3>1. EndOf(c.runs, 1) = bit - 1
      BY <1>6
    <3>2. EndOf(c.runs, 1 - 1) = 0
      BY <1>5, RowEnds
    <3>. QED
      BY <1>3, <1>4, <3>1, <3>2 DEF Solid
  <2>3. \A i \in 1 .. Len(c.runs) : i < Len(c.runs) => i <= k
    <3>. HIDE DEF k
    <3>. QED
      BY <1>4, <1>8
  <2>4. \A i \in 1 .. Len(c.runs) : i <= k => i = k \/ (i = 1 /\ bit # 1)
    BY <1>8
  <2>. HIDE DEF k
  <2>. QED
    BY <1>7, <2>1, <2>2, <2>3, <2>4
<1>10. Loose(c)
  <2>1. c.runs # << >>
    BY <1>4, <1>8
  <2>. QED
    BY <1>5, <1>9, <2>1 DEF Loose
<1>11. \A x : x \in Bits(c) <=> x \in Int /\ bit - 1 < x /\ x <= bit
  <2>. HIDE DEF k
  <2>. QED
    BY <1>6, <1>7, <1>8, <1>10, BitsAre
<1>. QED
  BY <1>3, <1>10, <1>11 DEF c
=============================================================================
