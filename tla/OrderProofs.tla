---------------------------- MODULE OrderProofs ------------------------------
(***************************************************************************)
(* What planning makes of a query, whatever its patterns: the lists of     *)
(* build_graph_new are those of the patterns that share a variable, the    *)
(* tree of spanning_tree spans all that can be reached from the root, and  *)
(* tree_bfs lists each variable once and behind its parent.  So both       *)
(* passes of pruning reach all variables of a query that hangs together,   *)
(* and an acyclic one is pruned in the order of a tree.                    *)
(***************************************************************************)
EXTENDS PruneReduce, Load, FunctionTheorems, SequenceTheorems, NaturalsInduction

----------------------------------------------------------------------------
(* Induction and recursion.                                                *)

\* A set that has 0 and with each number of an interval the next has all of them.
LEMMA InductOn ==
  ASSUME NEW n \in Nat, NEW T, 0 \in T, \A i \in 1 .. n : i - 1 \in T => i \in T
  PROVE  \A i \in 0 .. n : i \in T
<1>. DEFINE Bad == {i \in 0 .. n : i \notin T}
<1>. SUFFICES ASSUME Bad # {} PROVE FALSE
  OBVIOUS
<1>1. PICK i \in Bad : \A m \in Bad : i <= m
  <2>1. Bad \in SUBSET Nat
    OBVIOUS
  <2>. QED
    BY <2>1, LeastNat
<1>2. i \in 1 .. n /\ i - 1 \in 0 .. n /\ ~(i <= i - 1)
  BY <1>1
<1>3. i - 1 \in T
  BY <1>1, <1>2
<1>. QED
  BY <1>1, <1>2, <1>3

\* A sequence of states that is given step by step exists.
IsSteps(f, n, S, b, step) ==
  f \in [0 .. n -> S] /\ f[0] = b /\ \A i \in 1 .. n : f[i] = step[<<i, f[i - 1]>>]

LEMMA Recursion ==
  ASSUME NEW n \in Nat, NEW S, NEW b \in S, NEW step \in [(1 .. n) \X S -> S]
  PROVE  \E f : IsSteps(f, n, S, b, step)
<1>. DEFINE Good(f, m) == f[0] = b /\ \A i \in 1 .. m : f[i] = step[<<i, f[i - 1]>>]
            T == {m \in 0 .. n : \E f \in [0 .. m -> S] : Good(f, m)}
<1>1. 0 \in T
  <2>1. [i \in 0 .. 0 |-> b] \in [0 .. 0 -> S] /\ Good([i \in 0 .. 0 |-> b], 0)
    OBVIOUS
  <2>2. 0 \in 0 .. n
    OBVIOUS
  <2>. HIDE DEF Good
  <2>3. \E f \in [0 .. 0 -> S] : Good(f, 0)
    BY <2>1
  <2>. QED
    BY <2>2, <2>3
<1>2. ASSUME NEW e \in 1 .. n, e - 1 \in T
      PROVE  e \in T
  <2>. DEFINE m == e - 1
  <2>0. m \in Nat /\ m + 1 = e
    OBVIOUS
  <2>1. PICK g \in [0 .. m -> S] : Good(g, m)
    BY <1>2
  <2>. DEFINE f == [i \in 0 .. m + 1 |-> IF i <= m THEN g[i] ELSE step[<<m + 1, g[m]>>]]
  <2>2. m + 1 \in 1 .. n /\ g[m] \in S
    OBVIOUS
  <2>. HIDE DEF m
  <2>3. step[<<m + 1, g[m]>>] \in S
    BY <2>2
  <2>4. f \in [0 .. m + 1 -> S]
    BY <2>0, <2>3
  <2>5. \A i \in 0 .. m : f[i] = g[i]
    BY <2>0
  <2>6. f[m + 1] = step[<<m + 1, g[m]>>]
    BY <2>0
  <2>. HIDE DEF f
  <2>7. ASSUME NEW i \in 1 .. m + 1
        PROVE  f[i] = step[<<i, f[i - 1]>>]
    <3>1. i - 1 \in 0 .. m /\ f[i - 1] = g[i - 1]
      BY <2>0, <2>5
    <3>2. CASE i \in 1 .. m
      BY <2>0, <2>1, <2>5, <3>1, <3>2
    <3>3. CASE i = m + 1
      BY <2>0, <2>6, <3>1, <3>3
    <3>. QED
      BY <2>0, <3>2, <3>3
  <2>8. f[0] = b
    BY <2>0, <2>1, <2>5
  <2>9. f \in [0 .. e -> S] /\ Good(f, e)
    BY <2>0, <2>4, <2>7, <2>8
  <2>. QED
    BY <2>9
<1>. HIDE DEF T
<1>3. \A m \in 0 .. n : m \in T
  BY <1>1, <1>2, InductOn
<1>4. n \in T
  BY <1>3
<1>. QED
  BY <1>4 DEF T, IsSteps

----------------------------------------------------------------------------
(* Lists.                                                                  *)

\* The numbers of a finite set, each once.
LEMMA OrderedIs ==
  ASSUME NEW S \in SUBSET Nat, IsFiniteSet(S)
  PROVE  /\ Cardinality(S) \in Nat
         /\ InOrder(S) \in [1 .. Cardinality(S) -> S]
         /\ \A n \in S : \E i \in 1 .. Cardinality(S) : InOrder(S)[i] = n
         /\ \A i, e \in 1 .. Cardinality(S) : InOrder(S)[i] = InOrder(S)[e] => i = e
<1>. DEFINE size == Cardinality(S)
            Less(n) == {m \in S : m < n}
            Pick(i) == CHOOSE n \in S : Cardinality(Less(n)) = i - 1
            rank == [n \in S |-> Cardinality(Less(n)) + 1]
<1>0. InOrder(S) = [i \in 1 .. size |-> Pick(i)]
  BY DEF InOrder
<1>1. size \in Nat
  BY FS_CardinalityType
<1>2. ASSUME NEW n \in S
      PROVE  Cardinality(Less(n)) \in Nat /\ Cardinality(Less(n)) < size
  <2>1. Less(n) \in SUBSET (S \ {n}) /\ n \notin Less(n)
    OBVIOUS
  <2>2. IsFiniteSet(S \ {n}) /\ Cardinality(S \ {n}) = size - 1
    BY FS_RemoveElement
  <2>3. IsFiniteSet(Less(n)) /\ Cardinality(Less(n)) <= size - 1
    BY <2>1, <2>2, FS_Subset
  <2>4. Cardinality(Less(n)) \in Nat
    BY <2>3, FS_CardinalityType
  <2>. HIDE DEF Less
  <2>. QED
    BY <1>1, <2>3, <2>4
<1>3. ASSUME NEW n \in S, NEW m \in S, m < n
      PROVE  Cardinality(Less(m)) < Cardinality(Less(n))
  <2>1. Less(m) \in SUBSET Less(n) /\ m \in Less(n) /\ m \notin Less(m)
    <3>1. \A x \in S : x < m => x < n
      BY <1>3
    <3>2. ~(m < m)
      BY <1>3
    <3>. QED
      BY <1>3, <3>1, <3>2
  <2>2. Less(n) \in SUBSET S
    OBVIOUS
  <2>. HIDE DEF Less
  <2>3. IsFiniteSet(Less(n))
    BY <2>2, FS_Subset
  <2>4. Cardinality(Less(m)) <= Cardinality(Less(n)) /\ (Cardinality(Less(n)) = Cardinality(Less(m)) => Less(n) = Less(m))
    BY <2>1, <2>3, FS_Subset
  <2>. QED
    BY <1>2, <2>1, <2>4
<1>4. rank \in Injection(S, 1 .. size)
  <2>1. rank \in [S -> 1 .. size]
    <3>. HIDE DEF Less
    <3>. QED
      BY <1>1, <1>2
  <2>2. ASSUME NEW n \in S, NEW m \in S, rank[n] = rank[m] PROVE n = m
    <3>. HIDE DEF Less
    <3>1. Cardinality(Less(n)) = Cardinality(Less(m))
      BY <1>2, <2>2
    <3>2. ~(m < n) /\ ~(n < m)
      BY <1>2, <1>3, <3>1
    <3>3. m \in Nat /\ n \in Nat
      OBVIOUS
    <3>. QED
      BY <3>2, <3>3
  <2>. HIDE DEF rank, size
  <2>. QED
    BY <2>1, <2>2, Fun_IsInj
<1>5. rank \in Surjection(S, 1 .. size)
  <2>1. IsFiniteSet(1 .. size) /\ Cardinality(1 .. size) = size
    <3>1. 1 \in Int /\ size \in Int
      BY <1>1
    <3>2. IsFiniteSet(1 .. size) /\ Cardinality(1 .. size) = IF 1 > size THEN 0 ELSE size - 1 + 1
      BY <3>1, FS_Interval
    <3>. QED
      BY <1>1, <3>2
  <2>. HIDE DEF rank
  <2>. QED
    BY <1>4, <2>1, FS_Injection
<1>6. ASSUME NEW i \in 1 .. size
      PROVE  InOrder(S)[i] \in S /\ rank[InOrder(S)[i]] = i
  <2>1. \E n \in S : rank[n] = i
    BY <1>5 DEF Surjection
  <2>2. \E n \in S : Cardinality(Less(n)) = i - 1
    <3>. HIDE DEF Less
    <3>. QED
      BY <1>2, <2>1
  <2>. HIDE DEF Less
  <2>3. Pick(i) \in S /\ Cardinality(Less(Pick(i))) = i - 1
    BY <2>2
  <2>. HIDE DEF Pick
  <2>4. rank[Pick(i)] = i
    BY <1>1, <2>3
  <2>5. InOrder(S)[i] = Pick(i)
    BY <1>0
  <2>. QED
    BY <2>3, <2>4, <2>5
<1>7. InOrder(S) \in [1 .. size -> S]
  <2>. HIDE DEF Pick, size
  <2>1. \A i \in 1 .. size : Pick(i) \in S
    BY <1>0, <1>6
  <2>. QED
    BY <1>0, <2>1
<1>8. ASSUME NEW n \in S
      PROVE  \E i \in 1 .. size : InOrder(S)[i] = n
  <2>. HIDE DEF rank, size
  <2>0. rank \in [S -> 1 .. size] /\ \A a, b \in S : rank[a] = rank[b] => a = b
    BY <1>4, Fun_IsInj DEF Injection, IsInjective
  <2>1. rank[n] \in 1 .. size
    BY <2>0
  <2>2. InOrder(S)[rank[n]] \in S /\ rank[InOrder(S)[rank[n]]] = rank[n]
    BY <1>6, <2>1
  <2>. QED
    BY <2>0, <2>1, <2>2
<1>. HIDE DEF rank
<1>. QED
  BY <1>1, <1>6, <1>7, <1>8

\* The elements of a sequence at some of its places.
LEMMA AtPlacesIs ==
  ASSUME NEW T, NEW seq \in Seq(T), NEW places \in SUBSET (DOMAIN seq)
  PROVE  /\ AtPlaces(seq, places) \in Seq(T)
         /\ \A x : (\E i \in DOMAIN AtPlaces(seq, places) : AtPlaces(seq, places)[i] = x)
                     <=> (\E i \in places : seq[i] = x)
         /\ (\A a, b \in places : seq[a] = seq[b] => a = b)
              => \A i, e \in DOMAIN AtPlaces(seq, places) :
                   AtPlaces(seq, places)[i] = AtPlaces(seq, places)[e] => i = e
<1>. DEFINE size == Cardinality(places)
            order == InOrder(places)
            out == AtPlaces(seq, places)
<1>1. places \in SUBSET Nat /\ IsFiniteSet(places)
  <2>1. Len(seq) \in Nat /\ DOMAIN seq = 1 .. Len(seq)
    OBVIOUS
  <2>2. IsFiniteSet(1 .. Len(seq))
    BY <2>1, FS_Interval
  <2>. QED
    BY <2>1, <2>2, FS_Subset
<1>2. /\ size \in Nat /\ order \in [1 .. size -> places]
      /\ \A n \in places : \E i \in 1 .. size : order[i] = n
      /\ \A i, e \in 1 .. size : order[i] = order[e] => i = e
  BY <1>1, OrderedIs
<1>3. out = [i \in 1 .. size |-> seq[order[i]]]
  BY DEF AtPlaces
<1>. HIDE DEF size, order, out
<1>4. \A i \in 1 .. size : order[i] \in DOMAIN seq /\ seq[order[i]] \in T /\ order[i] \in places
  BY <1>2
<1>5. out \in Seq(T) /\ DOMAIN out = 1 .. size
  BY <1>2, <1>3, <1>4
<1>6. \A i \in 1 .. size : out[i] = seq[order[i]]
  BY <1>3
<1>7. ASSUME \A a, b \in places : seq[a] = seq[b] => a = b,
             NEW i \in DOMAIN out, NEW e \in DOMAIN out, out[i] = out[e]
      PROVE  i = e
  <2>1. i \in 1 .. size /\ e \in 1 .. size
    BY <1>5
  <2>2. order[i] \in places /\ order[e] \in places /\ out[i] = seq[order[i]] /\ out[e] = seq[order[e]]
    BY <1>4, <1>6, <2>1
  <2>3. order[i] = order[e]
    BY <1>7, <2>2
  <2>. QED
    BY <1>2, <2>1, <2>3
<1>8. \A x : (\E i \in DOMAIN out : out[i] = x) <=> (\E i \in places : seq[i] = x)
  <2>1. ASSUME NEW x, NEW i \in DOMAIN out, out[i] = x PROVE \E m \in places : seq[m] = x
    BY <1>4, <1>5, <1>6, <2>1
  <2>2. ASSUME NEW x, NEW m \in places, seq[m] = x PROVE \E i \in DOMAIN out : out[i] = x
    <3>1. PICK i \in 1 .. size : order[i] = m
      BY <1>2
    <3>. QED
      BY <1>5, <1>6, <2>2, <3>1
  <2>. QED
    BY <2>1, <2>2
<1>. QED
  BY <1>5, <1>7, <1>8 DEF out

\* Sequences one after the other.
LEMMA FlattenIs ==
  ASSUME NEW T, NEW seqs \in Seq(Seq(T))
  PROVE  /\ FlattenSeq(seqs) \in Seq(T)
         /\ \A x : (\E i \in DOMAIN FlattenSeq(seqs) : FlattenSeq(seqs)[i] = x)
                     <=> (\E i \in DOMAIN seqs : \E m \in DOMAIN seqs[i] : seqs[i][m] = x)
<1>. DEFINE n == Len(seqs)
            Body(f) == [i \in 1 .. n |-> IF i = 1 THEN seqs[i] ELSE f[i - 1] \o seqs[i]]
            flat == CHOOSE f : f = Body(f)
            step == [p \in (1 .. n) \X Seq(T) |-> p[2] \o seqs[p[1]]]
            Holds(s, i) == \A x : (\E e \in DOMAIN s : s[e] = x)
                                    <=> (\E l \in 1 .. i : \E m \in DOMAIN seqs[l] : seqs[l][m] = x)
<1>1. n \in Nat /\ DOMAIN seqs = 1 .. n /\ \A i \in 1 .. n : seqs[i] \in Seq(T)
  OBVIOUS
<1>2. CASE n = 0
  <2>1. seqs = << >>
    BY <1>2
  <2>2. FlattenSeq(seqs) = seqs
    BY <1>2 DEF FlattenSeq
  <2>3. << >> \in Seq(T) /\ DOMAIN << >> = {}
    OBVIOUS
  <2>. QED
    BY <2>1, <2>2, <2>3
<1>3. CASE n # 0
  <2>1. FlattenSeq(seqs) = flat[n]
    BY <1>3 DEF FlattenSeq
  <2>2. step \in [(1 .. n) \X Seq(T) -> Seq(T)]
    <3>1. ASSUME NEW p \in (1 .. n) \X Seq(T) PROVE p[2] \o seqs[p[1]] \in Seq(T)
      <4>1. p[2] \in Seq(T) /\ seqs[p[1]] \in Seq(T)
        BY <1>1
      <4>. QED
        BY <4>1, ConcatProperties
    <3>. QED
      BY <3>1
  <2>3. \A i \in 1 .. n : \A s \in Seq(T) : step[<<i, s>>] = s \o seqs[i]
    OBVIOUS
  <2>4. << >> \in Seq(T)
    OBVIOUS
  <2>. HIDE DEF step, n
  <2>5. PICK g : IsSteps(g, n, Seq(T), << >>, step)
    BY <1>1, <2>2, <2>4, Recursion
  <2>6. /\ g \in [0 .. n -> Seq(T)] /\ g[0] = << >>
        /\ \A i \in 1 .. n : i - 1 \in 0 .. n /\ g[i] = g[i - 1] \o seqs[i]
    <3>1. /\ g \in [0 .. n -> Seq(T)] /\ g[0] = << >>
          /\ \A i \in 1 .. n : g[i] = step[<<i, g[i - 1]>>]
      BY <2>5 DEF IsSteps
    <3>2. \A i \in 1 .. n : i - 1 \in 0 .. n
      BY <1>1
    <3>3. \A i \in 1 .. n : g[i - 1] \in Seq(T)
      BY <3>1, <3>2
    <3>. QED
      BY <2>3, <3>1, <3>2, <3>3
  <2>. DEFINE h == [i \in 1 .. n |-> g[i]]
  <2>7. h = Body(h)
    <3>1. ASSUME NEW i \in 1 .. n
          PROVE  h[i] = IF i = 1 THEN seqs[i] ELSE h[i - 1] \o seqs[i]
      <4>1. CASE i = 1
        <5>. HIDE DEF h
        <5>a. i - 1 = 0
          BY <4>1
        <5>b. g[i] = g[i - 1] \o seqs[i]
          BY <2>6, Zenon
        <5>c. g[i - 1] = << >>
          BY <2>6, <5>a
        <5>1. g[1] = << >> \o seqs[1] /\ seqs[1] \in Seq(T)
          BY <1>1, <4>1, <5>b, <5>c
        <5>2. << >> \o seqs[1] = seqs[1]
          BY <5>1, ConcatEmptySeq
        <5>3. h[i] = g[i]
          BY DEF h
        <5>. QED
          BY <4>1, <5>1, <5>2, <5>3
      <4>2. CASE i # 1
        <5>1. i - 1 \in 1 .. n
          BY <1>1, <4>2
        <5>2. h[i - 1] = g[i - 1] /\ h[i] = g[i]
          BY <5>1
        <5>. QED
          BY <2>6, <4>2, <5>2
      <4>. QED
        BY <4>1, <4>2
    <3>. QED
      BY <3>1
  <2>8. flat = Body(flat)
    <3>. HIDE DEF h, Body
    <3>. QED
      BY <2>7
  <2>9. \A i \in 1 .. n : flat[i] = IF i = 1 THEN seqs[i] ELSE flat[i - 1] \o seqs[i]
    <3>. HIDE DEF flat, Body
    <3>1. \A i \in 1 .. n : Body(flat)[i] = IF i = 1 THEN seqs[i] ELSE flat[i - 1] \o seqs[i]
      BY DEF Body
    <3>. QED
      BY <2>8, <3>1
  <2>. HIDE DEF flat
  <2>. DEFINE Q == {i \in 0 .. n : i > 0 => flat[i] \in Seq(T) /\ Holds(flat[i], i)}
  <2>10. 0 \in Q
    BY <1>1
  <2>11. ASSUME NEW i \in 1 .. n, i - 1 \in Q PROVE i \in Q
    <3>1. CASE i = 1
      <4>1. flat[1] = seqs[1] /\ seqs[1] \in Seq(T) /\ 1 .. 1 = {1}
        BY <1>1, <2>9, <3>1
      <4>2. Holds(flat[1], 1)
        BY <4>1
      <4>. QED
        BY <1>1, <3>1, <4>1, <4>2
    <3>2. CASE i # 1
      <4>. DEFINE a == flat[i - 1]
                  b == seqs[i]
      <4>1. a \in Seq(T) /\ Holds(a, i - 1)
        BY <2>11, <3>2
      <4>2. b \in Seq(T) /\ flat[i] = a \o b
        BY <1>1, <2>9, <3>2
      <4>3. 1 .. i = (1 .. i - 1) \cup {i}
        BY <1>1
      <4>. HIDE DEF a
      <4>4. /\ a \o b \in Seq(T) /\ Len(a \o b) = Len(a) + Len(b)
            /\ \A e \in 1 .. Len(a) : (a \o b)[e] = a[e]
            /\ \A e \in 1 .. Len(b) : (a \o b)[Len(a) + e] = b[e]
        BY <4>1, <4>2
      <4>5. ASSUME NEW x PROVE (\E e \in DOMAIN (a \o b) : (a \o b)[e] = x)
                                 <=> (\E e \in DOMAIN a : a[e] = x) \/ (\E e \in DOMAIN b : b[e] = x)
        <5>. HIDE DEF b, Holds
        <5>1. Len(a) \in Nat /\ Len(b) \in Nat /\ DOMAIN a = 1 .. Len(a) /\ DOMAIN b = 1 .. Len(b)
              /\ DOMAIN (a \o b) = 1 .. Len(a) + Len(b)
          BY <4>1, <4>2, <4>4
        <5>2. ASSUME NEW e \in DOMAIN (a \o b), e \notin DOMAIN a
              PROVE  e - Len(a) \in DOMAIN b /\ (a \o b)[e] = b[e - Len(a)]
          <6>1. e - Len(a) \in 1 .. Len(b) /\ Len(a) + (e - Len(a)) = e
            BY <5>1, <5>2
          <6>. QED
            BY <4>4, <5>1, <6>1
        <5>3. ASSUME NEW e \in DOMAIN b PROVE Len(a) + e \in DOMAIN (a \o b)
          BY <5>1
        <5>4. ASSUME NEW e \in DOMAIN a PROVE e \in DOMAIN (a \o b)
          BY <5>1
        <5>. QED
          BY <4>4, <5>1, <5>2, <5>3, <5>4
      <4>6. Holds(flat[i], i)
        <5>1. ASSUME NEW x PROVE (\E l \in 1 .. i : \E m \in DOMAIN seqs[l] : seqs[l][m] = x)
                <=> (\E l \in 1 .. i - 1 : \E m \in DOMAIN seqs[l] : seqs[l][m] = x) \/ (\E m \in DOMAIN b : b[m] = x)
          BY <4>3
        <5>. QED
          BY <4>1, <4>2, <4>5, <5>1
      <4>7. flat[i] \in Seq(T) /\ i \in 0 .. n
        BY <1>1, <4>2, <4>4
      <4>. HIDE DEF Holds
      <4>. QED
        BY <4>6, <4>7
    <3>. QED
      BY <3>1, <3>2
  <2>. HIDE DEF Q
  <2>12. \A i \in 0 .. n : i \in Q
    BY <1>1, <2>10, <2>11, InductOn
  <2>13. n \in Q /\ n > 0
    BY <1>1, <1>3, <2>12
  <2>14. flat[n] \in Seq(T) /\ Holds(flat[n], n)
    BY <2>13 DEF Q
  <2>. QED
    BY <1>1, <2>1, <2>14
<1>. QED
  BY <1>2, <1>3

----------------------------------------------------------------------------
(* The graph of a query.                                                   *)

LEMMA PatternType ==
  ASSUME NEW t \in TP
  PROVE  Query[t].sub \in Int /\ Query[t].pred \in Int /\ Query[t].obj \in Int
<1>1. Query[t] \in [sub : Int, pred : Int, obj : Int]
  <2>. DEFINE R == [sub : Int, pred : Int, obj : Int]
  <2>1. Query \in Seq(R) /\ t \in 1 .. Len(Query)
    BY QueryAssumption DEF TP
  <2>. HIDE DEF R
  <2>2. Query[t] \in R
    BY <2>1
  <2>. QED
    BY <2>2 DEF R
<1>. QED
  BY <1>1

\* The variables in the order they are met are all of them, each once.
LEMMA JvarSeqIs ==
  /\ JvarSeq \in Seq(Jvar)
  /\ \A j \in Jvar : \E i \in DOMAIN JvarSeq : JvarSeq[i] = j
  /\ \A i, e \in DOMAIN JvarSeq : JvarSeq[i] = JvarSeq[e] => i = e
<1>. DEFINE lines == [t \in TP |-> <<Query[t].sub, Query[t].pred, Query[t].obj>>]
            mentioned == FlattenSeq(lines)
            First(i) == mentioned[i] < 0 /\ \A m \in 1 .. i - 1 : mentioned[m] # mentioned[i]
            places == {i \in DOMAIN mentioned : First(i)}
<1>1. JvarSeq = AtPlaces(mentioned, places)
  BY DEF JvarSeq
<1>2. lines \in Seq(Seq(Int)) /\ DOMAIN lines = TP
  <2>1. \A t \in TP : <<Query[t].sub, Query[t].pred, Query[t].obj>> \in Seq(Int)
    BY PatternType
  <2>2. TP = 1 .. Len(Query) /\ Len(Query) \in Nat
    BY QueryAssumption DEF TP
  <2>. QED
    BY <2>1, <2>2
<1>3. \A x : (\E i \in DOMAIN mentioned : mentioned[i] = x)
               <=> (\E t \in TP : \E m \in DOMAIN lines[t] : lines[t][m] = x)
  <2>. HIDE DEF lines
  <2>1. \A x : (\E i \in DOMAIN mentioned : mentioned[i] = x)
                 <=> (\E t \in DOMAIN lines : \E m \in DOMAIN lines[t] : lines[t][m] = x)
    BY <1>2, FlattenIs
  <2>. QED
    BY <1>2, <2>1
<1>4. mentioned \in Seq(Int)
  BY <1>2, FlattenIs
<1>5. \A x : (\E t \in TP : \E m \in DOMAIN lines[t] : lines[t][m] = x)
               <=> (\E t \in TP : \E f \in Fields : Query[t][f] = x)
  <2>1. ASSUME NEW t \in TP, NEW x
        PROVE  (\E m \in DOMAIN lines[t] : lines[t][m] = x) <=> (\E f \in Fields : Query[t][f] = x)
    <3>1. lines[t] = <<Query[t].sub, Query[t].pred, Query[t].obj>>
      OBVIOUS
    <3>2. DOMAIN lines[t] = {1, 2, 3}
      BY <3>1
    <3>. QED
      BY <3>1, <3>2 DEF Fields
  <2>. HIDE DEF lines
  <2>. QED
    BY <2>1
<1>. HIDE DEF lines, mentioned
<1>6. \A x : x < 0 => (x \in Jvar <=> \E i \in DOMAIN mentioned : mentioned[i] = x)
  BY <1>3, <1>5 DEF Jvar
<1>7. places \in SUBSET (DOMAIN mentioned)
  OBVIOUS
<1>8. ASSUME NEW a \in places, NEW b \in places, mentioned[a] = mentioned[b] PROVE a = b
  <2>1. a \in Nat /\ b \in Nat /\ a >= 1 /\ b >= 1
    BY <1>4
  <2>2. ~(a < b) /\ ~(b < a)
    BY <1>8, <2>1
  <2>. QED
    BY <2>1, <2>2
<1>9. /\ JvarSeq \in Seq(Int)
      /\ \A x : (\E i \in DOMAIN JvarSeq : JvarSeq[i] = x) <=> (\E i \in places : mentioned[i] = x)
      /\ \A i, e \in DOMAIN JvarSeq : JvarSeq[i] = JvarSeq[e] => i = e
  <2>. HIDE DEF places
  <2>. DEFINE out == AtPlaces(mentioned, places)
  <2>1. out \in Seq(Int)
    BY <1>4, <1>7, AtPlacesIs
  <2>2. \A x : (\E i \in DOMAIN out : out[i] = x) <=> (\E i \in places : mentioned[i] = x)
    BY <1>4, <1>7, AtPlacesIs
  <2>3. \A i, e \in DOMAIN out : out[i] = out[e] => i = e
    BY <1>4, <1>7, <1>8, AtPlacesIs
  <2>4. JvarSeq = out
    BY <1>1
  <2>. HIDE DEF out
  <2>. QED
    BY <2>1, <2>2, <2>3, <2>4
<1>10. ASSUME NEW j \in Jvar PROVE \E i \in places : mentioned[i] = j
  <2>. DEFINE at == {i \in DOMAIN mentioned : mentioned[i] = j}
  <2>1. j < 0 /\ at # {} /\ at \in SUBSET Nat
    BY <1>4, <1>6 DEF Jvar
  <2>2. PICK i \in at : \A m \in at : i <= m
    BY <2>1, LeastNat
  <2>3. \A m \in 1 .. i - 1 : m \in DOMAIN mentioned /\ ~(i <= m)
    BY <1>4, <2>2
  <2>. QED
    BY <2>1, <2>2, <2>3
<1>11. \A i \in DOMAIN JvarSeq : JvarSeq[i] \in Jvar
  BY <1>6, <1>9
<1>12. JvarSeq \in Seq(Jvar)
  BY <1>9, <1>11
<1>. QED
  BY <1>9, <1>10, <1>12

LEMMA PatternsFinite == TP \in SUBSET Nat /\ IsFiniteSet(TP)
<1>1. TP = 1 .. Len(Query) /\ Len(Query) \in Nat
  BY QueryAssumption DEF TP
<1>. QED
  BY <1>1, FS_Interval

\* The list of a variable has the patterns that mention it, each once.
LEMMA ListOfJvar ==
  ASSUME NEW j \in Jvar
  PROVE  /\ TPsOfJvar[j] \in Seq(TP)
         /\ \A t \in TP : Mentions(t, j) <=> \E i \in DOMAIN TPsOfJvar[j] : TPsOfJvar[j][i] = t
         /\ \A i, e \in DOMAIN TPsOfJvar[j] : TPsOfJvar[j][i] = TPsOfJvar[j][e] => i = e
<1>. DEFINE S == {t \in TP : Mentions(t, j)}
            n == Cardinality(S)
<1>1. TPsOfJvar[j] = InOrder(S)
  BY DEF TPsOfJvar
<1>2. S \in SUBSET Nat /\ IsFiniteSet(S)
  BY PatternsFinite, FS_Subset
<1>. HIDE DEF S
<1>3. /\ n \in Nat /\ InOrder(S) \in [1 .. n -> S]
      /\ \A t \in S : \E i \in 1 .. n : InOrder(S)[i] = t
      /\ \A i, e \in 1 .. n : InOrder(S)[i] = InOrder(S)[e] => i = e
  BY <1>2, OrderedIs
<1>. DEFINE out == InOrder(S)
<1>. HIDE DEF n, out
<1>4. n \in Nat /\ out \in [1 .. n -> S] /\ (\A t \in S : \E i \in 1 .. n : out[i] = t)
      /\ \A i, e \in 1 .. n : out[i] = out[e] => i = e
  BY <1>3 DEF out
<1>5. S \in SUBSET TP /\ \A t \in TP : t \in S <=> Mentions(t, j)
  BY DEF S
<1>6. DOMAIN out = 1 .. n /\ out \in Seq(TP) /\ \A i \in 1 .. n : out[i] \in S
  BY <1>4, <1>5
<1>7. \A t \in TP : Mentions(t, j) <=> \E i \in DOMAIN out : out[i] = t
  BY <1>4, <1>5, <1>6
<1>8. TPsOfJvar[j] = out
  BY <1>1 DEF out
<1>. QED
  BY <1>4, <1>6, <1>7, <1>8

\* The neighbours of a pattern are those it shares a variable with.
LEMMA NeighboursOfTP ==
  ASSUME NEW t \in TP
  PROVE  /\ AdjTPs[t] \in Seq(TP)
         /\ \A u \in TP : (u # t /\ SharesVar(t, u)) <=> \E i \in DOMAIN AdjTPs[t] : AdjTPs[t][i] = u
<1>. DEFINE S == {u \in TP : u # t /\ SharesVar(t, u)}
            n == Cardinality(S)
            out == InOrder(S)
<1>1. AdjTPs[t] = out
  BY DEF AdjTPs
<1>2. S \in SUBSET Nat /\ IsFiniteSet(S)
  BY PatternsFinite, FS_Subset
<1>3. S \in SUBSET TP /\ \A u \in TP : u \in S <=> (u # t /\ SharesVar(t, u))
  OBVIOUS
<1>. HIDE DEF S
<1>4. n \in Nat /\ out \in [1 .. n -> S] /\ (\A u \in S : \E i \in 1 .. n : out[i] = u)
  BY <1>2, OrderedIs
<1>. HIDE DEF n, out
<1>5. DOMAIN out = 1 .. n /\ out \in Seq(TP) /\ \A i \in 1 .. n : out[i] \in S
  BY <1>3, <1>4
<1>6. \A u \in TP : (u # t /\ SharesVar(t, u)) <=> \E i \in DOMAIN out : out[i] = u
  BY <1>3, <1>4, <1>5
<1>. QED
  BY <1>1, <1>5, <1>6

\* The variables of a pattern.
LEMMA ListOfTP ==
  ASSUME NEW t \in TP
  PROVE  /\ JvarsOfTP[t] \in Seq(Jvar)
         /\ \A j \in Jvar : Mentions(t, j) <=> \E i \in DOMAIN JvarsOfTP[t] : JvarsOfTP[t][i] = j
<1>. DEFINE seq == JvarSeq
            places == {i \in DOMAIN seq : Mentions(t, seq[i])}
            out == AtPlaces(seq, places)
<1>1. JvarsOfTP[t] = out
  BY DEF JvarsOfTP
<1>2. seq \in Seq(Jvar) /\ \A j \in Jvar : \E i \in DOMAIN seq : seq[i] = j
  BY JvarSeqIs
<1>. HIDE DEF seq
<1>3. places \in SUBSET (DOMAIN seq) /\ \A i \in DOMAIN seq : i \in places <=> Mentions(t, seq[i])
  OBVIOUS
<1>. HIDE DEF places
<1>4. /\ out \in Seq(Jvar)
      /\ \A x : (\E i \in DOMAIN out : out[i] = x) <=> (\E i \in places : seq[i] = x)
  BY <1>2, <1>3, AtPlacesIs
<1>. HIDE DEF out
<1>5. \A j \in Jvar : Mentions(t, j) <=> \E i \in DOMAIN out : out[i] = j
  BY <1>2, <1>3, <1>4
<1>. QED
  BY <1>1, <1>4, <1>5

\* The neighbours of a variable are those it shares a pattern with.
LEMMA NeighboursOfJvar ==
  ASSUME NEW j \in Jvar
  PROVE  /\ AdjJvars[j] \in Seq(Jvar)
         /\ \A m \in Jvar : (m # j /\ \E t \in TP : Mentions(t, j) /\ Mentions(t, m))
                              <=> \E i \in DOMAIN AdjJvars[j] : AdjJvars[j][i] = m
<1>. DEFINE Others(mine) == AtPlaces(mine, {i \in DOMAIN mine : mine[i] # j})
            tps == TPsOfJvar[j]
            lists == [i \in DOMAIN tps |-> Others(JvarsOfTP[tps[i]])]
<1>1. AdjJvars[j] = FlattenSeq(lists)
  BY DEF AdjJvars
<1>2. ASSUME NEW t \in TP
      PROVE  /\ Others(JvarsOfTP[t]) \in Seq(Jvar)
             /\ \A m \in Jvar : (m # j /\ Mentions(t, m))
                  <=> \E i \in DOMAIN Others(JvarsOfTP[t]) : Others(JvarsOfTP[t])[i] = m
  <2>. DEFINE mine == JvarsOfTP[t]
              places == {i \in DOMAIN mine : mine[i] # j}
              out == AtPlaces(mine, places)
  <2>1. mine \in Seq(Jvar) /\ \A m \in Jvar : Mentions(t, m) <=> \E i \in DOMAIN mine : mine[i] = m
    BY ListOfTP
  <2>2. places \in SUBSET (DOMAIN mine) /\ \A i \in DOMAIN mine : i \in places <=> mine[i] # j
    OBVIOUS
  <2>. HIDE DEF mine, places
  <2>3. /\ out \in Seq(Jvar)
        /\ \A x : (\E i \in DOMAIN out : out[i] = x) <=> (\E i \in places : mine[i] = x)
    BY <2>1, <2>2, AtPlacesIs
  <2>4. \A m \in Jvar : (m # j /\ Mentions(t, m)) <=> \E i \in places : mine[i] = m
    BY <2>1, <2>2
  <2>. HIDE DEF out
  <2>5. out \in Seq(Jvar) /\ \A m \in Jvar : (m # j /\ Mentions(t, m)) <=> \E i \in DOMAIN out : out[i] = m
    BY <2>3, <2>4
  <2>. QED
    BY <2>5 DEF out, places, mine
<1>3. /\ tps \in Seq(TP)
      /\ \A t \in TP : Mentions(t, j) <=> \E i \in DOMAIN tps : tps[i] = t
  BY ListOfJvar
<1>. HIDE DEF Others, tps
<1>4. lists \in Seq(Seq(Jvar)) /\ DOMAIN lists = DOMAIN tps
  <2>1. DOMAIN tps = 1 .. Len(tps) /\ Len(tps) \in Nat
    BY <1>3
  <2>2. \A i \in DOMAIN tps : Others(JvarsOfTP[tps[i]]) \in Seq(Jvar)
    BY <1>2, <1>3
  <2>. QED
    BY <2>1, <2>2
<1>5. \A i \in DOMAIN tps : lists[i] = Others(JvarsOfTP[tps[i]]) /\ tps[i] \in TP
  BY <1>3
<1>. HIDE DEF lists
<1>. DEFINE out == FlattenSeq(lists)
<1>6. /\ out \in Seq(Jvar)
      /\ \A x : (\E i \in DOMAIN out : out[i] = x)
                  <=> (\E i \in DOMAIN lists : \E m \in DOMAIN lists[i] : lists[i][m] = x)
  BY <1>4, FlattenIs
<1>. HIDE DEF out
<1>7. ASSUME NEW m \in Jvar
      PROVE  (m # j /\ \E t \in TP : Mentions(t, j) /\ Mentions(t, m)) <=> \E i \in DOMAIN out : out[i] = m
  <2>1. (\E i \in DOMAIN out : out[i] = m) <=> \E i \in DOMAIN tps : m # j /\ Mentions(tps[i], m)
    <3>1. \A i \in DOMAIN tps : (m # j /\ Mentions(tps[i], m)) <=> \E e \in DOMAIN lists[i] : lists[i][e] = m
      BY <1>2, <1>5
    <3>2. (\E i \in DOMAIN out : out[i] = m) <=> \E i \in DOMAIN tps : \E e \in DOMAIN lists[i] : lists[i][e] = m
      BY <1>4, <1>6
    <3>. QED
      BY <3>1, <3>2
  <2>. QED
    BY <1>3, <1>5, <2>1
<1>. QED
  BY <1>1, <1>6, <1>7 DEF out

----------------------------------------------------------------------------
(* spanning_tree.                                                          *)

WalkState(V) == [black : SUBSET V, kids : [V -> Seq(V)], calls : Seq(V)]

IsGraph(V, adj) == IsFiniteSet(V) /\ adj \in [V -> Seq(V)]

\* One step of the recursion goes on with a neighbour that is not coloured, or
\* returns when there is none.
Enters(adj, st, new, n, w) ==
  /\ \E i \in DOMAIN adj[n] : adj[n][i] = w
  /\ w \notin st.black
  /\ new.black = st.black \cup {w}
  /\ new.kids = [st.kids EXCEPT ![n] = Append(@, w)]
  /\ new.calls = Append(st.calls, w)

Leaves(adj, st, new, n) ==
  /\ \A i \in DOMAIN adj[n] : adj[n][i] \in st.black
  /\ new.black = st.black
  /\ new.kids = st.kids
  /\ new.calls = SubSeq(st.calls, 1, Len(st.calls) - 1)

LEMMA StepIs ==
  ASSUME NEW V, NEW adj, IsGraph(V, adj), NEW st \in WalkState(V), st.calls # << >>
  PROVE  /\ DepthFirstStep(adj, st) \in WalkState(V)
         /\ Len(st.calls) \in Nat \ {0} /\ st.calls[Len(st.calls)] \in V
         /\ LET n == st.calls[Len(st.calls)]
            IN \/ Leaves(adj, st, DepthFirstStep(adj, st), n)
               \/ \E w \in V : Enters(adj, st, DepthFirstStep(adj, st), n, w)
<1>. DEFINE n == st.calls[Len(st.calls)]
            white == {i \in DOMAIN adj[n] : adj[n][i] \notin st.black}
            w == adj[n][Min(white)]
            new == DepthFirstStep(adj, st)
<1>1. /\ st.black \in SUBSET V /\ st.kids \in [V -> Seq(V)] /\ st.calls \in Seq(V)
      /\ st = [black |-> st.black, kids |-> st.kids, calls |-> st.calls]
  BY DEF WalkState
<1>2. Len(st.calls) \in Nat \ {0} /\ n \in V
  BY <1>1
<1>3. adj[n] \in Seq(V) /\ DOMAIN adj[n] \subseteq Nat
  <2>1. adj[n] \in Seq(V)
    BY <1>2 DEF IsGraph
  <2>. QED
    BY <2>1
<1>4. new = IF white = {} THEN [st EXCEPT !.calls = Front(@)]
            ELSE [black |-> st.black \cup {w},
                  kids  |-> [st.kids EXCEPT ![n] = Append(@, w)],
                  calls |-> Append(st.calls, w)]
  BY DEF DepthFirstStep, Last
<1>. HIDE DEF n, new
<1>5. CASE white = {}
  <2>. DEFINE front == SubSeq(st.calls, 1, Len(st.calls) - 1)
  <2>1. new = [black |-> st.black, kids |-> st.kids, calls |-> front]
    BY <1>1, <1>4, <1>5 DEF Front
  <2>2. front \in Seq(V)
    BY <1>1, <1>2
  <2>. HIDE DEF front
  <2>3. new \in WalkState(V)
    BY <1>1, <2>1, <2>2 DEF WalkState
  <2>4. new.black = st.black /\ new.kids = st.kids /\ new.calls = front
    BY <2>1
  <2>5. Leaves(adj, st, new, n)
    BY <1>5, <2>4 DEF Leaves, front
  <2>. QED
    BY <1>2, <2>3, <2>5 DEF n, new
<1>6. CASE white # {}
  <2>1. Min(white) \in white
    <3>1. white \in SUBSET Nat
      BY <1>3
    <3>2. \E x \in white : \A y \in white : x <= y
      BY <1>6, <3>1, LeastNat
    <3>. HIDE DEF white
    <3>. QED
      BY <3>2 DEF Min
  <2>2. w \in V /\ w \notin st.black /\ \E i \in DOMAIN adj[n] : adj[n][i] = w
    <3>1. \A i \in DOMAIN adj[n] : adj[n][i] \in V
      BY <1>3
    <3>2. Min(white) \in DOMAIN adj[n] /\ w \notin st.black
      BY <2>1
    <3>. QED
      BY <3>1, <3>2
  <2>3. new = [black |-> st.black \cup {w},
               kids  |-> [st.kids EXCEPT ![n] = Append(@, w)],
               calls |-> Append(st.calls, w)]
    BY <1>4, <1>6
  <2>. HIDE DEF w, white
  <2>4. [st.kids EXCEPT ![n] = Append(@, w)] \in [V -> Seq(V)]
    <3>1. st.kids[n] \in Seq(V)
      BY <1>1, <1>2
    <3>2. Append(st.kids[n], w) \in Seq(V)
      BY <2>2, <3>1
    <3>. QED
      BY <1>1, <3>2
  <2>5. Append(st.calls, w) \in Seq(V) /\ st.black \cup {w} \in SUBSET V
    BY <1>1, <2>2
  <2>6. new \in WalkState(V)
    BY <2>3, <2>4, <2>5 DEF WalkState
  <2>7. Enters(adj, st, new, n, w)
    BY <2>2, <2>3 DEF Enters
  <2>. QED
    BY <1>2, <2>2, <2>6, <2>7 DEF n, new
<1>. QED
  BY <1>5, <1>6

\* The states of the recursion are given step by step.
LEMMA WalkIs ==
  ASSUME NEW V, NEW adj, IsGraph(V, adj), NEW root \in V
  PROVE  LET walk == Walk(adj, root)
             n == 2 * Cardinality(V)
         IN /\ n \in Nat
            /\ walk \in [0 .. n -> WalkState(V)]
            /\ walk[0] = [black |-> {root}, kids |-> [m \in V |-> << >>], calls |-> <<root>>]
            /\ \A i \in 1 .. n :
                 walk[i] = IF walk[i - 1].calls = << >> THEN walk[i - 1]
                           ELSE DepthFirstStep(adj, walk[i - 1])
<1>. DEFINE n == 2 * Cardinality(V)
            S == WalkState(V)
            b == [black |-> {root}, kids |-> [m \in V |-> << >>], calls |-> <<root>>]
            After(st) == IF st.calls = << >> THEN st ELSE DepthFirstStep(adj, st)
            Body(f) == [i \in 0 .. n |-> IF i = 0 THEN b ELSE After(f[i - 1])]
            walk == CHOOSE f : f = Body(f)
            step == [p \in (1 .. n) \X S |-> After(p[2])]
<1>1. n \in Nat /\ DOMAIN adj = V
  <2>1. Cardinality(V) \in Nat
    BY FS_CardinalityType DEF IsGraph
  <2>. QED
    BY <2>1 DEF IsGraph
<1>2. Walk(adj, root) = walk
  BY <1>1 DEF Walk
<1>3. b \in S
  <2>1. [m \in V |-> << >>] \in [V -> Seq(V)] /\ <<root>> \in Seq(V) /\ {root} \in SUBSET V
    OBVIOUS
  <2>. QED
    BY <2>1 DEF WalkState
<1>4. \A st \in S : After(st) \in S
  BY StepIs, Zenon
<1>. HIDE DEF b, S, After, n
<1>5. step \in [(1 .. n) \X S -> S] /\ \A i \in 1 .. n : \A st \in S : step[<<i, st>>] = After(st)
  <2>1. \A p \in (1 .. n) \X S : After(p[2]) \in S
    BY <1>4
  <2>2. step \in [(1 .. n) \X S -> S]
    BY <2>1
  <2>3. \A i \in 1 .. n : \A st \in S : step[<<i, st>>] = After(st)
    OBVIOUS
  <2>. QED
    BY <2>2, <2>3
<1>. HIDE DEF step
<1>6. PICK g : IsSteps(g, n, S, b, step)
  BY <1>1, <1>3, <1>5, Recursion
<1>7. g \in [0 .. n -> S] /\ g[0] = b /\ \A i \in 1 .. n : i - 1 \in 0 .. n /\ g[i] = After(g[i - 1])
  <2>1. g \in [0 .. n -> S] /\ g[0] = b /\ \A i \in 1 .. n : g[i] = step[<<i, g[i - 1]>>]
    BY <1>6 DEF IsSteps
  <2>2. \A i \in 1 .. n : i - 1 \in 0 .. n
    BY <1>1
  <2>3. \A i \in 1 .. n : g[i - 1] \in S
    BY <2>1, <2>2
  <2>. QED
    BY <1>5, <2>1, <2>2, <2>3
<1>8. g = Body(g)
  <2>1. ASSUME NEW i \in 0 .. n PROVE g[i] = IF i = 0 THEN b ELSE After(g[i - 1])
    <3>1. i = 0 \/ i \in 1 .. n
      BY <1>1
    <3>2. i \in 1 .. n => i # 0
      BY <1>1
    <3>. QED
      BY <1>7, <3>1, <3>2
  <2>. QED
    BY <1>7, <2>1
<1>9. walk = Body(walk)
  <2>. HIDE DEF Body
  <2>. QED
    BY <1>8
<1>10. \A i \in 0 .. n : walk[i] = IF i = 0 THEN b ELSE After(walk[i - 1])
  <2>. HIDE DEF walk, Body
  <2>1. \A i \in 0 .. n : Body(walk)[i] = IF i = 0 THEN b ELSE After(walk[i - 1])
    BY DEF Body
  <2>. QED
    BY <1>9, <2>1
<1>11. DOMAIN walk = 0 .. n /\ walk = [i \in 0 .. n |-> walk[i]]
  <2>. HIDE DEF walk, Body
  <2>1. DOMAIN Body(walk) = 0 .. n /\ Body(walk) = [i \in 0 .. n |-> Body(walk)[i]]
    BY DEF Body
  <2>. QED
    BY <1>9, <2>1
<1>. HIDE DEF walk
<1>. DEFINE T == {i \in 0 .. n : walk[i] \in S}
<1>12. \A i \in 0 .. n : i \in T
  <2>1. 0 \in T
    BY <1>1, <1>3, <1>10
  <2>2. ASSUME NEW i \in 1 .. n, i - 1 \in T PROVE i \in T
    <3>1. i \in 0 .. n /\ i # 0
      BY <1>1
    <3>. QED
      BY <1>4, <1>10, <2>2, <3>1
  <2>. HIDE DEF T
  <2>. QED
    BY <1>1, <2>1, <2>2, InductOn
<1>13. walk \in [0 .. n -> S]
  BY <1>11, <1>12
<1>14. walk[0] = b
  BY <1>1, <1>10
<1>15. \A i \in 1 .. n : walk[i] = After(walk[i - 1])
  <2>. SUFFICES ASSUME NEW i \in 1 .. n PROVE walk[i] = After(walk[i - 1])
    OBVIOUS
  <2>1. i \in 0 .. n /\ i # 0
    BY <1>1
  <2>. QED
    BY <1>10, <2>1
<1>. QED
  BY <1>1, <1>2, <1>13, <1>14, <1>15 DEF b, S, After, n

\* The coloured nodes are a tree: each but the root is the child of one node, a
\* neighbour of it, and can be reached from the root.
IsTree(V, adj, root, black, kids) ==
  /\ root \in black
  /\ \A n \in V : \A i \in DOMAIN kids[n] :
       /\ kids[n][i] # root /\ kids[n][i] \in black
       /\ \E l \in DOMAIN adj[n] : adj[n][l] = kids[n][i]
  /\ \A n, m \in V : \A i \in DOMAIN kids[n] : \A l \in DOMAIN kids[m] :
       kids[n][i] = kids[m][l] => n = m /\ i = l
  /\ \A C \in SUBSET V :
       root \in C /\ (\A n \in C : \A i \in DOMAIN kids[n] : kids[n][i] \in C) => black \subseteq C

\* A coloured node is being visited, or has no neighbour that is not coloured.
Visited(adj, st) ==
  /\ \A c \in DOMAIN st.calls : st.calls[c] \in st.black
  /\ \A n \in st.black : \/ \E c \in DOMAIN st.calls : st.calls[c] = n
                         \/ \A i \in DOMAIN adj[n] : adj[n][i] \in st.black

\* The children of a node, with one more.
LEMMA OneMoreChild ==
  ASSUME NEW V, NEW kids \in [V -> Seq(V)], NEW n \in V, NEW w \in V, NEW new,
         new = [kids EXCEPT ![n] = Append(@, w)]
  PROVE  /\ \A m \in V \ {n} : new[m] = kids[m]
         /\ DOMAIN new[n] = DOMAIN kids[n] \cup {Len(kids[n]) + 1}
         /\ Len(kids[n]) + 1 \notin DOMAIN kids[n]
         /\ new[n][Len(kids[n]) + 1] = w
         /\ \A i \in DOMAIN kids[n] : new[n][i] = kids[n][i]
<1>. DEFINE old == kids[n]
<1>1. old \in Seq(V) /\ new[n] = Append(old, w)
  OBVIOUS
<1>. HIDE DEF old
<1>2. Len(old) \in Nat /\ DOMAIN old = 1 .. Len(old)
  BY <1>1
<1>3. DOMAIN Append(old, w) = 1 .. Len(old) + 1
  BY <1>1
<1>4. 1 .. Len(old) + 1 = (1 .. Len(old)) \cup {Len(old) + 1} /\ Len(old) + 1 \notin 1 .. Len(old)
  BY <1>2
<1>5. \A i \in 1 .. Len(old) : Append(old, w)[i] = old[i]
  BY <1>1
<1>6. Append(old, w)[Len(old) + 1] = w
  BY <1>1
<1>. QED
  BY <1>1, <1>2, <1>3, <1>4, <1>5, <1>6 DEF old

LEMMA TreeGrows ==
  ASSUME NEW V, NEW adj, IsGraph(V, adj), NEW root \in V, NEW black \in SUBSET V,
         NEW kids \in [V -> Seq(V)], IsTree(V, adj, root, black, kids),
         NEW n \in black, NEW w \in V, w \notin black, \E l \in DOMAIN adj[n] : adj[n][l] = w,
         NEW new, new = [kids EXCEPT ![n] = Append(@, w)]
  PROVE  IsTree(V, adj, root, black \cup {w}, new)
<1>. DEFINE last == Len(kids[n]) + 1
<1>0. n \in V
  OBVIOUS
<1>1. /\ \A m \in V \ {n} : new[m] = kids[m]
      /\ DOMAIN new[n] = DOMAIN kids[n] \cup {last} /\ last \notin DOMAIN kids[n]
      /\ new[n][last] = w
      /\ \A i \in DOMAIN kids[n] : new[n][i] = kids[n][i]
  BY <1>0, OneMoreChild
<1>. HIDE DEF last
<1>2. \A m \in V : \A i \in DOMAIN new[m] :
        (i \in DOMAIN kids[m] /\ new[m][i] = kids[m][i]) \/ (m = n /\ i = last /\ new[m][i] = w)
  BY <1>1
<1>3. \A m \in V : \A i \in DOMAIN kids[m] : i \in DOMAIN new[m] /\ new[m][i] = kids[m][i]
  BY <1>1
<1>4. /\ root \in black /\ w # root
      /\ \A m \in V : \A i \in DOMAIN kids[m] :
           /\ kids[m][i] # root /\ kids[m][i] \in black
           /\ \E l \in DOMAIN adj[m] : adj[m][l] = kids[m][i]
      /\ \A m, v \in V : \A i \in DOMAIN kids[m] : \A l \in DOMAIN kids[v] :
           kids[m][i] = kids[v][l] => m = v /\ i = l
  BY DEF IsTree
<1>5. \A C \in SUBSET V :
        root \in C /\ (\A m \in C : \A i \in DOMAIN kids[m] : kids[m][i] \in C) => black \subseteq C
  BY DEF IsTree
<1>6. ASSUME NEW m \in V, NEW i \in DOMAIN new[m]
      PROVE  /\ new[m][i] # root /\ new[m][i] \in black \cup {w}
             /\ \E l \in DOMAIN adj[m] : adj[m][l] = new[m][i]
  <2>1. CASE i \in DOMAIN kids[m] /\ new[m][i] = kids[m][i]
    <3>1. kids[m][i] # root /\ kids[m][i] \in black /\ \E l \in DOMAIN adj[m] : adj[m][l] = kids[m][i]
      BY <1>4, <2>1
    <3>. QED
      BY <2>1, <3>1
  <2>2. CASE m = n /\ i = last /\ new[m][i] = w
    BY <1>4, <2>2
  <2>. QED
    BY <1>2, <2>1, <2>2
<1>7. ASSUME NEW m \in V, NEW v \in V, NEW i \in DOMAIN new[m], NEW l \in DOMAIN new[v],
             new[m][i] = new[v][l]
      PROVE  m = v /\ i = l
  <2>1. CASE i \in DOMAIN kids[m] /\ new[m][i] = kids[m][i]
    <3>1. new[v][l] # w
      BY <1>4, <1>7, <2>1
    <3>2. l \in DOMAIN kids[v] /\ new[v][l] = kids[v][l]
      BY <1>2, <3>1
    <3>3. kids[m][i] = kids[v][l]
      BY <1>7, <2>1, <3>2
    <3>. QED
      BY <1>4, <2>1, <3>2, <3>3
  <2>2. CASE m = n /\ i = last /\ new[m][i] = w
    <3>1. ~(l \in DOMAIN kids[v] /\ new[v][l] = kids[v][l])
      BY <1>4, <1>7, <2>2
    <3>. QED
      BY <1>2, <2>2, <3>1
  <2>. QED
    BY <1>2, <2>1, <2>2
<1>8. ASSUME NEW C \in SUBSET V, root \in C, \A m \in C : \A i \in DOMAIN new[m] : new[m][i] \in C
      PROVE  black \cup {w} \subseteq C
  <2>1. \A m \in C : \A i \in DOMAIN kids[m] : kids[m][i] \in C
    BY <1>3, <1>8
  <2>2. black \subseteq C
    BY <1>5, <1>8, <2>1
  <2>3. new[n][last] \in C
    BY <1>1, <1>8, <2>2
  <2>. QED
    BY <1>1, <2>2, <2>3
<1>. QED
  BY <1>4, <1>6, <1>7, <1>8 DEF IsTree

\* One step keeps the tree, and takes the count of steps along.
LEMMA StepKeeps ==
  ASSUME NEW V, NEW adj, IsGraph(V, adj), NEW root \in V, NEW st \in WalkState(V), st.calls # << >>,
         IsTree(V, adj, root, st.black, st.kids), Visited(adj, st),
         NEW new, new = DepthFirstStep(adj, st)
  PROVE  /\ IsTree(V, adj, root, new.black, new.kids) /\ Visited(adj, new)
         /\ 2 * Cardinality(new.black) - Len(new.calls) = 2 * Cardinality(st.black) - Len(st.calls) + 1
<1>. DEFINE n == st.calls[Len(st.calls)]
<1>1. st.black \in SUBSET V /\ st.kids \in [V -> Seq(V)] /\ st.calls \in Seq(V)
  BY DEF WalkState
<1>2. Len(st.calls) \in Nat \ {0} /\ n \in V /\ DOMAIN st.calls = 1 .. Len(st.calls)
  BY <1>1
<1>3. n \in st.black
  BY <1>2 DEF Visited
<1>4. IsFiniteSet(st.black) /\ Cardinality(st.black) \in Nat
  BY <1>1, FS_Subset, FS_CardinalityType DEF IsGraph
<1>5. Leaves(adj, st, new, n) \/ \E w \in V : Enters(adj, st, new, n, w)
  BY StepIs
<1>. HIDE DEF n
<1>6. CASE Leaves(adj, st, new, n)
  <2>1. /\ \A i \in DOMAIN adj[n] : adj[n][i] \in st.black
        /\ new.black = st.black /\ new.kids = st.kids
        /\ new.calls = SubSeq(st.calls, 1, Len(st.calls) - 1)
    BY <1>6 DEF Leaves
  <2>. DEFINE s == st.calls
  <2>2. s \in Seq(V) /\ Len(s) \in Nat \ {0} /\ n = s[Len(s)] /\ DOMAIN s = 1 .. Len(s)
    BY <1>1, <1>2 DEF n
  <2>3. new.calls = SubSeq(s, 1, Len(s) - 1)
    BY <2>1
  <2>. HIDE DEF s
  <2>4. /\ Len(new.calls) = Len(s) - 1 /\ DOMAIN new.calls = 1 .. Len(s) - 1
        /\ \A c \in 1 .. Len(s) - 1 : new.calls[c] = s[c]
    BY <2>2, <2>3
  <2>5. \A c \in 1 .. Len(s) - 1 : c \in DOMAIN s
    BY <2>2
  <2>6. \A c \in DOMAIN s : c \in DOMAIN new.calls \/ c = Len(s)
    <3>1. \A c \in 1 .. Len(s) : c \in 1 .. Len(s) - 1 \/ c = Len(s)
      <4>1. Len(s) \in Nat
        BY <2>2
      <4>. QED
        BY <4>1
    <3>. QED
      BY <2>2, <2>4, <3>1
  <2>7. Visited(adj, new)
    <3>1. \A c \in DOMAIN s : s[c] \in st.black
      BY DEF Visited, s
    <3>2. \A m \in st.black : (\E c \in DOMAIN s : s[c] = m) \/ \A i \in DOMAIN adj[m] : adj[m][i] \in st.black
      BY DEF Visited, s
    <3>3. \A c \in DOMAIN new.calls : new.calls[c] \in new.black
      BY <2>1, <2>4, <2>5, <3>1
    <3>4. ASSUME NEW m \in new.black
          PROVE  (\E c \in DOMAIN new.calls : new.calls[c] = m) \/ \A i \in DOMAIN adj[m] : adj[m][i] \in new.black
      <4>1. CASE m = n
        BY <2>1, <4>1
      <4>2. CASE m # n
        BY <2>1, <2>2, <2>4, <2>6, <3>2, <4>2
      <4>. QED
        BY <4>1, <4>2
    <3>. QED
      BY <3>3, <3>4 DEF Visited
  <2>8. Len(new.calls) = Len(st.calls) - 1
    BY <2>4 DEF s
  <2>. QED
    BY <1>2, <1>4, <2>1, <2>7, <2>8
<1>7. ASSUME NEW w \in V, Enters(adj, st, new, n, w)
      PROVE  /\ IsTree(V, adj, root, new.black, new.kids) /\ Visited(adj, new)
             /\ 2 * Cardinality(new.black) - Len(new.calls) = 2 * Cardinality(st.black) - Len(st.calls) + 1
  <2>1. /\ \E i \in DOMAIN adj[n] : adj[n][i] = w
        /\ w \notin st.black
        /\ new.black = st.black \cup {w}
        /\ new.kids = [st.kids EXCEPT ![n] = Append(@, w)]
        /\ new.calls = Append(st.calls, w)
    BY <1>7 DEF Enters
  <2>2. IsTree(V, adj, root, new.black, new.kids)
    <3>. DEFINE black == st.black
                kids == st.kids
                more == new.kids
    <3>0. \E l \in DOMAIN adj[n] : adj[n][l] = w
      BY <2>1
    <3>1. /\ black \in SUBSET V /\ kids \in [V -> Seq(V)] /\ IsTree(V, adj, root, black, kids)
          /\ n \in black /\ w \notin black
          /\ new.black = black \cup {w} /\ more = [kids EXCEPT ![n] = Append(@, w)]
      BY <1>1, <1>3, <2>1
    <3>. HIDE DEF black, kids, more
    <3>2. IsTree(V, adj, root, black \cup {w}, more)
      BY <3>0, <3>1, TreeGrows
    <3>. QED
      BY <3>1, <3>2 DEF more
  <2>3. Cardinality(new.black) = Cardinality(st.black) + 1
    BY <1>4, <2>1, FS_AddElement
  <2>4. Len(new.calls) = Len(st.calls) + 1
    BY <1>1, <2>1
  <2>. DEFINE s == st.calls
  <2>5. s \in Seq(V) /\ new.calls = Append(s, w) /\ Len(s) \in Nat
    BY <1>1, <2>1
  <2>. HIDE DEF s
  <2>6. /\ DOMAIN new.calls = 1 .. Len(s) + 1 /\ DOMAIN s = 1 .. Len(s)
        /\ \A c \in 1 .. Len(s) : new.calls[c] = s[c]
        /\ new.calls[Len(s) + 1] = w
    BY <2>5
  <2>7. Visited(adj, new)
    <3>1. \A c \in DOMAIN s : s[c] \in st.black
      BY DEF Visited, s
    <3>2. \A m \in st.black : (\E c \in DOMAIN s : s[c] = m) \/ \A i \in DOMAIN adj[m] : adj[m][i] \in st.black
      BY DEF Visited, s
    <3>3. \A c \in DOMAIN new.calls : c \in DOMAIN s \/ c = Len(s) + 1
      BY <2>5, <2>6
    <3>4. (\A c \in DOMAIN s : c \in DOMAIN new.calls) /\ Len(s) + 1 \in DOMAIN new.calls
      BY <2>5, <2>6
    <3>5. \A c \in DOMAIN new.calls : new.calls[c] \in new.black
      BY <2>1, <2>6, <3>1, <3>3
    <3>6. ASSUME NEW m \in new.black
          PROVE  (\E c \in DOMAIN new.calls : new.calls[c] = m) \/ \A i \in DOMAIN adj[m] : adj[m][i] \in new.black
      <4>1. CASE m = w
        BY <2>6, <3>4, <4>1
      <4>2. CASE m # w
        BY <2>1, <2>6, <3>2, <3>4, <4>2
      <4>. QED
        BY <4>1, <4>2
    <3>. QED
      BY <3>5, <3>6 DEF Visited
  <2>8. Len(st.calls) \in Nat
    BY <1>2
  <2>. QED
    BY <1>4, <2>2, <2>3, <2>4, <2>7, <2>8
<1>. QED
  BY <1>5, <1>6, <1>7

\* spanning_tree colours the nodes that can be reached from the root, and the tree
\* edges it records make a tree of them.
THEOREM SpanningTreeIs ==
  ASSUME NEW V, NEW adj, IsGraph(V, adj), NEW root \in V
  PROVE  /\ SpanningTree(adj, root) \in [V -> Seq(V)]
         /\ \E black \in SUBSET V :
              /\ IsTree(V, adj, root, black, SpanningTree(adj, root))
              /\ \A n \in black : \A i \in DOMAIN adj[n] : adj[n][i] \in black
<1>. DEFINE walk == Walk(adj, root)
            n == 2 * Cardinality(V)
            Good(st, i) == /\ IsTree(V, adj, root, st.black, st.kids) /\ Visited(adj, st)
                           /\ st.calls = << >> \/ i = 2 * Cardinality(st.black) - 1 - Len(st.calls)
            T == {i \in 0 .. n : Good(walk[i], i)}
<1>1. /\ n \in Nat
      /\ walk \in [0 .. n -> WalkState(V)]
      /\ walk[0] = [black |-> {root}, kids |-> [m \in V |-> << >>], calls |-> <<root>>]
      /\ \A i \in 1 .. n :
           walk[i] = IF walk[i - 1].calls = << >> THEN walk[i - 1] ELSE DepthFirstStep(adj, walk[i - 1])
  BY WalkIs, Zenon
<1>2. SpanningTree(adj, root) = walk[n].kids
  BY DEF SpanningTree, IsGraph
<1>. HIDE DEF walk, n
<1>3. 0 \in T
  <2>. DEFINE st == walk[0]
  <2>1. st.black = {root} /\ st.kids = [m \in V |-> << >>] /\ st.calls = <<root>>
    BY <1>1
  <2>2. \A m \in V : st.kids[m] = << >> /\ DOMAIN st.kids[m] = {}
    BY <2>1
  <2>. HIDE DEF st
  <2>3. IsTree(V, adj, root, st.black, st.kids)
    BY <2>1, <2>2 DEF IsTree
  <2>4. DOMAIN st.calls = {1} /\ st.calls[1] = root /\ Len(st.calls) = 1
    BY <2>1
  <2>5. Visited(adj, st)
    BY <2>1, <2>4 DEF Visited
  <2>6. Cardinality(st.black) = 1
    BY <2>1, FS_Singleton
  <2>7. Good(st, 0)
    BY <2>3, <2>4, <2>5, <2>6
  <2>8. 0 \in 0 .. n
    BY <1>1
  <2>. QED
    BY <2>7, <2>8 DEF st
<1>4. ASSUME NEW i \in 1 .. n, i - 1 \in T
      PROVE  i \in T
  <2>. DEFINE st == walk[i - 1]
  <2>1. i \in 0 .. n /\ i - 1 \in 0 .. n /\ Good(st, i - 1)
    BY <1>1, <1>4
  <2>2. st \in WalkState(V) /\ walk[i] = IF st.calls = << >> THEN st ELSE DepthFirstStep(adj, st)
    BY <1>1, <2>1
  <2>. HIDE DEF st
  <2>3. CASE st.calls = << >>
    <3>1. walk[i] = st
      BY <2>2, <2>3
    <3>. QED
      BY <2>1, <2>3, <3>1
  <2>4. CASE st.calls # << >>
    <3>. DEFINE new == walk[i]
    <3>1. new = DepthFirstStep(adj, st)
      BY <2>2, <2>4
    <3>2. new \in WalkState(V)
      BY <1>1, <2>1
    <3>. HIDE DEF new
    <3>3. /\ IsTree(V, adj, root, new.black, new.kids) /\ Visited(adj, new)
          /\ 2 * Cardinality(new.black) - Len(new.calls) = 2 * Cardinality(st.black) - Len(st.calls) + 1
      BY <2>1, <2>2, <2>4, <3>1, StepKeeps
    <3>4. i - 1 = 2 * Cardinality(st.black) - 1 - Len(st.calls)
      BY <2>1, <2>4
    <3>5. /\ Cardinality(new.black) \in Nat /\ Cardinality(st.black) \in Nat
          /\ Len(new.calls) \in Nat /\ Len(st.calls) \in Nat
      <4>1. new.black \in SUBSET V /\ st.black \in SUBSET V /\ new.calls \in Seq(V) /\ st.calls \in Seq(V)
        BY <2>2, <3>2 DEF WalkState
      <4>. QED
        BY <4>1, FS_Subset, FS_CardinalityType DEF IsGraph
    <3>6. i = 2 * Cardinality(new.black) - 1 - Len(new.calls)
      <4>. DEFINE a == Cardinality(new.black)
                  b == Cardinality(st.black)
                  c == Len(new.calls)
                  d == Len(st.calls)
      <4>1. a \in Nat /\ b \in Nat /\ c \in Nat /\ d \in Nat /\ i \in Int
        BY <1>1, <3>5
      <4>2. 2 * a - c = 2 * b - d + 1 /\ i - 1 = 2 * b - 1 - d
        BY <3>3, <3>4
      <4>. HIDE DEF a, b, c, d
      <4>3. i = 2 * a - 1 - c
        BY <4>1, <4>2
      <4>. QED
        BY <4>3 DEF a, c
    <3>7. Good(new, i)
      BY <3>3, <3>6
    <3>. QED
      BY <2>1, <3>7 DEF new
  <2>. QED
    BY <2>3, <2>4
<1>5. n \in T
  <2>. HIDE DEF T
  <2>1. \A i \in 0 .. n : i \in T
    BY <1>1, <1>3, <1>4, InductOn
  <2>. QED
    BY <1>1, <2>1
<1>. DEFINE st == walk[n]
<1>6. st \in WalkState(V) /\ Good(st, n)
  BY <1>1, <1>5
<1>. HIDE DEF st, T
<1>7. st.black \in SUBSET V /\ st.kids \in [V -> Seq(V)] /\ st.calls \in Seq(V)
  BY <1>6 DEF WalkState
<1>8. st.calls = << >>
  <2>1. Cardinality(st.black) \in Nat /\ Cardinality(V) \in Nat /\ Cardinality(st.black) <= Cardinality(V)
    BY <1>7, FS_Subset, FS_CardinalityType DEF IsGraph
  <2>2. Len(st.calls) \in Nat
    BY <1>7
  <2>3. n # 2 * Cardinality(st.black) - 1 - Len(st.calls)
    BY <2>1, <2>2 DEF n
  <2>. QED
    BY <1>6, <2>3
<1>9. \A m \in st.black : \A i \in DOMAIN adj[m] : adj[m][i] \in st.black
  <2>1. DOMAIN st.calls = {}
    BY <1>8
  <2>. QED
    BY <1>6, <2>1 DEF Visited
<1>. QED
  BY <1>2, <1>6, <1>7, <1>9 DEF st

----------------------------------------------------------------------------
(* tree_bfs.                                                               *)

\* The queue after one more node is taken from it.
NextQueue(kids, q, i) == IF i > Len(q) THEN q ELSE q \o kids[q[i]]

LEMMA QueuesIs ==
  ASSUME NEW V, IsFiniteSet(V), NEW kids \in [V -> Seq(V)], NEW root \in V
  PROVE  LET queue == Queues(kids, root)
             n == Cardinality(V)
         IN /\ n \in Nat
            /\ queue \in [0 .. n -> Seq(V)] /\ queue[0] = <<root>>
            /\ \A i \in 1 .. n : queue[i] = NextQueue(kids, queue[i - 1], i)
<1>. DEFINE n == Cardinality(V)
            S == Seq(V)
            b == <<root>>
            After(i, q) == NextQueue(kids, q, i)
            Body(f) == [i \in 0 .. n |-> IF i = 0 THEN b ELSE After(i, f[i - 1])]
            queue == CHOOSE f : f = Body(f)
            step == [p \in (1 .. n) \X S |-> After(p[1], p[2])]
<1>1. n \in Nat /\ DOMAIN kids = V
  BY FS_CardinalityType
<1>2. Queues(kids, root) = queue
  BY <1>1 DEF Queues, NextQueue
<1>3. b \in S
  OBVIOUS
<1>4. ASSUME NEW i \in 1 .. n, NEW q \in S PROVE After(i, q) \in S
  <2>1. CASE i > Len(q)
    BY <2>1 DEF NextQueue
  <2>2. CASE ~(i > Len(q))
    <3>1. i \in 1 .. Len(q)
      BY <2>2
    <3>2. q[i] \in V
      BY <3>1
    <3>3. kids[q[i]] \in S
      BY <3>2
    <3>. HIDE DEF S
    <3>4. q \o kids[q[i]] \in S
      BY <3>3, ConcatProperties DEF S
    <3>. QED
      BY <2>2, <3>4 DEF NextQueue
  <2>. QED
    BY <2>1, <2>2
<1>. HIDE DEF b, S, After, n
<1>5. step \in [(1 .. n) \X S -> S] /\ \A i \in 1 .. n : \A q \in S : step[<<i, q>>] = After(i, q)
  <2>1. \A p \in (1 .. n) \X S : After(p[1], p[2]) \in S
    BY <1>4
  <2>2. step \in [(1 .. n) \X S -> S]
    BY <2>1
  <2>3. \A i \in 1 .. n : \A q \in S : step[<<i, q>>] = After(i, q)
    OBVIOUS
  <2>. QED
    BY <2>2, <2>3
<1>. HIDE DEF step
<1>6. PICK g : IsSteps(g, n, S, b, step)
  BY <1>1, <1>3, <1>5, Recursion
<1>7. g \in [0 .. n -> S] /\ g[0] = b /\ \A i \in 1 .. n : i - 1 \in 0 .. n /\ g[i] = After(i, g[i - 1])
  <2>1. g \in [0 .. n -> S] /\ g[0] = b /\ \A i \in 1 .. n : g[i] = step[<<i, g[i - 1]>>]
    BY <1>6 DEF IsSteps
  <2>2. \A i \in 1 .. n : i - 1 \in 0 .. n
    BY <1>1
  <2>3. \A i \in 1 .. n : g[i - 1] \in S
    BY <2>1, <2>2
  <2>. QED
    BY <1>5, <2>1, <2>2, <2>3
<1>8. g = Body(g)
  <2>1. ASSUME NEW i \in 0 .. n PROVE g[i] = IF i = 0 THEN b ELSE After(i, g[i - 1])
    <3>1. i = 0 \/ i \in 1 .. n
      BY <1>1
    <3>2. i \in 1 .. n => i # 0
      BY <1>1
    <3>. QED
      BY <1>7, <3>1, <3>2
  <2>. QED
    BY <1>7, <2>1
<1>9. queue = Body(queue)
  <2>. HIDE DEF Body
  <2>. QED
    BY <1>8
<1>10. \A i \in 0 .. n : queue[i] = IF i = 0 THEN b ELSE After(i, queue[i - 1])
  <2>. HIDE DEF queue, Body
  <2>1. \A i \in 0 .. n : Body(queue)[i] = IF i = 0 THEN b ELSE After(i, queue[i - 1])
    BY DEF Body
  <2>. QED
    BY <1>9, <2>1
<1>11. DOMAIN queue = 0 .. n /\ queue = [i \in 0 .. n |-> queue[i]]
  <2>. HIDE DEF queue, Body
  <2>1. DOMAIN Body(queue) = 0 .. n /\ Body(queue) = [i \in 0 .. n |-> Body(queue)[i]]
    BY DEF Body
  <2>. QED
    BY <1>9, <2>1
<1>. HIDE DEF queue
<1>. DEFINE T == {i \in 0 .. n : queue[i] \in S}
<1>12. \A i \in 0 .. n : i \in T
  <2>1. 0 \in T
    BY <1>1, <1>3, <1>10
  <2>2. ASSUME NEW i \in 1 .. n, i - 1 \in T PROVE i \in T
    <3>1. i \in 0 .. n /\ i # 0
      BY <1>1
    <3>. QED
      BY <1>4, <1>10, <2>2, <3>1
  <2>. HIDE DEF T
  <2>. QED
    BY <1>1, <2>1, <2>2, InductOn
<1>13. queue \in [0 .. n -> S]
  BY <1>11, <1>12
<1>14. queue[0] = b
  BY <1>1, <1>10
<1>15. \A i \in 1 .. n : queue[i] = After(i, queue[i - 1])
  <2>. SUFFICES ASSUME NEW i \in 1 .. n PROVE queue[i] = After(i, queue[i - 1])
    OBVIOUS
  <2>1. i \in 0 .. n /\ i # 0
    BY <1>1
  <2>. QED
    BY <1>10, <2>1
<1>. QED
  BY <1>1, <1>2, <1>13, <1>14, <1>15 DEF b, S, After, n

\* The queue has each node once, and each but the root behind its parent, which has
\* been taken; the children of the nodes taken are in it.
IsQueue(kids, root, q, i) ==
  /\ Len(q) >= 1 /\ q[1] = root
  /\ \A p, r \in DOMAIN q : q[p] = q[r] => p = r
  /\ \A p \in DOMAIN q \ {1} : \E m \in DOMAIN q :
       m < p /\ m <= i /\ \E l \in DOMAIN kids[q[m]] : kids[q[m]][l] = q[p]
  /\ \A m \in DOMAIN q : m <= i => \A l \in DOMAIN kids[q[m]] : \E p \in DOMAIN q : q[p] = kids[q[m]][l]

LEMMA QueueGrows ==
  ASSUME NEW V, NEW adj, NEW root \in V, NEW kids \in [V -> Seq(V)], IsTree(V, adj, root, V, kids),
         NEW q \in Seq(V), NEW i \in Nat \ {0}, IsQueue(kids, root, q, i - 1), i <= Len(q)
  PROVE  IsQueue(kids, root, q \o kids[q[i]], i)
<1>. DEFINE n == q[i]
            add == kids[n]
            new == q \o add
<1>1. i \in DOMAIN q /\ n \in V /\ add \in Seq(V) /\ Len(q) \in Nat /\ DOMAIN q = 1 .. Len(q)
  <2>1. Len(q) \in Nat /\ DOMAIN q = 1 .. Len(q) /\ i \in 1 .. Len(q)
    OBVIOUS
  <2>2. n \in V
    BY <2>1
  <2>. QED
    BY <2>1, <2>2
<1>2. \A p \in DOMAIN q : q[p] \in V
  OBVIOUS
<1>. HIDE DEF n, add
<1>3. /\ DOMAIN add = 1 .. Len(add) /\ Len(add) \in Nat
      /\ new \in Seq(V) /\ DOMAIN new = 1 .. Len(q) + Len(add) /\ Len(new) = Len(q) + Len(add)
      /\ \A p \in 1 .. Len(q) : new[p] = q[p]
      /\ \A a \in 1 .. Len(add) : new[Len(q) + a] = add[a]
  <2>1. add \in Seq(V) /\ q \in Seq(V)
    BY <1>1
  <2>2. DOMAIN add = 1 .. Len(add) /\ Len(add) \in Nat
    BY <2>1
  <2>3. new \in Seq(V) /\ Len(new) = Len(q) + Len(add)
    BY <2>1
  <2>4. DOMAIN new = 1 .. Len(q) + Len(add)
    BY <2>1
  <2>5. \A p \in 1 .. Len(q) : new[p] = q[p]
    BY <2>1
  <2>6. \A a \in 1 .. Len(add) : new[Len(q) + a] = add[a]
    BY <2>1
  <2>. QED
    BY <2>2, <2>3, <2>4, <2>5, <2>6
<1>. HIDE DEF new
<1>4. \A p \in DOMAIN q : p \in DOMAIN new /\ new[p] = q[p]
  BY <1>1, <1>3
<1>5. \A a \in DOMAIN add : Len(q) + a \in DOMAIN new /\ new[Len(q) + a] = add[a] /\ Len(q) + a > Len(q)
  <2>. SUFFICES ASSUME NEW a \in DOMAIN add
                PROVE  Len(q) + a \in DOMAIN new /\ new[Len(q) + a] = add[a] /\ Len(q) + a > Len(q)
    OBVIOUS
  <2>. DEFINE b == Len(q)
              c == Len(add)
  <2>1. b \in Nat /\ c \in Nat /\ a \in 1 .. c
    BY <1>1, <1>3
  <2>. HIDE DEF b, c
  <2>2. b + a \in 1 .. b + c /\ b + a > b
    BY <2>1
  <2>. QED
    BY <1>3, <2>1, <2>2 DEF b, c
<1>6. \A p \in DOMAIN new : p \in DOMAIN q \/ \E a \in DOMAIN add : p = Len(q) + a
  <2>. SUFFICES ASSUME NEW p \in DOMAIN new, p \notin DOMAIN q PROVE \E a \in DOMAIN add : p = Len(q) + a
    OBVIOUS
  <2>. DEFINE b == Len(q)
              c == Len(add)
  <2>0. b \in Nat /\ c \in Nat /\ p \in 1 .. b + c /\ p \notin 1 .. b
    BY <1>1, <1>3
  <2>. HIDE DEF b, c
  <2>a. p - b \in 1 .. c /\ p = b + (p - b)
    BY <2>0
  <2>1. p - Len(q) \in 1 .. Len(add) /\ p = Len(q) + (p - Len(q))
    BY <2>a DEF b, c
  <2>. QED
    BY <1>3, <2>1
<1>7. /\ \A m \in V : \A l \in DOMAIN kids[m] : kids[m][l] # root
      /\ \A m, v \in V : \A e \in DOMAIN kids[m] : \A l \in DOMAIN kids[v] :
           kids[m][e] = kids[v][l] => m = v /\ e = l
  BY DEF IsTree
<1>8. /\ Len(q) >= 1 /\ q[1] = root
      /\ \A p, r \in DOMAIN q : q[p] = q[r] => p = r
      /\ \A p \in DOMAIN q \ {1} : \E m \in DOMAIN q :
           m < p /\ m <= i - 1 /\ \E l \in DOMAIN kids[q[m]] : kids[q[m]][l] = q[p]
      /\ \A m \in DOMAIN q : m <= i - 1 => \A l \in DOMAIN kids[q[m]] : \E p \in DOMAIN q : q[p] = kids[q[m]][l]
  BY DEF IsQueue
<1>9. ASSUME NEW a \in DOMAIN add, NEW p \in DOMAIN q
      PROVE  add[a] # q[p]
  <2>1. CASE p = 1
    BY <1>1, <1>7, <1>8, <2>1 DEF add
  <2>2. CASE p # 1
    <3>1. PICK m \in DOMAIN q : m < p /\ m <= i - 1 /\ \E l \in DOMAIN kids[q[m]] : kids[q[m]][l] = q[p]
      BY <1>8, <2>2
    <3>2. m # i /\ q[m] # n
      <4>1. m # i
        BY <3>1
      <4>. QED
        BY <1>1, <1>8, <4>1 DEF n
    <3>3. PICK l \in DOMAIN kids[q[m]] : kids[q[m]][l] = q[p]
      BY <3>1
    <3>4. q[m] \in V
      BY <1>2
    <3>. QED
      BY <1>1, <1>7, <3>2, <3>3, <3>4 DEF add
  <2>. QED
    BY <2>1, <2>2
<1>10. ASSUME NEW a \in DOMAIN add, NEW c \in DOMAIN add, add[a] = add[c]
       PROVE  a = c
  BY <1>1, <1>7, <1>10 DEF add
<1>11. ASSUME NEW p \in DOMAIN new, NEW r \in DOMAIN new, new[p] = new[r]
       PROVE  p = r
  <2>1. CASE p \in DOMAIN q /\ r \in DOMAIN q
    BY <1>4, <1>8, <1>11, <2>1
  <2>2. CASE p \in DOMAIN q /\ r \notin DOMAIN q
    BY <1>4, <1>5, <1>6, <1>9, <1>11, <2>2
  <2>3. CASE p \notin DOMAIN q /\ r \in DOMAIN q
    BY <1>4, <1>5, <1>6, <1>9, <1>11, <2>3
  <2>4. CASE p \notin DOMAIN q /\ r \notin DOMAIN q
    BY <1>5, <1>6, <1>10, <1>11, <2>4
  <2>. QED
    BY <2>1, <2>2, <2>3, <2>4
<1>12. ASSUME NEW p \in DOMAIN new \ {1}
       PROVE  \E m \in DOMAIN new :
                m < p /\ m <= i /\ \E l \in DOMAIN kids[new[m]] : kids[new[m]][l] = new[p]
  <2>1. CASE p \in DOMAIN q
    <3>1. PICK m \in DOMAIN q : m < p /\ m <= i - 1 /\ \E l \in DOMAIN kids[q[m]] : kids[q[m]][l] = q[p]
      BY <1>8, <2>1
    <3>2. m <= i
      BY <1>1, <3>1
    <3>3. m \in DOMAIN new /\ new[m] = q[m] /\ new[p] = q[p]
      BY <1>4, <2>1
    <3>. QED
      BY <3>1, <3>2, <3>3
  <2>2. CASE p \notin DOMAIN q
    <3>1. PICK a \in DOMAIN add : p = Len(q) + a
      BY <1>6, <2>2
    <3>2. new[p] = add[a] /\ p > Len(q)
      BY <1>5, <3>1
    <3>3. i \in DOMAIN new /\ new[i] = n /\ i < p
      <4>1. i \in DOMAIN new /\ new[i] = n
        BY <1>1, <1>4 DEF n
      <4>2. i < p
        BY <1>1, <1>3, <3>2
      <4>. QED
        BY <4>1, <4>2
    <3>4. i <= i
      OBVIOUS
    <3>. QED
      BY <3>2, <3>3, <3>4 DEF add
  <2>. QED
    BY <2>1, <2>2
<1>13. ASSUME NEW m \in DOMAIN new, m <= i, NEW l \in DOMAIN kids[new[m]]
       PROVE  \E p \in DOMAIN new : new[p] = kids[new[m]][l]
  <2>1. m \in DOMAIN q /\ new[m] = q[m]
    <3>1. m \in DOMAIN q
      BY <1>1, <1>3, <1>13
    <3>. QED
      BY <1>4, <3>1
  <2>2. CASE m = i
    <3>1. new[m] = n
      BY <2>1, <2>2 DEF n
    <3>2. l \in DOMAIN add /\ kids[new[m]][l] = add[l]
      BY <3>1, <1>13 DEF add
    <3>. QED
      BY <1>5, <3>2
  <2>3. CASE m # i
    <3>1. m <= i - 1
      BY <1>1, <1>13, <2>1, <2>3
    <3>2. PICK p \in DOMAIN q : q[p] = kids[q[m]][l]
      BY <1>8, <1>13, <2>1, <3>1
    <3>. QED
      BY <1>4, <2>1, <3>2
  <2>. QED
    BY <2>2, <2>3
<1>14. Len(new) >= 1 /\ new[1] = root
  <2>1. 1 \in DOMAIN q
    BY <1>1, <1>8
  <2>2. new[1] = root
    BY <1>4, <1>8, <2>1
  <2>3. Len(new) >= 1
    BY <1>1, <1>3, <1>8
  <2>. QED
    BY <2>2, <2>3
<1>15. IsQueue(kids, root, new, i)
  BY <1>11, <1>12, <1>13, <1>14 DEF IsQueue
<1>. QED
  BY <1>15 DEF new, add, n

\* A sequence that has no element twice is no longer than its elements are many.
LEMMA NoLonger ==
  ASSUME NEW V, IsFiniteSet(V), NEW q \in Seq(V), \A p, r \in DOMAIN q : q[p] = q[r] => p = r
  PROVE  /\ Len(q) \in Nat /\ Cardinality(V) \in Nat /\ Len(q) <= Cardinality(V)
         /\ (\A v \in V : \E p \in DOMAIN q : q[p] = v) => Len(q) = Cardinality(V)
<1>. DEFINE n == Len(q)
            D == 1 .. n
<1>1. n \in Nat /\ q \in [D -> V]
  OBVIOUS
<1>2. IsFiniteSet(D) /\ Cardinality(D) = n
  <2>1. 1 \in Int /\ n \in Int
    BY <1>1
  <2>2. IsFiniteSet(D) /\ Cardinality(D) = IF 1 > n THEN 0 ELSE n - 1 + 1
    BY <2>1, FS_Interval
  <2>. QED
    BY <1>1, <2>2
<1>. HIDE DEF n, D
<1>3. q \in Injection(D, V)
  <2>1. \A p, r \in D : q[p] = q[r] => p = r
    BY <1>1
  <2>. QED
    BY <1>1, <2>1, Fun_IsInj
<1>4. Cardinality(D) <= Cardinality(V)
  BY <1>2, <1>3, FS_Injection
<1>5. Cardinality(V) \in Nat
  BY FS_CardinalityType
<1>6. ASSUME \A v \in V : \E p \in DOMAIN q : q[p] = v
      PROVE  n = Cardinality(V)
  <2>1. \A v \in V : \E p \in D : q[p] = v
    BY <1>1, <1>6
  <2>2. q \in Surjection(D, V)
    BY <1>1, <2>1, Fun_IsSurj
  <2>3. Cardinality(V) <= Cardinality(D)
    BY <1>2, <2>2, FS_Surjection
  <2>. QED
    BY <1>1, <1>2, <1>4, <1>5, <2>3
<1>. QED
  BY <1>1, <1>2, <1>4, <1>5, <1>6 DEF n

\* All nodes, each once and each but the first behind its parent.
Lists(order, V, kids) ==
  /\ order \in Seq(V) /\ Len(order) = Cardinality(V)
  /\ \A p, r \in DOMAIN order : order[p] = order[r] => p = r
  /\ \A v \in V : \E p \in DOMAIN order : order[p] = v
  /\ \A p \in DOMAIN order \ {1} : \E m \in DOMAIN order :
       m < p /\ \E l \in DOMAIN kids[order[m]] : kids[order[m]][l] = order[p]

\* tree_bfs lists the nodes of the tree.
THEOREM TreeBfsIs ==
  ASSUME NEW V, IsFiniteSet(V), NEW adj, NEW root \in V, NEW kids \in [V -> Seq(V)],
         IsTree(V, adj, root, V, kids)
  PROVE  Lists(TreeBfs(kids, root), V, kids)
<1>. DEFINE queue == Queues(kids, root)
            n == Cardinality(V)
            T == {i \in 0 .. n : IsQueue(kids, root, queue[i], i)}
<1>1. /\ n \in Nat
      /\ queue \in [0 .. n -> Seq(V)] /\ queue[0] = <<root>>
      /\ \A i \in 1 .. n : queue[i] = NextQueue(kids, queue[i - 1], i)
  BY QueuesIs, Zenon
<1>2. TreeBfs(kids, root) = queue[n]
  BY DEF TreeBfs
<1>. HIDE DEF queue, n
<1>3. 0 \in T
  <2>. DEFINE q == <<root>>
  <2>1. Len(q) = 1 /\ q[1] = root /\ DOMAIN q = {1}
    OBVIOUS
  <2>. HIDE DEF q
  <2>2. IsQueue(kids, root, q, 0)
    BY <2>1 DEF IsQueue
  <2>3. 0 \in 0 .. n
    BY <1>1
  <2>. QED
    BY <1>1, <2>2, <2>3 DEF q
<1>4. ASSUME NEW i \in 1 .. n, i - 1 \in T
      PROVE  i \in T
  <2>. DEFINE q == queue[i - 1]
  <2>1. i \in 0 .. n /\ i - 1 \in 0 .. n /\ i \in Nat \ {0} /\ IsQueue(kids, root, q, i - 1)
    BY <1>1, <1>4
  <2>2. q \in Seq(V) /\ queue[i] = IF i > Len(q) THEN q ELSE q \o kids[q[i]]
    BY <1>1, <2>1 DEF NextQueue
  <2>. HIDE DEF q, T
  <2>3. Len(q) \in Nat /\ DOMAIN q = 1 .. Len(q)
    BY <2>2
  <2>4. CASE i > Len(q)
    <3>1. \A m \in DOMAIN q : m <= i - 1 /\ m <= i
      BY <2>1, <2>3, <2>4
    <3>2. IsQueue(kids, root, q, i)
      BY <2>1, <3>1 DEF IsQueue
    <3>. QED
      BY <2>1, <2>2, <2>4, <3>2 DEF T
  <2>5. CASE ~(i > Len(q))
    <3>1. i <= Len(q)
      BY <2>1, <2>3, <2>5
    <3>2. IsQueue(kids, root, q \o kids[q[i]], i)
      BY <2>1, <2>2, <3>1, QueueGrows
    <3>. QED
      BY <2>1, <2>2, <2>5, <3>2 DEF T
  <2>. QED
    BY <2>4, <2>5
<1>. DEFINE q == queue[n]
<1>5. q \in Seq(V) /\ IsQueue(kids, root, q, n)
  <2>. HIDE DEF T
  <2>1. \A i \in 0 .. n : i \in T
    BY <1>1, <1>3, <1>4, InductOn
  <2>2. n \in T /\ n \in 0 .. n
    BY <1>1, <2>1
  <2>. QED
    BY <1>1, <2>2 DEF T
<1>. HIDE DEF q, T
<1>6. /\ Len(q) >= 1 /\ q[1] = root
      /\ \A p, r \in DOMAIN q : q[p] = q[r] => p = r
      /\ \A p \in DOMAIN q \ {1} : \E m \in DOMAIN q :
           m < p /\ m <= n /\ \E l \in DOMAIN kids[q[m]] : kids[q[m]][l] = q[p]
      /\ \A m \in DOMAIN q : m <= n => \A l \in DOMAIN kids[q[m]] : \E p \in DOMAIN q : q[p] = kids[q[m]][l]
  BY <1>5 DEF IsQueue
<1>7. Len(q) \in Nat /\ Len(q) <= n /\ DOMAIN q = 1 .. Len(q)
  BY <1>5, <1>6, NoLonger DEF n
<1>8. \A m \in DOMAIN q : m <= n
  BY <1>1, <1>7
<1>. DEFINE C == {q[p] : p \in DOMAIN q}
<1>9. V \subseteq C
  <2>1. C \in SUBSET V
    BY <1>5
  <2>2. root \in C
    <3>1. 1 \in DOMAIN q
      BY <1>6, <1>7
    <3>. QED
      BY <1>6, <3>1
  <2>3. \A v \in C : \A l \in DOMAIN kids[v] : kids[v][l] \in C
    BY <1>6, <1>8
  <2>. HIDE DEF C
  <2>. QED
    BY <2>1, <2>2, <2>3 DEF IsTree
<1>10. \A v \in V : \E p \in DOMAIN q : q[p] = v
  BY <1>9
<1>11. Len(q) = n
  BY <1>5, <1>6, <1>10, NoLonger DEF n
<1>. QED
  BY <1>2, <1>5, <1>6, <1>10, <1>11 DEF q, n, Lists

----------------------------------------------------------------------------
(* The order of the variables.                                             *)

\* "?s ?p ?o is not handled right now", and a pattern has a join variable.
Askable == \A t \in TP : /\ JvarsOf(t) # {}
                         /\ Query[t].sub > 0 \/ Query[t].pred > 0 \/ Query[t].obj > 0

\* The query hangs together: no variables are cut off from the others.
Connected == \A C \in SUBSET Jvar : C # {} /\ (\A t \in TP : ~Crosses(t, C)) => C = Jvar

\* The plans are those that build_jvar_tree and loading make of some data, whichever
\* variable is the root.
PlannedByTree ==
  \A p \in Plans : \E s : \E root \in Jvar : p = PlanOf(s, root, SpanningTree(AdjJvars, root))

\* A pattern has two variables at most.
LEMMA TwoVariables ==
  ASSUME Askable, NEW t \in TP, NEW i \in JvarsOf(t), NEW j \in JvarsOf(t), NEW m \in JvarsOf(t)
  PROVE  i = j \/ i = m \/ j = m
<1>1. \A v \in JvarsOf(t) : v < 0 /\ (v = Query[t].sub \/ v = Query[t].pred \/ v = Query[t].obj)
  BY DEF JvarsOf, Jvar, Mentions, Fields
<1>2. ~(Query[t].sub < 0 /\ Query[t].pred < 0 /\ Query[t].obj < 0)
  BY PatternType DEF Askable
<1>. QED
  BY <1>1, <1>2

LEMMA JvarsFinite == IsFiniteSet(Jvar)
<1>1. JvarSeq \in Seq(Jvar) /\ \A j \in Jvar : \E i \in DOMAIN JvarSeq : JvarSeq[i] = j
  BY JvarSeqIs
<1>. DEFINE D == DOMAIN JvarSeq
<1>2. JvarSeq \in [D -> Jvar] /\ D = 1 .. Len(JvarSeq) /\ Len(JvarSeq) \in Nat
  BY <1>1
<1>3. IsFiniteSet(D)
  BY <1>2, FS_Interval
<1>4. JvarSeq \in Surjection(D, Jvar)
  BY <1>1, <1>2, Fun_IsSurj
<1>. QED
  BY <1>3, <1>4, FS_Surjection

\* The variables of a query that hangs together are the nodes of one tree.
LEMMA TreeOfJvars ==
  ASSUME Connected, NEW root \in Jvar
  PROVE  /\ SpanningTree(AdjJvars, root) \in [Jvar -> Seq(Jvar)]
         /\ IsTree(Jvar, AdjJvars, root, Jvar, SpanningTree(AdjJvars, root))
<1>. DEFINE kids == SpanningTree(AdjJvars, root)
<1>1. IsGraph(Jvar, AdjJvars)
  <2>1. \A j \in Jvar : AdjJvars[j] \in Seq(Jvar)
    BY NeighboursOfJvar
  <2>2. AdjJvars = [j \in Jvar |-> AdjJvars[j]]
    BY DEF AdjJvars
  <2>3. AdjJvars \in [Jvar -> Seq(Jvar)]
    BY <2>1, <2>2
  <2>. QED
    BY <2>3, JvarsFinite DEF IsGraph
<1>2. kids \in [Jvar -> Seq(Jvar)]
  BY <1>1, SpanningTreeIs
<1>3. PICK black \in SUBSET Jvar :
        /\ IsTree(Jvar, AdjJvars, root, black, kids)
        /\ \A n \in black : \A i \in DOMAIN AdjJvars[n] : AdjJvars[n][i] \in black
  BY <1>1, SpanningTreeIs
<1>. HIDE DEF kids
<1>4. ASSUME NEW t \in TP PROVE ~Crosses(t, black)
  <2>. SUFFICES ASSUME NEW i \in black, NEW j \in Jvar \ black, Mentions(t, i), Mentions(t, j)
                PROVE  FALSE
    BY DEF Crosses
  <2>1. i \in Jvar /\ j # i
    OBVIOUS
  <2>2. \E l \in DOMAIN AdjJvars[i] : AdjJvars[i][l] = j
    BY <2>1, NeighboursOfJvar
  <2>. QED
    BY <1>3, <2>2
<1>5. black # {}
  BY <1>3 DEF IsTree
<1>6. black = Jvar
  BY <1>4, <1>5 DEF Connected
<1>. QED
  BY <1>2, <1>3, <1>6 DEF kids

\* Each variable once, and each but the first behind one that is no leaf and that it
\* shares a pattern with.
Reaching(order, leaves) ==
  /\ order \in Seq(Jvar) /\ Len(order) = Cardinality(Jvar)
  /\ \A i, m \in DOMAIN order : order[i] = order[m] => i = m
  /\ \A j \in Jvar : \E i \in DOMAIN order : order[i] = j
  /\ \A i \in DOMAIN order \ {1} : \E m \in DOMAIN order :
       /\ m < i /\ order[m] \notin leaves
       /\ \E t \in TP : Mentions(t, order[m]) /\ Mentions(t, order[i])

LEMMA OrderReaches ==
  ASSUME Connected, PlannedByTree, NEW p \in Plans
  PROVE  Reaching(p.jvarsitr2, p.leaf_nodes)
<1>1. PICK s : \E root \in Jvar : p = PlanOf(s, root, SpanningTree(AdjJvars, root))
  BY DEF PlannedByTree
<1>2. PICK root \in Jvar : p = PlanOf(s, root, SpanningTree(AdjJvars, root))
  BY <1>1
<1>. DEFINE kids == SpanningTree(AdjJvars, root)
            order == TreeBfs(kids, root)
            leaves == LeafNodes(kids, root)
<1>3. p.jvarsitr2 = order /\ p.leaf_nodes = leaves
  BY <1>2 DEF PlanOf
<1>4. kids \in [Jvar -> Seq(Jvar)] /\ IsTree(Jvar, AdjJvars, root, Jvar, kids)
  BY TreeOfJvars
<1>5. Lists(order, Jvar, kids)
  BY <1>4, JvarsFinite, TreeBfsIs
<1>6. \A n \in leaves : kids[n] = << >>
  BY DEF LeafNodes
<1>. HIDE DEF order, leaves
<1>7. /\ order \in Seq(Jvar) /\ Len(order) = Cardinality(Jvar)
      /\ \A i, m \in DOMAIN order : order[i] = order[m] => i = m
      /\ \A v \in Jvar : \E i \in DOMAIN order : order[i] = v
      /\ \A i \in DOMAIN order \ {1} : \E m \in DOMAIN order :
           m < i /\ \E l \in DOMAIN kids[order[m]] : kids[order[m]][l] = order[i]
  BY <1>5 DEF Lists
<1>8. \A n \in Jvar : \A i \in DOMAIN kids[n] :
        kids[n][i] \in Jvar /\ \E l \in DOMAIN AdjJvars[n] : AdjJvars[n][l] = kids[n][i]
  BY <1>4 DEF IsTree
<1>9. ASSUME NEW i \in DOMAIN order \ {1}
      PROVE  \E m \in DOMAIN order : /\ m < i /\ order[m] \notin leaves
                                     /\ \E t \in TP : Mentions(t, order[m]) /\ Mentions(t, order[i])
  <2>1. PICK m \in DOMAIN order : m < i /\ \E l \in DOMAIN kids[order[m]] : kids[order[m]][l] = order[i]
    BY <1>7
  <2>2. PICK l \in DOMAIN kids[order[m]] : kids[order[m]][l] = order[i]
    BY <2>1
  <2>3. order[m] \in Jvar /\ order[i] \in Jvar
    BY <1>7
  <2>4. order[m] \notin leaves
    <3>1. DOMAIN << >> = {}
      OBVIOUS
    <3>. QED
      BY <1>6, <2>2, <3>1
  <2>5. \E n \in DOMAIN AdjJvars[order[m]] : AdjJvars[order[m]][n] = order[i]
    BY <1>8, <2>2, <2>3
  <2>6. \E t \in TP : Mentions(t, order[m]) /\ Mentions(t, order[i])
    BY <2>3, <2>5, NeighboursOfJvar
  <2>. QED
    BY <2>1, <2>4, <2>6
<1>. QED
  BY <1>3, <1>7, <1>9 DEF Reaching, order, leaves

\* Both passes of pruning reach every variable of a query that hangs together: the
\* order has each once, and each but the root behind a neighbour that the reverse
\* pass does not skip.
THEOREM PassesReach ==
  ASSUME Connected, PlannedByTree
  PROVE  Spec => []PassesReachAll
<1>1. ASSUME plan \in Plans PROVE PassesReachAll
  <2>. DEFINE order == plan.jvarsitr2
  <2>1. Reaching(order, plan.leaf_nodes)
    BY <1>1, OrderReaches
  <2>. HIDE DEF order
  <2>2. /\ order \in Seq(Jvar) /\ Len(order) = Cardinality(Jvar) /\ DOMAIN order = 1 .. Len(order)
        /\ Len(order) \in Nat
        /\ \A j \in Jvar : \E i \in DOMAIN order : order[i] = j
    BY <2>1 DEF Reaching
  <2>3. {order[i] : i \in DOMAIN order} = Jvar
    BY <2>2
  <2>4. ASSUME NEW i \in 2 .. Len(order)
        PROVE  \E m \in 1 .. i - 1 :
                 /\ order[m] \notin plan.leaf_nodes
                 /\ \E t \in TP : Mentions(t, order[m]) /\ Mentions(t, order[i])
    <3>1. i \in DOMAIN order \ {1}
      BY <2>2
    <3>2. PICK m \in DOMAIN order :
            /\ m < i /\ order[m] \notin plan.leaf_nodes
            /\ \E t \in TP : Mentions(t, order[m]) /\ Mentions(t, order[i])
      BY <2>1, <3>1 DEF Reaching
    <3>3. m \in 1 .. i - 1
      BY <2>2, <3>2
    <3>. QED
      BY <3>2, <3>3
  <2>5. /\ Len(order) = Cardinality(Jvar) /\ {order[i] : i \in DOMAIN order} = Jvar
        /\ \A i \in 2 .. Len(order) : \E m \in 1 .. i - 1 :
             /\ order[m] \notin plan.leaf_nodes
             /\ \E t \in TP : Mentions(t, order[m]) /\ Mentions(t, order[i])
    BY <2>2, <2>3, <2>4
  <2>. QED
    BY <2>5 DEF PassesReachAll, order
<1>2. Shape => plan \in Plans
  BY DEF Shape
<1>. QED
  BY <1>1, <1>2, ShapeInvariant, PTL

\* Two patterns that link a variable to earlier ones are one, in an acyclic query.
LEMMA OnlyLink ==
  ASSUME Askable, Acyclic, NEW order, NEW leaves, Reaching(order, leaves),
         NEW m \in DOMAIN order, NEW i \in DOMAIN order, NEW l \in DOMAIN order, i < m, l < m,
         NEW t \in TP, NEW u \in TP,
         Mentions(t, order[i]), Mentions(t, order[m]), Mentions(u, order[l]), Mentions(u, order[m])
  PROVE  t = u
<1>. SUFFICES ASSUME t # u PROVE FALSE
  OBVIOUS
<1>1. /\ order \in Seq(Jvar) /\ DOMAIN order = 1 .. Len(order) /\ Len(order) \in Nat
      /\ \A a, b \in DOMAIN order : order[a] = order[b] => a = b
      /\ \A a \in DOMAIN order : order[a] \in Jvar
  BY DEF Reaching
<1>2. order[i] # order[m] /\ order[i] \in JvarsOf(t) /\ order[m] \in JvarsOf(t)
  BY <1>1 DEF JvarsOf
<1>3. PICK C \in SUBSET Jvar : order[i] \in C /\ order[m] \notin C /\ \A v \in TP \ {t} : ~Crosses(v, C)
  BY <1>1, <1>2 DEF Acyclic
<1>. DEFINE Bad == {a \in DOMAIN order : a < m /\ ~(order[a] \in C <=> order[1] \in C)}
<1>4. Bad = {}
  <2>. SUFFICES ASSUME Bad # {} PROVE FALSE
    OBVIOUS
  <2>0. Bad \in SUBSET Nat
    BY <1>1
  <2>1. PICK a \in Bad : \A b \in Bad : a <= b
    BY <2>0, LeastNat
  <2>2. a \in DOMAIN order \ {1} /\ a < m
    OBVIOUS
  <2>3. PICK b \in DOMAIN order : b < a /\ \E v \in TP : Mentions(v, order[b]) /\ Mentions(v, order[a])
    BY <2>2 DEF Reaching
  <2>4. PICK v \in TP : Mentions(v, order[b]) /\ Mentions(v, order[a])
    BY <2>3
  <2>5. a \in Nat /\ b \in Nat /\ m \in Nat
    BY <1>1, <2>2
  <2>6. b < m /\ a # b /\ a # m /\ b # m
    BY <2>2, <2>3, <2>5
  <2>7. b \notin Bad
    BY <2>1, <2>3, <2>5
  <2>8. v # t
    <3>. SUFFICES ASSUME v = t PROVE FALSE
      OBVIOUS
    <3>1. order[b] \in JvarsOf(t) /\ order[a] \in JvarsOf(t)
      BY <1>1, <2>2, <2>4 DEF JvarsOf
    <3>2. order[a] # order[b] /\ order[a] # order[m] /\ order[b] # order[m]
      BY <1>1, <2>2, <2>6
    <3>. QED
      BY <1>2, <3>1, <3>2, TwoVariables
  <2>9. ~Crosses(v, C)
    BY <1>3, <2>8
  <2>10. order[a] \in C <=> order[b] \in C
    <3>1. order[a] \in Jvar /\ order[b] \in Jvar
      BY <1>1, <2>2
    <3>. QED
      BY <2>4, <2>9, <3>1 DEF Crosses
  <2>. QED
    BY <2>6, <2>7, <2>10
<1>5. order[l] \in C
  <2>1. \A a \in DOMAIN order : a < m => (order[a] \in C <=> order[1] \in C)
    BY <1>4
  <2>. HIDE DEF Bad
  <2>. QED
    BY <1>3, <2>1
<1>6. Crosses(u, C)
  BY <1>1, <1>3, <1>5 DEF Crosses
<1>. QED
  BY <1>3, <1>6

\* An acyclic query that hangs together is pruned in the order of a tree.
LEMMA OrderOfTree ==
  ASSUME Askable, Connected, Acyclic, PlannedByTree
  PROVE  Trees
<1>. SUFFICES ASSUME NEW p \in Plans PROVE TreeOrder(p)
  BY DEF Trees
<1>. DEFINE order == p.jvarsitr2
            leaves == p.leaf_nodes
            Linked(t, i, m) == i < m /\ Mentions(t, order[i]) /\ Mentions(t, order[m])
<1>1. Reaching(order, leaves)
  BY OrderReaches
<1>. HIDE DEF order, leaves
<1>2. /\ order \in Seq(Jvar) /\ DOMAIN order = 1 .. Len(order) /\ Len(order) \in Nat
      /\ \A i, m \in DOMAIN order : order[i] = order[m] => i = m
      /\ \A j \in Jvar : \E i \in DOMAIN order : order[i] = j
      /\ \A i \in DOMAIN order : order[i] \in Jvar
  BY <1>1 DEF Reaching
<1>3. {order[i] : i \in DOMAIN order} = Jvar
  BY <1>2
<1>4. ASSUME NEW m \in DOMAIN order \ {1}
      PROVE  \E i \in DOMAIN order : \E t \in TP : order[i] \notin leaves /\ Linked(t, i, m)
  BY <1>1 DEF Reaching
<1>5. ASSUME NEW m \in DOMAIN order, NEW i \in DOMAIN order, NEW l \in DOMAIN order,
             NEW t \in TP, NEW u \in TP, Linked(t, i, m), Linked(u, l, m)
      PROVE  t = u
  BY <1>1, <1>5, OnlyLink
<1>6. ASSUME NEW m \in DOMAIN order \ {1}
      PROVE  \E t \in TP : \A u \in TP : u = t <=> \E i \in DOMAIN order : Linked(u, i, m)
  <2>1. PICK i \in DOMAIN order : \E t \in TP : order[i] \notin leaves /\ Linked(t, i, m)
    BY <1>4
  <2>2. PICK t \in TP : Linked(t, i, m)
    BY <2>1
  <2>3. \A u \in TP : u = t <=> \E l \in DOMAIN order : Linked(u, l, m)
    <3>. HIDE DEF Linked
    <3>. QED
      BY <1>5, <2>2
  <2>. QED
    BY <2>3
<1>7. ASSUME NEW i \in DOMAIN order, NEW m \in DOMAIN order, order[i] \in leaves, NEW t \in TP
      PROVE  ~Linked(t, i, m)
  <2>. SUFFICES ASSUME Linked(t, i, m) PROVE FALSE
    OBVIOUS
  <2>0. m \in DOMAIN order \ {1}
    BY <1>2
  <2>1. PICK l \in DOMAIN order : \E u \in TP : order[l] \notin leaves /\ Linked(u, l, m)
    BY <1>4, <2>0
  <2>2. PICK u \in TP : order[l] \notin leaves /\ Linked(u, l, m)
    BY <2>1
  <2>3. t = u
    <3>. HIDE DEF Linked
    <3>. QED
      BY <1>5, <2>2
  <2>4. order[i] \in JvarsOf(t) /\ order[l] \in JvarsOf(t) /\ order[m] \in JvarsOf(t)
    BY <1>2, <2>2, <2>3 DEF JvarsOf
  <2>5. i # l /\ i # m /\ l # m
    BY <1>2, <1>7, <2>2
  <2>. QED
    BY <1>2, <2>4, <2>5, TwoVariables
<1>8. \A t \in TP : JvarsOf(t) # {}
  BY DEF Askable
<1>. QED
  BY <1>2, <1>3, <1>6, <1>7, <1>8 DEF TreeOrder, order, leaves

\* What lets one reverse pass that skips the leaves be enough: each variable has one
\* pattern that links it to those before it, and a leaf none to those after it.
THEOREM OrderIsOfTree ==
  ASSUME Askable, Connected, Acyclic, PlannedByTree
  PROVE  Spec => []OrderIsTree
<1>1. plan \in Plans => OrderIsTree
  BY OrderOfTree DEF Trees, OrderIsTree
<1>2. Shape => plan \in Plans
  BY DEF Shape
<1>. QED
  BY <1>1, <1>2, ShapeInvariant, PTL

=============================================================================
