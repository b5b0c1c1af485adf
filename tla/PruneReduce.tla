---------------------------- MODULE PruneReduce ------------------------------
(***************************************************************************)
(* What the passes leave of an acyclic query.  The reverse pass leaves a   *)
(* variable the ids that the patterns below it support; a forward pass     *)
(* after it, those of them that have a place in a solution.  Both are said *)
(* of the bitmats as they were loaded, so that they do not move while the  *)
(* passes run.                                                             *)
(***************************************************************************)
EXTENDS PruneSound, WellFoundedInduction

\* Where a variable is in jvarsitr2, and the patterns that link it to a later one.
Rank(p, j) == CHOOSE i \in DOMAIN p.jvarsitr2 : p.jvarsitr2[i] = j

Links(p, t, i, j) == i \in JvarsOf(t) /\ j \in JvarsOf(t) /\ Rank(p, i) < Rank(p, j)

\* The id of a variable in a cell of a pattern.
IdOf(p, t, c, j) == Coord(c, JoinAxis(p.dimension[t], PosOf(t, j)))

\* Each pattern has the id, with one of S for the variables after it.
HasBelow(p, S, j, x) ==
  /\ SOVar(j) => x <= NumCommSO
  /\ \A t \in TP : j \in JvarsOf(t) =>
       \E c \in p.bm[t] : /\ IdOf(p, t, c, j) = x
                          /\ \A i \in Jvar : Links(p, t, j, i) => IdOf(p, t, c, i) \in S[i]

\* The pattern that links the variable to one before it has the id with one of S.
HasAbove(p, S, j, x) ==
  \A t \in TP : \A i \in Jvar : Links(p, t, i, j) =>
    \E c \in p.bm[t] : IdOf(p, t, c, j) = x /\ IdOf(p, t, c, i) \in S[i]

Families == [Jvar -> SUBSET Nat]

\* The ids of a variable that everything below it supports.
Below(p) == {S \in Families : \A j \in Jvar : \A x \in S[j] : HasBelow(p, S, j, x)}

Supported(p, j) == UNION {S[j] : S \in Below(p)}

\* Those of them that a chain of such ids connects to the first variable.
Above(p) == {S \in Families : \A j \in Jvar : \A x \in S[j] :
               x \in Supported(p, j) /\ HasAbove(p, S, j, x)}

Settled(p, j) == UNION {S[j] : S \in Above(p)}

----------------------------------------------------------------------------
(* Facts about these sets.                                                 *)

LEMMA LinksJvar ==
  ASSUME NEW p, NEW t, NEW i, NEW j, Links(p, t, i, j) PROVE i \in Jvar /\ j \in Jvar
BY JvarsOfJvar DEF Links

LEMMA HasBelowMore ==
  ASSUME NEW p, NEW S, NEW T, NEW j, NEW x, \A i \in Jvar : S[i] \subseteq T[i],
         HasBelow(p, S, j, x)
  PROVE  HasBelow(p, T, j, x)
<1>. SUFFICES ASSUME NEW t \in TP, j \in JvarsOf(t)
              PROVE  \E c \in p.bm[t] :
                       /\ IdOf(p, t, c, j) = x
                       /\ \A i \in Jvar : Links(p, t, j, i) => IdOf(p, t, c, i) \in T[i]
  BY DEF HasBelow
<1>1. PICK c \in p.bm[t] : /\ IdOf(p, t, c, j) = x
                           /\ \A i \in Jvar : Links(p, t, j, i) => IdOf(p, t, c, i) \in S[i]
  BY DEF HasBelow
<1>. QED
  BY <1>1

LEMMA HasAboveMore ==
  ASSUME NEW p, NEW S, NEW T, NEW j, NEW x, \A i \in Jvar : S[i] \subseteq T[i],
         HasAbove(p, S, j, x)
  PROVE  HasAbove(p, T, j, x)
<1>. SUFFICES ASSUME NEW t \in TP, NEW i \in Jvar, Links(p, t, i, j)
              PROVE  \E c \in p.bm[t] : IdOf(p, t, c, j) = x /\ IdOf(p, t, c, i) \in T[i]
  BY DEF HasAbove
<1>1. PICK c \in p.bm[t] : IdOf(p, t, c, j) = x /\ IdOf(p, t, c, i) \in S[i]
  BY DEF HasAbove
<1>. QED
  BY <1>1

\* The largest family has the property of its members,
LEMMA SupportedHas ==
  ASSUME NEW p, NEW j \in Jvar, NEW x \in Supported(p, j)
  PROVE  HasBelow(p, [i \in Jvar |-> Supported(p, i)], j, x) /\ x \in Nat
<1>. DEFINE T == [i \in Jvar |-> Supported(p, i)]
<1>1. PICK S \in Below(p) : x \in S[j]
  BY DEF Supported
<1>2. S \in Families /\ HasBelow(p, S, j, x)
  BY <1>1 DEF Below
<1>3. \A i \in Jvar : S[i] \subseteq T[i]
  BY DEF Supported
<1>. HIDE DEF T
<1>. QED
  BY <1>1, <1>2, <1>3, HasBelowMore DEF Families, T

\* and so it has every id that it supports.
LEMMA SupportedTakes ==
  ASSUME NEW p, NEW j \in Jvar, NEW x \in Nat,
         HasBelow(p, [i \in Jvar |-> Supported(p, i)], j, x)
  PROVE  x \in Supported(p, j)
<1>. DEFINE T == [i \in Jvar |-> Supported(p, i)]
            U == [i \in Jvar |-> IF i = j THEN Supported(p, i) \cup {x} ELSE Supported(p, i)]
<1>1. \A i \in Jvar : T[i] \subseteq U[i]
  OBVIOUS
<1>2. U \in Families
  <2>1. \A i \in Jvar : Supported(p, i) \subseteq Nat
    BY SupportedHas
  <2>. QED
    BY <2>1 DEF Families
<1>3. ASSUME NEW i \in Jvar, NEW y \in U[i] PROVE HasBelow(p, U, i, y)
  <2>1. HasBelow(p, T, i, y)
    BY <1>3, SupportedHas
  <2>. HIDE DEF T, U
  <2>. QED
    BY <1>1, <2>1, HasBelowMore
<1>4. U \in Below(p)
  <2>. HIDE DEF U
  <2>. QED
    BY <1>2, <1>3 DEF Below
<1>5. x \in U[j]
  OBVIOUS
<1>. HIDE DEF U
<1>. QED
  BY <1>4, <1>5 DEF Supported

LEMMA SettledHas ==
  ASSUME NEW p, NEW j \in Jvar, NEW x \in Settled(p, j)
  PROVE  HasAbove(p, [i \in Jvar |-> Settled(p, i)], j, x) /\ x \in Supported(p, j)
<1>. DEFINE T == [i \in Jvar |-> Settled(p, i)]
<1>1. PICK S \in Above(p) : x \in S[j]
  BY DEF Settled
<1>2. HasAbove(p, S, j, x) /\ x \in Supported(p, j)
  BY <1>1 DEF Above
<1>3. \A i \in Jvar : S[i] \subseteq T[i]
  BY DEF Settled
<1>. HIDE DEF T
<1>. QED
  BY <1>2, <1>3, HasAboveMore DEF T

LEMMA SettledTakes ==
  ASSUME NEW p, NEW j \in Jvar, NEW x \in Supported(p, j),
         HasAbove(p, [i \in Jvar |-> Settled(p, i)], j, x)
  PROVE  x \in Settled(p, j)
<1>. DEFINE T == [i \in Jvar |-> Settled(p, i)]
            U == [i \in Jvar |-> IF i = j THEN Settled(p, i) \cup {x} ELSE Settled(p, i)]
<1>1. \A i \in Jvar : T[i] \subseteq U[i]
  OBVIOUS
<1>2. U \in Families
  <2>1. \A i \in Jvar : Settled(p, i) \subseteq Nat
    BY SupportedHas, SettledHas
  <2>2. x \in Nat
    BY SupportedHas
  <2>. QED
    BY <2>1, <2>2 DEF Families
<1>3. ASSUME NEW i \in Jvar, NEW y \in U[i] PROVE HasAbove(p, U, i, y) /\ y \in Supported(p, i)
  <2>1. HasAbove(p, T, i, y) /\ y \in Supported(p, i)
    BY <1>3, SettledHas
  <2>. HIDE DEF T, U
  <2>. QED
    BY <1>1, <2>1, HasAboveMore
<1>4. U \in Above(p)
  <2>. HIDE DEF U
  <2>. QED
    BY <1>2, <1>3 DEF Above
<1>5. x \in U[j]
  OBVIOUS
<1>. HIDE DEF U
<1>. QED
  BY <1>4, <1>5 DEF Settled

\* The least number of a set, which is how the proofs below go by induction.
LEMMA LeastNat ==
  ASSUME NEW T \in SUBSET Nat, T # {}
  PROVE  \E n \in T : \A m \in T : n <= m
<1>. DEFINE R == OpToRel(<, Nat)
<1>1. IsWellFoundedOn(R, Nat)
  BY NatLessThanWellFounded, Zenon
<1>2. \A n, m \in Nat : n < m => <<n, m>> \in R
  BY Zenon DEF OpToRel
<1>. HIDE DEF R
<1>3. PICK n \in T : \A m \in T : ~(<<m, n>> \in R)
  BY <1>1, WFMin
<1>4. \A m \in T : ~(m < n)
  BY <1>2, <1>3
<1>. QED
  BY <1>3, <1>4

----------------------------------------------------------------------------
(* The tree.                                                               *)

Trees == \A p \in Plans : TreeOrder(p)

\* Each variable has its rank, and each rank its variable.
LEMMA Ranks ==
  ASSUME NEW p \in Plans, TreeOrder(p)
  PROVE  /\ p.jvarsitr2 \in Seq(Jvar) /\ Len(p.jvarsitr2) \in Nat \ {0}
         /\ \A j \in Jvar : Rank(p, j) \in 1 .. Len(p.jvarsitr2) /\ p.jvarsitr2[Rank(p, j)] = j
         /\ \A m \in 1 .. Len(p.jvarsitr2) : p.jvarsitr2[m] \in Jvar /\ Rank(p, p.jvarsitr2[m]) = m
<1>1. p.jvarsitr2 \in Seq(Jvar) /\ p.jvarsitr2 # << >>
  BY PruneAssumption DEF Plan
<1>2. DOMAIN p.jvarsitr2 = 1 .. Len(p.jvarsitr2) /\ Len(p.jvarsitr2) \in Nat \ {0}
  BY <1>1
<1>3. \A j \in Jvar : \E m \in DOMAIN p.jvarsitr2 : p.jvarsitr2[m] = j
  BY DEF TreeOrder
<1>4. \A j \in Jvar : Rank(p, j) \in DOMAIN p.jvarsitr2 /\ p.jvarsitr2[Rank(p, j)] = j
  BY <1>3 DEF Rank
<1>5. \A m \in DOMAIN p.jvarsitr2 : p.jvarsitr2[m] \in Jvar /\ Rank(p, p.jvarsitr2[m]) = m
  BY <1>1, <1>4 DEF TreeOrder
<1>. QED
  BY <1>1, <1>2, <1>4, <1>5

\* A pattern has two axes.
LEMMA TwoOnly ==
  ASSUME NEW p \in Plans, OneJvarPerAxis, NEW t \in TP,
         NEW i \in JvarsOf(t), NEW j \in JvarsOf(t), NEW h \in JvarsOf(t), i # j
  PROVE  h = i \/ h = j
BY DEF OneJvarPerAxis, JoinAxis

\* A variable that is not the first has one link to an earlier one.
LEMMA LinkBefore ==
  ASSUME NEW p \in Plans, TreeOrder(p), NEW j \in Jvar, Rank(p, j) # 1
  PROVE  \E t \in TP : \E i \in Jvar : Links(p, t, i, j)
<1>. DEFINE order == p.jvarsitr2
            m == Rank(p, j)
<1>1. m \in DOMAIN order \ {1} /\ order[m] = j
  BY Ranks
<1>2. PICK t \in TP : \E i \in DOMAIN order : i < m /\ Mentions(t, order[i]) /\ Mentions(t, order[m])
  BY <1>1 DEF TreeOrder
<1>3. PICK i \in DOMAIN order : i < m /\ Mentions(t, order[i]) /\ Mentions(t, order[m])
  BY <1>2
<1>4. order[i] \in Jvar /\ Rank(p, order[i]) = i
  BY Ranks
<1>. QED
  BY <1>1, <1>3, <1>4 DEF Links, JvarsOf

LEMMA OneLink ==
  ASSUME NEW p \in Plans, TreeOrder(p), OneJvarPerAxis, NEW t \in TP, NEW u \in TP,
         NEW j, NEW i, NEW h, Links(p, t, i, j), Links(p, u, h, j)
  PROVE  t = u /\ i = h
<1>. DEFINE order == p.jvarsitr2
            m == Rank(p, j)
<1>1. i \in Jvar /\ j \in Jvar /\ h \in Jvar
  BY LinksJvar
<1>2. /\ m \in DOMAIN order /\ order[m] = j /\ m \in Nat
      /\ Rank(p, i) \in DOMAIN order /\ order[Rank(p, i)] = i /\ Rank(p, i) \in Nat \ {0}
      /\ Rank(p, h) \in DOMAIN order /\ order[Rank(p, h)] = h
  <2>1. DOMAIN order = 1 .. Len(order) /\ Len(order) \in Nat
    BY Ranks
  <2>2. \A v \in Jvar : /\ Rank(p, v) \in DOMAIN order /\ order[Rank(p, v)] = v
                       /\ Rank(p, v) \in Nat \ {0}
    BY <2>1, Ranks
  <2>. QED
    BY <1>1, <2>2
<1>3. m # 1
  BY <1>2 DEF Links
<1>4. Mentions(t, i) /\ Mentions(t, j) /\ Mentions(u, h) /\ Mentions(u, j)
  BY DEF Links, JvarsOf
<1>5. PICK v \in TP : \A w \in TP :
        w = v <=> \E n \in DOMAIN order : n < m /\ Mentions(w, order[n]) /\ Mentions(w, order[m])
  BY <1>2, <1>3 DEF TreeOrder
<1>6. t = v /\ u = v
  BY <1>2, <1>4, <1>5 DEF Links
<1>7. i # j /\ h # j
  BY <1>2 DEF Links
<1>. QED
  BY <1>6, <1>7, TwoOnly DEF Links

----------------------------------------------------------------------------
(* Solutions, put together one variable at a time.                         *)

\* The variables of W, closed towards the first one, have ids that are supported
\* and that the patterns among them have cells for.
Partial(p, W, sol) ==
  /\ W \subseteq Jvar
  /\ \A t \in TP : \A i, j \in Jvar : Links(p, t, i, j) /\ j \in W => i \in W
  /\ sol \in [Jvar -> Nat]
  /\ \A j \in W : sol[j] \in Supported(p, j)
  /\ \A t \in TP : JvarsOf(t) \subseteq W =>
       \E c \in p.bm[t] : \A j \in JvarsOf(t) : IdOf(p, t, c, j) = sol[j]

\* One more variable, with an id that its link to W has a cell for.
LEMMA OneMore ==
  ASSUME NEW p \in Plans, TreeOrder(p), OneJvarPerAxis, NEW W, NEW sol, Partial(p, W, sol),
         NEW j \in Jvar \ W, NEW x \in Supported(p, j),
         \A t \in TP : \A i \in Jvar : Links(p, t, i, j) =>
           /\ i \in W
           /\ \E c \in p.bm[t] : IdOf(p, t, c, j) = x /\ IdOf(p, t, c, i) = sol[i]
  PROVE  Partial(p, W \cup {j}, [sol EXCEPT ![j] = x])
<1>. DEFINE s == [sol EXCEPT ![j] = x]
<1>1. /\ x \in Nat /\ HasBelow(p, [i \in Jvar |-> Supported(p, i)], j, x)
      /\ sol \in [Jvar -> Nat] /\ W \subseteq Jvar
  BY SupportedHas DEF Partial
<1>2. s \in [Jvar -> Nat] /\ s[j] = x /\ \A i \in W : s[i] = sol[i]
  BY <1>1
<1>. HIDE DEF s
<1>3. ASSUME NEW t \in TP, JvarsOf(t) \subseteq W \cup {j}
      PROVE  \E c \in p.bm[t] : \A i \in JvarsOf(t) : IdOf(p, t, c, i) = s[i]
  <2>1. CASE j \notin JvarsOf(t)
    <3>1. JvarsOf(t) \subseteq W
      BY <1>3, <2>1
    <3>. QED
      BY <1>2, <3>1 DEF Partial
  <2>2. CASE j \in JvarsOf(t) /\ JvarsOf(t) = {j}
    <3>1. PICK c \in p.bm[t] : IdOf(p, t, c, j) = x
      BY <1>1, <2>2 DEF HasBelow
    <3>. QED
      BY <1>2, <2>2, <3>1
  <2>3. CASE j \in JvarsOf(t) /\ JvarsOf(t) # {j}
    <3>1. PICK i \in JvarsOf(t) : i # j
      BY <2>3
    <3>2. i \in W /\ i \in Jvar
      BY <1>1, <1>3, <3>1
    <3>3. Rank(p, i) \in Nat /\ Rank(p, j) \in Nat /\ Rank(p, i) # Rank(p, j)
      BY <3>1, <3>2, Ranks
    <3>4. ~Links(p, t, j, i)
      BY <3>2 DEF Partial
    <3>5. Links(p, t, i, j)
      BY <2>3, <3>1, <3>3, <3>4 DEF Links
    <3>6. PICK c \in p.bm[t] : IdOf(p, t, c, j) = x /\ IdOf(p, t, c, i) = sol[i]
      BY <3>2, <3>5
    <3>7. \A h \in JvarsOf(t) : h = i \/ h = j
      BY <2>3, <3>1, TwoOnly
    <3>. QED
      BY <1>2, <3>2, <3>6, <3>7
  <2>. QED
    BY <2>1, <2>2, <2>3
<1>4. \A t \in TP : \A i, h \in Jvar : Links(p, t, i, h) /\ h \in W \cup {j} => i \in W \cup {j}
  BY DEF Partial
<1>5. \A i \in W \cup {j} : s[i] \in Supported(p, i)
  BY <1>2 DEF Partial
<1>6. Partial(p, W \cup {j}, s)
  BY <1>1, <1>2, <1>3, <1>4, <1>5 DEF Partial
<1>. QED
  BY <1>6 DEF s

\* Up to the first variable: the ids are settled, so each has a chain.
LEMMA Chain ==
  ASSUME NEW p \in Plans, TreeOrder(p), OneJvarPerAxis, NEW v \in Jvar, NEW y \in Settled(p, v)
  PROVE  \E W, sol : /\ Partial(p, W, sol) /\ v \in W /\ sol[v] = y
                     /\ p.jvarsitr2[1] \in W /\ \A h \in W : Rank(p, h) <= Rank(p, v)
<1>. DEFINE Has(j, x) == \E W, sol : /\ Partial(p, W, sol) /\ j \in W /\ sol[j] = x
                                     /\ p.jvarsitr2[1] \in W /\ \A h \in W : Rank(p, h) <= Rank(p, j)
            Bad == {n \in Nat : \E j \in Jvar : \E x \in Settled(p, j) : Rank(p, j) = n /\ ~Has(j, x)}
<1>1. \A j \in Jvar : Rank(p, j) \in Nat \ {0} /\ p.jvarsitr2[Rank(p, j)] = j
  BY Ranks
<1>2. ASSUME NEW j \in Jvar, NEW x \in Settled(p, j),
             \A i \in Jvar : \A z \in Settled(p, i) : Rank(p, i) < Rank(p, j) => Has(i, z)
      PROVE  Has(j, x)
  <2>1. x \in Supported(p, j) /\ HasAbove(p, [i \in Jvar |-> Settled(p, i)], j, x)
    BY SettledHas
  <2>2. x \in Nat /\ HasBelow(p, [i \in Jvar |-> Supported(p, i)], j, x)
    BY <2>1, SupportedHas
  <2>3. CASE Rank(p, j) = 1
    <3>. DEFINE s == [i \in Jvar |-> x]
    <3>1. ~ \E t \in TP : \E i \in Jvar : Links(p, t, i, j)
      BY <1>1, <2>3 DEF Links
    <3>2. ASSUME NEW t \in TP, JvarsOf(t) \subseteq {j}
          PROVE  \E c \in p.bm[t] : \A i \in JvarsOf(t) : IdOf(p, t, c, i) = s[i]
      <4>1. j \in JvarsOf(t) /\ JvarsOf(t) = {j}
        BY <3>2 DEF TreeOrder
      <4>2. PICK c \in p.bm[t] : IdOf(p, t, c, j) = x
        BY <2>2, <4>1 DEF HasBelow
      <4>. QED
        BY <4>1, <4>2
    <3>3. Partial(p, {j}, s)
      BY <2>1, <2>2, <3>1, <3>2 DEF Partial
    <3>4. p.jvarsitr2[1] = j
      BY <1>1, <2>3
    <3>5. \A h \in {j} : Rank(p, h) <= Rank(p, j)
      BY <1>1
    <3>. HIDE DEF s
    <3>6. s[j] = x
      BY DEF s
    <3>. QED
      BY <3>3, <3>4, <3>5, <3>6
  <2>4. CASE Rank(p, j) # 1
    <3>1. PICK t \in TP, i \in Jvar : Links(p, t, i, j)
      BY <2>4, LinkBefore
    <3>2. PICK c \in p.bm[t] : IdOf(p, t, c, j) = x /\ IdOf(p, t, c, i) \in Settled(p, i)
      BY <2>1, <3>1 DEF HasAbove
    <3>3. Rank(p, i) < Rank(p, j)
      BY <3>1 DEF Links
    <3>4. PICK W, sol : /\ Partial(p, W, sol) /\ i \in W /\ sol[i] = IdOf(p, t, c, i)
                        /\ p.jvarsitr2[1] \in W /\ \A h \in W : Rank(p, h) <= Rank(p, i)
      BY <1>2, <3>2, <3>3
    <3>5. j \notin W
      BY <1>1, <3>3, <3>4
    <3>6. \A u \in TP : \A h \in Jvar : Links(p, u, h, j) =>
            /\ h \in W
            /\ \E d \in p.bm[u] : IdOf(p, u, d, j) = x /\ IdOf(p, u, d, h) = sol[h]
      <4>. SUFFICES ASSUME NEW u \in TP, NEW h \in Jvar, Links(p, u, h, j)
                    PROVE  /\ h \in W
                           /\ \E d \in p.bm[u] : IdOf(p, u, d, j) = x /\ IdOf(p, u, d, h) = sol[h]
        OBVIOUS
      <4>1. u = t /\ h = i
        BY <3>1, OneLink
      <4>. QED
        BY <3>2, <3>4, <4>1
    <3>. DEFINE s == [sol EXCEPT ![j] = x]
    <3>7. Partial(p, W \cup {j}, s)
      BY <2>1, <3>4, <3>5, <3>6, OneMore
    <3>8. s[j] = x
      BY <3>4 DEF Partial
    <3>9. \A h \in W \cup {j} : Rank(p, h) <= Rank(p, j)
      <4>1. W \subseteq Jvar
        BY <3>4 DEF Partial
      <4>. QED
        BY <1>1, <3>3, <3>4, <4>1
    <3>. HIDE DEF s
    <3>. QED
      BY <3>4, <3>7, <3>8, <3>9
  <2>. QED
    BY <2>3, <2>4
<1>. HIDE DEF Has
<1>3. Bad = {}
  <2>. SUFFICES ASSUME Bad # {} PROVE FALSE
    OBVIOUS
  <2>1. PICK n \in Bad : \A m \in Bad : n <= m
    BY LeastNat
  <2>2. PICK j \in Jvar : \E x \in Settled(p, j) : Rank(p, j) = n /\ ~Has(j, x)
    BY <2>1
  <2>3. \A i \in Jvar : \A z \in Settled(p, i) : Rank(p, i) < Rank(p, j) => Has(i, z)
    BY <1>1, <2>1, <2>2
  <2>4. \A x \in Settled(p, j) : Has(j, x)
    BY <1>2, <2>3
  <2>. QED
    BY <2>2, <2>4
<1>4. Has(v, y)
  BY <1>1, <1>3
<1>. QED
  BY <1>4 DEF Has

\* Down from there: every id that is supported has one for the next variable.
LEMMA Completed ==
  ASSUME NEW p \in Plans, TreeOrder(p), OneJvarPerAxis, NEW W, NEW sol, Partial(p, W, sol),
         p.jvarsitr2[1] \in W
  PROVE  \E s : Partial(p, Jvar, s) /\ \A j \in W : s[j] = sol[j]
<1>. DEFINE Upto(n) == {j \in Jvar : Rank(p, j) <= n}
            Has(n) == \E s : Partial(p, W \cup Upto(n), s) /\ \A j \in W : s[j] = sol[j]
            Len2 == Len(p.jvarsitr2)
            Bad == {n \in 0 .. Len2 : ~Has(n)}
<1>1. /\ \A j \in Jvar : Rank(p, j) \in 1 .. Len2 /\ p.jvarsitr2[Rank(p, j)] = j
      /\ \A m \in 1 .. Len2 : p.jvarsitr2[m] \in Jvar /\ Rank(p, p.jvarsitr2[m]) = m
      /\ Len2 \in Nat \ {0} /\ W \subseteq Jvar
  BY Ranks DEF Partial
<1>. HIDE DEF Len2
<1>2. Has(0)
  <2>1. W \cup Upto(0) = W
    BY <1>1
  <2>. HIDE DEF Upto
  <2>. QED
    BY <2>1
<1>3. ASSUME NEW n \in 1 .. Len2, Has(n - 1) PROVE Has(n)
  <2>. DEFINE j == p.jvarsitr2[n]
              V == W \cup Upto(n - 1)
  <2>1. j \in Jvar /\ Rank(p, j) = n
    BY <1>1
  <2>2. W \cup Upto(n) = V \cup {j}
    <3>1. ASSUME NEW i \in Jvar PROVE Rank(p, i) <= n <=> Rank(p, i) <= n - 1 \/ i = j
      <4>1. Rank(p, i) \in Nat /\ n \in Nat
        BY <1>1
      <4>2. Rank(p, i) = n => i = j
        BY <1>1
      <4>. QED
        BY <2>1, <4>1, <4>2
    <3>. QED
      BY <2>1, <3>1
  <2>3. PICK s : Partial(p, V, s) /\ \A i \in W : s[i] = sol[i]
    BY <1>3
  <2>4. CASE j \in V
    <3>1. W \cup Upto(n) = V
      BY <2>2, <2>4
    <3>. HIDE DEF Upto, V
    <3>. QED
      BY <2>3, <3>1
  <2>5. CASE j \notin V
    <3>1. n # 1
      BY <2>5
    <3>2. PICK t \in TP, i \in Jvar : Links(p, t, i, j)
      BY <2>1, <3>1, LinkBefore
    <3>3. i \in V
      <4>1. Rank(p, i) < n /\ Rank(p, i) \in Nat /\ n \in Nat
        BY <1>1, <2>1, <3>2 DEF Links
      <4>. QED
        BY <4>1
    <3>4. s[i] \in Supported(p, i)
      BY <2>3, <3>3 DEF Partial
    <3>5. HasBelow(p, [h \in Jvar |-> Supported(p, h)], i, s[i])
      BY <3>4, SupportedHas
    <3>6. PICK c \in p.bm[t] : IdOf(p, t, c, i) = s[i] /\ IdOf(p, t, c, j) \in Supported(p, j)
      BY <2>1, <3>2, <3>5 DEF HasBelow, Links
    <3>. DEFINE x == IdOf(p, t, c, j)
                r == [s EXCEPT ![j] = x]
    <3>7. \A u \in TP : \A h \in Jvar : Links(p, u, h, j) =>
            /\ h \in V
            /\ \E d \in p.bm[u] : IdOf(p, u, d, j) = x /\ IdOf(p, u, d, h) = s[h]
      <4>. SUFFICES ASSUME NEW u \in TP, NEW h \in Jvar, Links(p, u, h, j)
                    PROVE  /\ h \in V
                           /\ \E d \in p.bm[u] : IdOf(p, u, d, j) = x /\ IdOf(p, u, d, h) = s[h]
        OBVIOUS
      <4>. HIDE DEF V
      <4>1. u = t /\ h = i
        BY <3>2, OneLink
      <4>. QED
        BY <3>3, <3>6, <4>1
    <3>. HIDE DEF V, x, j
    <3>8. Partial(p, V \cup {j}, r)
      BY <2>1, <2>3, <2>5, <3>6, <3>7, OneMore DEF x
    <3>9. \A i2 \in W : r[i2] = sol[i2]
      <4>1. s \in [Jvar -> Nat] /\ W \subseteq V
        BY <2>3 DEF Partial, V
      <4>. QED
        BY <1>1, <2>3, <2>5, <4>1
    <3>. HIDE DEF r
    <3>. QED
      BY <2>2, <3>8, <3>9
  <2>. QED
    BY <2>4, <2>5
<1>4. W \cup Upto(Len2) = Jvar
  BY <1>1
<1>. HIDE DEF Has
<1>5. Bad = {}
  <2>. SUFFICES ASSUME Bad # {} PROVE FALSE
    OBVIOUS
  <2>1. Bad \in SUBSET Nat
    BY <1>1
  <2>2. PICK n \in Bad : \A m \in Bad : n <= m
    BY <2>1, LeastNat
  <2>3. n # 0
    BY <1>2, <2>2
  <2>4. n \in 1 .. Len2 /\ n - 1 \in 0 .. Len2 /\ ~(n <= n - 1)
    BY <1>1, <2>2, <2>3
  <2>5. Has(n - 1)
    BY <2>2, <2>4
  <2>. QED
    BY <1>3, <2>2, <2>4, <2>5
<1>6. Has(Len2)
  BY <1>1, <1>5
<1>. QED
  BY <1>4, <1>6 DEF Has

\* An id that is settled is that of a solution.
LEMMA IdSolved ==
  ASSUME NEW p \in Plans, TreeOrder(p), OneJvarPerAxis, NEW j \in Jvar, NEW x \in Settled(p, j)
  PROVE  \E s : Partial(p, Jvar, s) /\ s[j] = x
<1>1. PICK W, sol : Partial(p, W, sol) /\ j \in W /\ sol[j] = x /\ p.jvarsitr2[1] \in W
  BY Chain
<1>. QED
  BY <1>1, Completed

\* So is a cell, if the earlier of its ids is settled and the later one supported.
LEMMA CellSolved ==
  ASSUME NEW p \in Plans, TreeOrder(p), OneJvarPerAxis, NEW t \in TP, NEW c \in p.bm[t],
         NEW j \in JvarsOf(t), IdOf(p, t, c, j) \in Settled(p, j),
         \A i \in JvarsOf(t) \ {j} : Links(p, t, j, i) /\ IdOf(p, t, c, i) \in Supported(p, i)
  PROVE  \E s : Partial(p, Jvar, s) /\ \A i \in JvarsOf(t) : IdOf(p, t, c, i) = s[i]
<1>1. j \in Jvar /\ JvarsOf(t) \subseteq Jvar
  BY JvarsOfJvar
<1>2. PICK W, sol : /\ Partial(p, W, sol) /\ j \in W /\ sol[j] = IdOf(p, t, c, j)
                    /\ p.jvarsitr2[1] \in W /\ \A h \in W : Rank(p, h) <= Rank(p, j)
  BY <1>1, Chain
<1>3. CASE JvarsOf(t) = {j}
  <2>1. PICK s : Partial(p, Jvar, s) /\ \A i \in W : s[i] = sol[i]
    BY <1>2, Completed
  <2>. QED
    BY <1>2, <1>3, <2>1
<1>4. CASE JvarsOf(t) # {j}
  <2>1. PICK i \in JvarsOf(t) : i # j
    BY <1>4
  <2>2. Links(p, t, j, i) /\ IdOf(p, t, c, i) \in Supported(p, i) /\ i \in Jvar
    BY <1>1, <2>1
  <2>3. i \notin W
    <3>1. Rank(p, i) \in Nat /\ Rank(p, j) \in Nat /\ Rank(p, j) < Rank(p, i)
      BY <1>1, <2>2, Ranks DEF Links
    <3>. QED
      BY <1>2, <3>1
  <2>. DEFINE x == IdOf(p, t, c, i)
              r == [sol EXCEPT ![i] = x]
  <2>4. \A u \in TP : \A h \in Jvar : Links(p, u, h, i) =>
          /\ h \in W
          /\ \E d \in p.bm[u] : IdOf(p, u, d, i) = x /\ IdOf(p, u, d, h) = sol[h]
    <3>. SUFFICES ASSUME NEW u \in TP, NEW h \in Jvar, Links(p, u, h, i)
                  PROVE  /\ h \in W
                         /\ \E d \in p.bm[u] : IdOf(p, u, d, i) = x /\ IdOf(p, u, d, h) = sol[h]
      OBVIOUS
    <3>1. u = t /\ h = j
      BY <2>2, OneLink
    <3>. QED
      BY <1>2, <3>1
  <2>. HIDE DEF x
  <2>5. Partial(p, W \cup {i}, r)
    BY <1>2, <2>2, <2>3, <2>4, OneMore DEF x
  <2>6. sol \in [Jvar -> Nat]
    BY <1>2 DEF Partial
  <2>7. r[i] = x /\ r[j] = sol[j]
    BY <1>1, <2>1, <2>2, <2>6
  <2>. HIDE DEF r
  <2>8. PICK s : Partial(p, Jvar, s) /\ \A h \in W \cup {i} : s[h] = r[h]
    BY <1>2, <2>5, Completed
  <2>9. \A h \in JvarsOf(t) : h = i \/ h = j
    BY <2>1, TwoOnly
  <2>. QED
    BY <1>2, <2>7, <2>8, <2>9 DEF x
<1>. QED
  BY <1>3, <1>4

\* A partial solution of all variables is one.
LEMMA PartialSolves ==
  ASSUME Shape, NEW s, Partial(plan, Jvar, s)
  PROVE  s \in Solutions
<1>1. ASSUME NEW j \in Jvar PROVE s[j] \in LoadedIds /\ (SOVar(j) => s[j] <= NumCommSO)
  <2>1. HasBelow(plan, [i \in Jvar |-> Supported(plan, i)], j, s[j])
    BY SupportedHas DEF Partial
  <2>2. PICK t \in TP : j \in JvarsOf(t)
    BY DEF Jvar, JvarsOf, Mentions
  <2>3. PICK c \in plan.bm[t] : IdOf(plan, t, c, j) = s[j]
    BY <2>1, <2>2 DEF HasBelow
  <2>4. s[j] \in SimpleFold(plan.bm[t], AxisOf(t, j)) /\ AxisOf(t, j) \in Axis
    BY <2>3, AxisOfType DEF SimpleFold, IdOf, AxisOf
  <2>. QED
    BY <2>1, <2>4 DEF LoadedIds, HasBelow
<1>2. s \in [Jvar -> LoadedIds]
  BY <1>1 DEF Partial
<1>3. ASSUME NEW t \in TP PROVE \E c \in plan.bm[t] : Matches(c, t, s)
  <2>1. JvarsOf(t) \subseteq Jvar
    BY JvarsOfJvar
  <2>. QED
    BY <2>1 DEF Partial, Matches, IdOf, AxisOf
<1>. QED
  BY <1>1, <1>2, <1>3 DEF Solutions

----------------------------------------------------------------------------
(* What the passes have done so far.                                       *)

\* No fold of the variable, and no pattern that is unfolded on it at once, has an
\* id outside S, but for those no unfold clears.
Within(j, S) ==
  \A t \in TP : j \in JvarsOf(t) =>
    /\ fold[<<t, AxisOf(t, j)>>] \subseteq S \cup Overhang(t, j)
    /\ UnfoldsNow(t) => Bindings(t, j) \subseteq S \cup Overhang(t, j)

\* The join result of a variable in subject and object positions is common ids.
CommonIds == {x \in Nat : x <= NumCommSO}

NodeCommon == pc = "unfold" /\ SOVar(CurJvar) => Joinres \subseteq CommonIds

PassOver == pc \in {"check", "fix", "true"}

\* Everything below the variable has been worked on before it was, or it is a leaf.
Past(j) ==
  \/ try > 1 \/ PassOver
  \/ reverse /\ Rank(plan, j) > N + 1 - pos
  \/ j \in plan.leaf_nodes /\ (reverse \/ Rank(plan, j) < pos)

BottomUp == \A j \in Jvar : Past(j) => Within(j, Supported(plan, j))

\* And then, from the first variable on, everything above it.
TopPast(j) == try > 2 \/ (try = 2 /\ (PassOver \/ reverse \/ Rank(plan, j) < pos))

TopDown == \A j \in Jvar : TopPast(j) => Within(j, Settled(plan, j))

\* The variable at work is the next for which this will be so.
UpTurn   == reverse \/ try > 1 \/ CurJvar \in plan.leaf_nodes
DownTurn == try >= 2

NodeSupported ==
  pc = "unfold" => /\ UpTurn => Joinres \subseteq Supported(plan, CurJvar)
                   /\ DownTurn => Joinres \subseteq Settled(plan, CurJvar)

\* The patterns before index k have folds within the join result.
FoldDone ==
  pc = "unfold" => \A m \in 1 .. k - 1 :
    fold[<<NextTP[CurJvar][m], AxisOf(NextTP[CurJvar][m], CurJvar)>>]
      \subseteq Joinres \cup Overhang(NextTP[CurJvar][m], CurJvar)

\* fix_all_tp_bitmats has unfolded what waited for it.
FixDone ==
  pc = "true" => \A t \in TP : \A j \in JvarsOf(t) :
    PosOf(t, j) # "PRED" /\ ~UnfoldsNow(t) => Bindings(t, j) \subseteq fold[<<t, AxisOf(t, j)>>]

\* A pass ends where the next one begins, and prune_triples_sim makes two at least.
Passes ==
  /\ pc = "check" => ~reverse /\ pos = 1
  /\ pc \in {"fix", "true"} /\ Sim => try >= 2

Reduce == /\ Agree /\ answers = Solutions
          /\ BottomUp /\ TopDown /\ NodeSupported /\ FoldDone /\ FixDone /\ Passes

----------------------------------------------------------------------------
(* Facts about one state.                                                  *)

\* Two variables in a pattern: it is unfolded at once.
LEMMA LinkedUnfolds ==
  ASSUME NEW t \in TP, NEW i \in JvarsOf(t), NEW j \in JvarsOf(t), i # j
  PROVE  UnfoldsNow(t)
<1>1. NumJvars(t) \in Nat /\ NumJvars(t) # 1
  BY NumJvarsType, OneJvarOnly
<1>2. NumJvars(t) # 0
  <2>. DEFINE S == {f \in Fields : Query[t][f] < 0}
  <2>1. S # {}
    BY DEF JvarsOf, Jvar, Mentions
  <2>2. IsFiniteSet(S)
    BY NumJvarsType
  <2>. QED
    BY <2>1, <2>2, FS_EmptySet DEF NumJvars
<1>. QED
  BY <1>1, <1>2 DEF UnfoldsNow

LEMMA CurRank ==
  ASSUME Shape, TreeOrder(plan)
  PROVE  /\ Rank(plan, CurJvar) = IF reverse THEN N + 1 - pos ELSE pos
         /\ CurJvar \in Jvar /\ pos \in 1 .. N /\ N \in Nat \ {0}
         /\ \A j \in Jvar : Rank(plan, j) \in 1 .. N
         /\ \A j \in Jvar : Rank(plan, j) = Rank(plan, CurJvar) => j = CurJvar
<1>1. plan \in Plans /\ pos \in 1 .. N /\ CurJvar \in Jvar /\ N \in Nat \ {0} /\ N = Len(plan.jvarsitr2)
  BY CurJvarType DEF Shape, TypeOK, N
<1>. DEFINE n == IF reverse THEN N + 1 - pos ELSE pos
<1>2. n \in 1 .. N
  BY <1>1
<1>3. CurJvar = plan.jvarsitr2[n]
  BY DEF CurJvar
<1>4. \A j \in Jvar : Rank(plan, j) \in 1 .. N /\ plan.jvarsitr2[Rank(plan, j)] = j
  BY <1>1, Ranks
<1>5. Rank(plan, CurJvar) = n
  BY <1>1, <1>2, <1>3, Ranks
<1>. QED
  BY <1>1, <1>4, <1>5

\* A join result that all patterns of the variable have: what it may be called is
\* decided by the variables that were worked on before.
LEMMA JoinresSupported ==
  ASSUME Agree, CommonTail, BottomUp, TopDown, TreeOrder(plan), NEW r \in SUBSET Nat,
         \A t \in TP : CurJvar \in JvarsOf(t) => r \subseteq Bindings(t, CurJvar),
         SOVar(CurJvar) => \A x \in r : x <= NumCommSO
  PROVE  /\ UpTurn => r \subseteq Supported(plan, CurJvar)
         /\ DownTurn => r \subseteq Settled(plan, CurJvar)
<1>. DEFINE v == CurJvar
<1>1. /\ v \in Jvar /\ plan \in Plans /\ try \in Nat
      /\ Rank(plan, v) = IF reverse THEN N + 1 - pos ELSE pos
      /\ \A j \in Jvar : Rank(plan, j) \in 1 .. N
  BY CurRank DEF Agree, Reload, Shrink, Shape, TypeOK
<1>2. ASSUME NEW t \in TP, v \in JvarsOf(t), NEW x \in r
      PROVE  \E c \in plan.bm[t] :
               /\ IdOf(plan, t, c, v) = x
               /\ \A i \in JvarsOf(t) : i # v => IdOf(plan, t, c, i) \in Bindings(t, i)
  <2>1. PICK c \in bm[t] : Coord(c, AxisOf(t, v)) = x
    BY <1>2 DEF Bindings, SimpleFold
  <2>2. c \in plan.bm[t]
    BY <2>1 DEF Agree, CellsLoaded
  <2>3. \A i \in JvarsOf(t) : IdOf(plan, t, c, i) \in Bindings(t, i)
    BY DEF Bindings, SimpleFold, IdOf, AxisOf
  <2>. QED
    BY <2>1, <2>2, <2>3 DEF IdOf, AxisOf
<1>3. ASSUME UpTurn, NEW t \in TP, NEW i \in Jvar, Links(plan, t, v, i)
      PROVE  Bindings(t, i) \subseteq Supported(plan, i)
  <2>1. i \in JvarsOf(t) /\ v \in JvarsOf(t) /\ Rank(plan, v) < Rank(plan, i)
    BY <1>3 DEF Links
  <2>2. v # i /\ UnfoldsNow(t)
    <3>1. v # i
      BY <1>1, <2>1
    <3>. QED
      BY <2>1, <3>1, LinkedUnfolds
  <2>3. v \notin plan.leaf_nodes
    <3>1. Rank(plan, v) \in DOMAIN plan.jvarsitr2 /\ Rank(plan, i) \in DOMAIN plan.jvarsitr2
          /\ plan.jvarsitr2[Rank(plan, v)] = v /\ plan.jvarsitr2[Rank(plan, i)] = i
      BY <1>1, Ranks
    <3>2. Mentions(t, v) /\ Mentions(t, i)
      BY <2>1 DEF JvarsOf
    <3>. QED
      BY <2>1, <3>1, <3>2 DEF TreeOrder
  <2>4. Past(i)
    BY <1>1, <1>3, <2>1, <2>3 DEF UpTurn, Past
  <2>. QED
    BY <2>1, <2>2, <2>4, NoOverhang DEF BottomUp, Within
<1>4. ASSUME UpTurn, NEW x \in r PROVE x \in Supported(plan, v)
  <2>1. ASSUME NEW t \in TP, v \in JvarsOf(t)
        PROVE  \E c \in plan.bm[t] :
                 /\ IdOf(plan, t, c, v) = x
                 /\ \A i \in Jvar : Links(plan, t, v, i) =>
                      IdOf(plan, t, c, i) \in [h \in Jvar |-> Supported(plan, h)][i]
    <3>1. PICK c \in plan.bm[t] :
               /\ IdOf(plan, t, c, v) = x
               /\ \A i \in JvarsOf(t) : i # v => IdOf(plan, t, c, i) \in Bindings(t, i)
      BY <1>2, <2>1
    <3>2. ASSUME NEW i \in Jvar, Links(plan, t, v, i)
          PROVE  IdOf(plan, t, c, i) \in Supported(plan, i)
      <4>1. i \in JvarsOf(t) /\ i # v
        BY <1>1, <3>2 DEF Links
      <4>. QED
        BY <1>3, <1>4, <3>1, <3>2, <4>1
    <3>. QED
      BY <3>1, <3>2
  <2>2. HasBelow(plan, [h \in Jvar |-> Supported(plan, h)], v, x)
    BY <2>1 DEF HasBelow
  <2>. QED
    BY <1>1, <2>2, SupportedTakes
<1>5. ASSUME DownTurn, NEW t \in TP, NEW i \in Jvar, Links(plan, t, i, v)
      PROVE  Bindings(t, i) \subseteq Settled(plan, i)
  <2>1. i \in JvarsOf(t) /\ v \in JvarsOf(t) /\ Rank(plan, i) < Rank(plan, v)
    BY <1>5 DEF Links
  <2>2. v # i /\ UnfoldsNow(t)
    <3>1. v # i
      BY <1>1, <2>1
    <3>. QED
      BY <2>1, <3>1, LinkedUnfolds
  <2>3. TopPast(i)
    BY <1>1, <1>5, <2>1 DEF DownTurn, TopPast
  <2>. QED
    BY <2>1, <2>2, <2>3, NoOverhang DEF TopDown, Within
<1>6. ASSUME DownTurn, NEW x \in r PROVE x \in Settled(plan, v)
  <2>1. x \in Supported(plan, v)
    BY <1>1, <1>4, <1>6 DEF UpTurn, DownTurn
  <2>2. ASSUME NEW t \in TP, NEW i \in Jvar, Links(plan, t, i, v)
        PROVE  \E c \in plan.bm[t] :
                 /\ IdOf(plan, t, c, v) = x
                 /\ IdOf(plan, t, c, i) \in [h \in Jvar |-> Settled(plan, h)][i]
    <3>1. i \in JvarsOf(t) /\ v \in JvarsOf(t) /\ i # v
      BY <1>1, <2>2 DEF Links
    <3>2. PICK c \in plan.bm[t] :
               /\ IdOf(plan, t, c, v) = x
               /\ \A h \in JvarsOf(t) : h # v => IdOf(plan, t, c, h) \in Bindings(t, h)
      BY <1>2, <1>6, <3>1
    <3>. QED
      BY <1>5, <1>6, <2>2, <3>1, <3>2
  <2>3. HasAbove(plan, [h \in Jvar |-> Settled(plan, h)], v, x)
    BY <2>2 DEF HasAbove
  <2>. QED
    BY <1>1, <2>1, <2>3, SettledTakes
<1>. QED
  BY <1>4, <1>6

\* A pattern that is found unchanged has no fold outside the join result.
LEMMA UnchangedFold ==
  ASSUME Agree, Loaded, pc = "unfold", ~Changed(CurTP, CurAxis)
  PROVE  fold[<<CurTP, CurAxis>>] \subseteq Joinres
<1>. DEFINE x == <<CurTP, CurAxis>>
<1>1. /\ CurTP \in TP /\ CurAxis = AxisOf(CurTP, CurJvar) /\ CurJvar \in JvarsOf(CurTP)
  BY UnfoldFacts DEF Agree, Loaded
<1>2. prev[x] # NULL => joinres[CurJvar] = x
  BY <1>1 DEF Agree, Reload, PrevOwn
<1>3. CASE SOJoin(CurTP, CurJvar)
  BY <1>3 DEF Changed, WithinLimit
<1>4. CASE ~SOJoin(CurTP, CurJvar)
  BY <1>2, <1>4 DEF Changed, Joinres
<1>. QED
  BY <1>3, <1>4

\* A join result holds none of the ids that no unfold clears.
LEMMA JoinresClear ==
  ASSUME CommonTail \/ NodeCommon, pc = "unfold", NEW t \in TP, CurJvar \in JvarsOf(t)
  PROVE  Joinres \cap Overhang(t, CurJvar) = {}
<1>1. CASE CommonTail
  BY <1>1, NoOverhang
<1>2. CASE NodeCommon
  <2>. SUFFICES ASSUME NEW i \in Joinres, i \in Overhang(t, CurJvar) PROVE FALSE
    OBVIOUS
  <2>1. SOVar(CurJvar) /\ i \in Nat /\ ByteOf(i) >= BytesFor(NumSubs)
    BY DEF Overhang
  <2>2. i <= NumCommSO
    BY <1>2, <2>1 DEF NodeCommon, CommonIds
  <2>. QED
    BY <2>1, <2>2, SizesAssumption DEF ByteOf, BytesFor
<1>. QED
  BY <1>1, <1>2

\* What every step keeps within bounds.
LEMMA WithinStep ==
  ASSUME Agree, Loaded, CommonTail \/ NodeCommon, [Next]_vars, NEW j \in Jvar, NEW S, Within(j, S),
         NEW t \in TP, j \in JvarsOf(t)
  PROVE  /\ fold'[<<t, AxisOf(t, j)>>] \subseteq S \cup Overhang(t, j)
         /\ UnfoldsNow(t) => SimpleFold(bm'[t], AxisOf(t, j)) \subseteq S \cup Overhang(t, j)
<1>1. /\ fold[<<t, AxisOf(t, j)>>] \subseteq S \cup Overhang(t, j)
      /\ UnfoldsNow(t) => Bindings(t, j) \subseteq S \cup Overhang(t, j)
  BY DEF Within
<1>2. SimpleFold(bm'[t], AxisOf(t, j)) \subseteq Bindings(t, j)
  <2>1. bm'[t] \subseteq bm[t]
    BY CellsShrink DEF Agree, Reload, Shrink
  <2>. QED
    BY <2>1 DEF Bindings, SimpleFold
<1>3. fold'[<<t, AxisOf(t, j)>>] \subseteq S \cup Overhang(t, j)
  <2>1. CASE JoinFirst \/ JoinAnd
    BY <1>1, <2>1, JoinStep
  <2>2. CASE Unfold
    <3>1. fold'[<<t, AxisOf(t, j)>>] # fold[<<t, AxisOf(t, j)>>] =>
            /\ pc = "unfold" /\ j = CurJvar
            /\ fold'[<<t, AxisOf(t, j)>>] \subseteq Joinres \cup fold[<<t, AxisOf(t, j)>>]
      BY <2>2, UnfoldStep
    <3>2. pc = "unfold" /\ j = CurJvar => Joinres \subseteq S
      <4>. SUFFICES ASSUME pc = "unfold", j = CurJvar PROVE Joinres \subseteq S
        OBVIOUS
      <4>1. PICK f \in TP : Mentions(f, j) /\ joinres[j] = <<f, AxisOf(f, j)>>
        BY DEF Agree, Reload, Shrink, Shape, JoinresPoints, JoinresSet
      <4>2. f \in TP /\ j \in JvarsOf(f) /\ Joinres \cap Overhang(f, j) = {}
        BY <4>1, JoinresClear DEF JvarsOf
      <4>. QED
        BY <4>1, <4>2 DEF Within, Joinres
    <3>. QED
      BY <1>1, <3>1, <3>2
  <2>3. CASE ~(JoinFirst \/ JoinAnd \/ Unfold)
    <3>1. fold' = fold
      BY <2>3 DEF Unfold, Next, EnterNode, SkipLeaf, UnfoldReloadsNothing, TryAgain, ReturnTrue,
         FixAllTpBitmats, Finished, vars
    <3>. QED
      BY <1>1, <3>1
  <2>. QED
    BY <2>1, <2>2, <2>3
<1>. QED
  BY <1>1, <1>2, <1>3

----------------------------------------------------------------------------
(* Steps.                                                                  *)

LEMMA ReduceFrame ==
  ASSUME plan' = plan
  PROVE  /\ N' = N
         /\ \A j : Rank(plan', j) = Rank(plan, j) /\ Supported(plan', j) = Supported(plan, j)
                   /\ Settled(plan', j) = Settled(plan, j)
BY PlanFrame

\* The end of the work on a variable adds that variable, and no other.
LEMMA NextNodePast ==
  ASSUME Shape, TreeOrder(plan), NextNode, plan' = plan, try' = try,
         NEW j \in Jvar
  PROVE  /\ Past(j)' => Past(j) \/ (j = CurJvar /\ UpTurn)
         /\ TopPast(j)' => TopPast(j) \/ (j = CurJvar /\ DownTurn)
<1>. DEFINE r == Rank(plan, j)
<1>1. /\ Rank(plan, CurJvar) = IF reverse THEN N + 1 - pos ELSE pos
      /\ pos \in 1 .. N /\ N \in Nat \ {0} /\ r \in 1 .. N /\ try \in Nat /\ reverse \in BOOLEAN
      /\ r = Rank(plan, CurJvar) => j = CurJvar
  BY CurRank DEF Shape, TypeOK
<1>2. /\ Past(j)' <=> \/ try > 1 \/ pc' \in {"check", "fix", "true"}
                      \/ reverse' /\ r > N + 1 - pos'
                      \/ j \in plan.leaf_nodes /\ (reverse' \/ r < pos')
      /\ TopPast(j)' <=> try > 2 \/ (try = 2 /\ (pc' \in {"check", "fix", "true"} \/ reverse' \/ r < pos'))
  BY ReduceFrame DEF Past, TopPast, PassOver
<1>. HIDE DEF r
<1>3. CASE pos < N
  <2>1. pos' = pos + 1 /\ pc' = "node" /\ reverse' = reverse
    BY <1>3 DEF NextNode
  <2>. QED
    BY <1>1, <1>2, <1>3, <2>1 DEF Past, TopPast, UpTurn, DownTurn, r
<1>4. CASE ~(pos < N) /\ reverse
  <2>1. pos' = 1 /\ pc' = "check" /\ ~reverse'
    BY <1>4, Zenon DEF NextNode
  <2>2. pos = N
    BY <1>1, <1>4
  <2>. QED
    BY <1>1, <1>2, <1>4, <2>1, <2>2 DEF Past, TopPast, UpTurn, DownTurn, r
<1>5. CASE ~(pos < N) /\ ~reverse
  <2>1. pos' = 1 /\ pc' = "node" /\ reverse'
    BY <1>5, Zenon DEF NextNode
  <2>2. pos = N
    BY <1>1, <1>5
  <2>. QED
    BY <1>1, <1>2, <1>5, <2>1, <2>2 DEF Past, TopPast, UpTurn, DownTurn, r
<1>. QED
  BY <1>3, <1>4, <1>5

LEMMA NewlyPast ==
  ASSUME Agree, Passes, TreeOrder(plan), [Next]_vars, plan' = plan, NEW j \in Jvar
  PROVE  LET Ends == Unfold /\ pc' # "unfold" /\ j = CurJvar
         IN /\ Past(j)' => Past(j) \/ (Ends /\ UpTurn)
            /\ TopPast(j)' => TopPast(j) \/ (Ends /\ DownTurn)
<1>1. Shape /\ try \in Nat
  BY DEF Agree, Reload, Shrink, Shape, TypeOK
<1>2. CASE SkipLeaf
  <2>1. NextNode /\ try' = try /\ reverse /\ CurJvar \in plan.leaf_nodes
    BY <1>2 DEF SkipLeaf
  <2>2. Past(CurJvar) /\ (DownTurn => TopPast(CurJvar))
    BY <1>1, <2>1 DEF Past, TopPast, DownTurn
  <2>. QED
    BY <1>1, <2>1, <2>2, NextNodePast
<1>3. CASE Unfold
  <2>1. AfterUnfold /\ pc = "unfold" /\ try' = try
    BY <1>3, UnfoldStep DEF Unfold, UnfoldUnchanged, UnfoldFoldOnly, UnfoldCells
  <2>2. CASE k < Len(NextTP[CurJvar])
    <3>1. UNCHANGED <<pc, reverse, pos, try>>
      BY <2>1, <2>2 DEF AfterUnfold
    <3>. QED
      BY <3>1, ReduceFrame DEF Past, TopPast, PassOver
  <2>3. CASE ~(k < Len(NextTP[CurJvar]))
    <3>1. NextNode
      BY <2>1, <2>3 DEF AfterUnfold
    <3>2. pc' # "unfold"
      BY <3>1 DEF NextNode
    <3>. QED
      BY <1>1, <1>3, <2>1, <3>1, <3>2, NextNodePast
  <2>. QED
    BY <2>2, <2>3
<1>4. CASE TryAgain
  <2>1. pc = "check" /\ try' = try + 1 /\ pc' = "node" /\ UNCHANGED <<reverse, pos>>
        /\ ~reverse /\ pos = 1
    BY <1>4 DEF TryAgain, Passes
  <2>2. Rank(plan, j) \in Nat \ {0}
    BY <1>1, CurRank
  <2>3. Past(j)
    BY <2>1 DEF Past, PassOver
  <2>4. TopPast(j)' => TopPast(j)
    BY <1>1, <2>1, <2>2, ReduceFrame DEF TopPast, PassOver
  <2>. QED
    BY <2>3, <2>4
<1>5. CASE ReturnTrue \/ FixAllTpBitmats
  <2>1. PassOver /\ UNCHANGED <<reverse, pos, try>>
    BY <1>5 DEF ReturnTrue, FixAllTpBitmats, PassOver, loopVars
  <2>. QED
    BY <2>1, ReduceFrame DEF Past, TopPast
<1>6. CASE EnterNode \/ JoinFirst \/ JoinAnd \/ UnfoldReloadsNothing
  <2>1. UNCHANGED <<reverse, pos, try>>
    BY <1>6 DEF EnterNode, JoinFirst, JoinAnd, UnfoldReloadsNothing, loopVars
  <2>2. pc' \in {"join", "unfold", "false", "crash"}
    <3>1. CASE JoinFirst \/ JoinAnd
      <4>1. pc = "join" /\ \E res : AfterJoin(res)
        BY <3>1 DEF JoinFirst, JoinAnd
      <4>. QED
        BY <1>1, <4>1, AfterJoinNext
    <3>. QED
      BY <1>6, <3>1 DEF EnterNode, UnfoldReloadsNothing
  <2>. QED
    BY <2>1, <2>2, ReduceFrame DEF Past, TopPast, PassOver
<1>7. CASE UNCHANGED vars
  BY <1>7, ReduceFrame DEF Past, TopPast, PassOver, vars
<1>. QED
  BY <1>2, <1>3, <1>4, <1>5, <1>6, <1>7 DEF Next, Unfold, Finished

\* Of the patterns worked on so far, this one included, the folds are within the
\* join result.
LEMMA UnfoldedFolds ==
  ASSUME Agree, Loaded, FoldDone, Unfold, NEW m \in 1 .. k
  PROVE  fold'[<<NextTP[CurJvar][m], AxisOf(NextTP[CurJvar][m], CurJvar)>>]
           \subseteq Joinres \cup Overhang(NextTP[CurJvar][m], CurJvar)
<1>1. pc = "unfold"
  BY UnfoldStep
<1>2. CurTP \in TP /\ CurAxis = AxisOf(CurTP, CurJvar) /\ CurJvar \in Jvar
      /\ CurJvar \in JvarsOf(CurTP)
  BY <1>1, UnfoldFacts DEF Agree, Loaded
<1>3. k \in 1 .. Len(NextTP[CurJvar]) /\ Len(NextTP[CurJvar]) \in Nat
  BY <1>1, CurTPType DEF Agree, Reload, Shrink, Shape, IndexOK
<1>4. NextTP[CurJvar][m] \in TP /\ CurJvar \in JvarsOf(NextTP[CurJvar][m])
  <2>1. m \in 1 .. Len(NextTP[CurJvar])
    BY <1>3
  <2>. QED
    BY <1>2, <2>1, ListedPattern
<1>5. CASE m = k
  <2>1. NextTP[CurJvar][m] = CurTP
    BY <1>5 DEF CurTP
  <2>2. CASE UnfoldUnchanged
    <3>1. fold' = fold /\ ~Changed(CurTP, CurAxis)
      BY <2>2 DEF UnfoldUnchanged
    <3>. QED
      BY <1>1, <1>2, <2>1, <3>1, UnchangedFold
  <2>3. CASE UnfoldFoldOnly \/ UnfoldCells
    <3>1. /\ fold' = [fold EXCEPT ![<<CurTP, CurAxis>>] = NewFold(CurTP, CurAxis)]
          /\ NewFold(CurTP, CurAxis) \subseteq Joinres \cup Overhang(CurTP, CurJvar)
      BY <1>1, <2>3, NewFoldIsJoinres DEF UnfoldFoldOnly, UnfoldCells, IsJoinres
    <3>2. fold \in [TP \X Axis -> SUBSET Nat] /\ <<CurTP, CurAxis>> \in TP \X Axis
      BY <1>1, UnfoldFacts DEF Agree, Loaded, Reload, Shrink, Shape, TypeOK
    <3>. QED
      BY <1>2, <2>1, <3>1, <3>2
  <2>. QED
    BY <2>2, <2>3 DEF Unfold
<1>6. CASE m # k
  <2>1. m \in 1 .. k - 1
    BY <1>3, <1>6
  <2>2. fold[<<NextTP[CurJvar][m], AxisOf(NextTP[CurJvar][m], CurJvar)>>]
          \subseteq Joinres \cup Overhang(NextTP[CurJvar][m], CurJvar)
    BY <1>1, <2>1 DEF FoldDone
  <2>. QED
    BY <1>4, <2>2, UnfoldStep
<1>. QED
  BY <1>5, <1>6

\* After the last pattern the variable is within its join result everywhere.
LEMMA UnfoldEnds ==
  ASSUME Agree, Loaded, FoldDone, Unfold, pc' # "unfold",
         NEW t \in TP, CurJvar \in JvarsOf(t)
  PROVE  /\ fold'[<<t, AxisOf(t, CurJvar)>>] \subseteq Joinres \cup Overhang(t, CurJvar)
         /\ UnfoldsNow(t) =>
              SimpleFold(bm'[t], AxisOf(t, CurJvar)) \subseteq Joinres \cup Overhang(t, CurJvar)
<1>1. pc = "unfold" /\ AfterUnfold
  BY UnfoldStep
<1>2. ~(k < Len(NextTP[CurJvar]))
  BY <1>1 DEF AfterUnfold
<1>3. k = Len(NextTP[CurJvar]) /\ k \in Nat /\ CurJvar \in Jvar
  BY <1>1, <1>2, CurTPType, CurJvarType DEF Agree, Reload, Shrink, Shape, IndexOK
<1>4. PICK m \in DOMAIN NextTP[CurJvar] : NextTP[CurJvar][m] = t
  BY DEF Loaded, AllListed
<1>5. m \in 1 .. k
  BY <1>3, <1>4, PruneAssumption
<1>6. UnfoldsNow(t) =>
        SimpleFold(bm'[t], AxisOf(t, CurJvar)) \subseteq Joinres \cup Overhang(t, CurJvar)
  BY <1>4, <1>5, UnfoldDone DEF IsJoinres
<1>. QED
  BY <1>4, <1>5, <1>6, UnfoldedFolds

LEMMA PassesKept ==
  ASSUME Reduce, Loaded, CommonTail, Trees, [Next]_vars, plan' = plan
  PROVE  BottomUp' /\ TopDown'
<1>1. plan \in Plans /\ TreeOrder(plan)
  BY DEF Reduce, Agree, Reload, Shrink, Shape, Trees
<1>2. ASSUME NEW j \in Jvar, NEW S, NEW t \in TP, j \in JvarsOf(t),
             Within(j, S) \/ (Unfold /\ pc' # "unfold" /\ j = CurJvar /\ Joinres \subseteq S)
      PROVE  /\ fold'[<<t, AxisOf(t, j)>>] \subseteq S
             /\ UnfoldsNow(t) => SimpleFold(bm'[t], AxisOf(t, j)) \subseteq S
  <2>0. Overhang(t, j) = {}
    BY <1>2, NoOverhang
  <2>1. CASE Within(j, S)
    BY <1>2, <2>0, <2>1, WithinStep DEF Reduce
  <2>2. CASE Unfold /\ pc' # "unfold" /\ j = CurJvar /\ Joinres \subseteq S
    BY <1>2, <2>0, <2>2, UnfoldEnds DEF Reduce
  <2>. QED
    BY <1>2, <2>1, <2>2
<1>3. Unfold => pc = "unfold"
  BY UnfoldStep DEF Reduce
<1>4. BottomUp'
  <2>. SUFFICES ASSUME NEW j \in Jvar, Past(j)', NEW t \in TP, j \in JvarsOf(t)
                PROVE  /\ fold'[<<t, AxisOf(t, j)>>] \subseteq Supported(plan, j)
                       /\ UnfoldsNow(t) =>
                            SimpleFold(bm'[t], AxisOf(t, j)) \subseteq Supported(plan, j)
    BY ReduceFrame, PlanFrame DEF BottomUp, Within, Bindings
  <2>1. \/ Within(j, Supported(plan, j))
        \/ Unfold /\ pc' # "unfold" /\ j = CurJvar /\ Joinres \subseteq Supported(plan, j)
    BY <1>1, <1>3, NewlyPast DEF Reduce, BottomUp, NodeSupported
  <2>. QED
    BY <1>2, <2>1
<1>5. TopDown'
  <2>. SUFFICES ASSUME NEW j \in Jvar, TopPast(j)', NEW t \in TP, j \in JvarsOf(t)
                PROVE  /\ fold'[<<t, AxisOf(t, j)>>] \subseteq Settled(plan, j)
                       /\ UnfoldsNow(t) =>
                            SimpleFold(bm'[t], AxisOf(t, j)) \subseteq Settled(plan, j)
    BY ReduceFrame, PlanFrame DEF TopDown, Within, Bindings
  <2>1. \/ Within(j, Settled(plan, j))
        \/ Unfold /\ pc' # "unfold" /\ j = CurJvar /\ Joinres \subseteq Settled(plan, j)
    BY <1>1, <1>3, NewlyPast DEF Reduce, TopDown, NodeSupported
  <2>. QED
    BY <1>2, <2>1
<1>. QED
  BY <1>4, <1>5

\* When the last fold has been ANDed into it, the join result is ids that all the
\* patterns of the variable have; common ones, if two have it in different
\* positions.
LEMMA JoinEnds ==
  ASSUME Agree, Loaded, Agree', JoinFirst \/ JoinAnd, pc' = "unfold"
  PROVE  /\ Joinres' \in SUBSET Nat /\ CurJvar' = CurJvar /\ CurJvar \in Jvar /\ k' = 1
         /\ \A t \in TP : CurJvar \in JvarsOf(t) => Joinres' \subseteq Bindings(t, CurJvar)
         /\ SOVar(CurJvar) => \A x \in Joinres' : x <= NumCommSO
<1>1. /\ pc = "join" /\ UNCHANGED <<plan, bm, reverse, pos, try>> /\ CurJvar' = CurJvar
      /\ \E res : AfterJoin(res)
  BY CurJvarFrame DEF JoinFirst, JoinAnd, fixed, loopVars
<1>2. k' = 1 /\ CurJvar \in Jvar
  BY <1>1, AfterJoinNext, CurJvarType DEF Agree, Reload, Shrink, Shape
<1>3. /\ joinres'[CurJvar] \in TP \X Axis
      /\ fold' \in [TP \X Axis -> SUBSET Nat]
  <2>1. Shape'
    BY DEF Agree, Reload, Shrink
  <2>. QED
    BY <1>1, <1>2, <2>1, PlanFrame DEF Shape, TypeOK, JoinresSet
<1>. DEFINE r == fold'[joinres'[CurJvar]]
<1>4. r \in SUBSET Nat
  BY <1>3
<1>5. ASSUME NEW t \in TP, CurJvar \in JvarsOf(t)
      PROVE  /\ r \subseteq Bindings(t, CurJvar)
             /\ PosOf(joinres'[CurJvar][1], CurJvar) # PosOf(t, CurJvar) =>
                  \A x \in r : x <= NumCommSO
  <2>1. PICK m \in DOMAIN NextTP[CurJvar] : NextTP[CurJvar][m] = t
    BY <1>5 DEF Loaded, AllListed
  <2>2. m \in 1 .. Len(NextTP[CurJvar])
    BY <1>2, <2>1, PruneAssumption
  <2>3. \A n \in 1 .. Len(NextTP[CurJvar]) : Agreed(n)'
    BY <1>1, <1>2 DEF Agree, Reload, NodeAgreed
  <2>4. Agreed(m)'
    BY <2>2, <2>3
  <2>. QED
    BY <1>1, <2>1, <2>4, PlanFrame DEF Agreed, Bindings, SOJoin, JoinresDim
<1>6. SOVar(CurJvar) => \A x \in r : x <= NumCommSO
  <2>. SUFFICES ASSUME SOVar(CurJvar) PROVE \A x \in r : x <= NumCommSO
    OBVIOUS
  <2>1. PICK t \in TP, u \in TP : /\ Mentions(t, CurJvar) /\ Mentions(u, CurJvar)
                                  /\ PosOf(t, CurJvar) = "SUB" /\ PosOf(u, CurJvar) = "OBJ"
    BY DEF SOVar
  <2>2. CurJvar \in JvarsOf(t) /\ CurJvar \in JvarsOf(u)
    BY <1>2, <2>1 DEF JvarsOf
  <2>. HIDE DEF r
  <2>. QED
    BY <1>5, <2>1, <2>2
<1>7. Joinres' = r
  BY <1>1 DEF Joinres
<1>. HIDE DEF r
<1>. QED
  BY <1>1, <1>2, <1>4, <1>5, <1>6, <1>7

LEMMA JoinReduce ==
  ASSUME Reduce, Loaded, CommonTail, Trees, Agree', JoinFirst \/ JoinAnd
  PROVE  NodeSupported'
<1>. SUFFICES ASSUME pc' = "unfold" PROVE NodeSupported'
  BY DEF NodeSupported
<1>. DEFINE r == Joinres'
<1>1. /\ r \in SUBSET Nat /\ CurJvar' = CurJvar /\ CurJvar \in Jvar
      /\ \A t \in TP : CurJvar \in JvarsOf(t) => r \subseteq Bindings(t, CurJvar)
      /\ SOVar(CurJvar) => \A x \in r : x <= NumCommSO
  BY JoinEnds DEF Reduce
<1>2. UNCHANGED <<plan, reverse, pos, try>>
  BY DEF JoinFirst, JoinAnd, fixed, loopVars
<1>. HIDE DEF r
<1>3. TreeOrder(plan) /\ Agree /\ BottomUp /\ TopDown
  BY DEF Reduce, Agree, Reload, Shrink, Shape, Trees
<1>4. /\ UpTurn => r \subseteq Supported(plan, CurJvar)
      /\ DownTurn => r \subseteq Settled(plan, CurJvar)
  BY <1>1, <1>3, JoinresSupported
<1>5. (UpTurn' <=> UpTurn) /\ (DownTurn' <=> DownTurn)
  BY <1>1, <1>2 DEF UpTurn, DownTurn
<1>. QED
  BY <1>1, <1>2, <1>4, <1>5, ReduceFrame DEF NodeSupported, r

LEMMA UnfoldReduce ==
  ASSUME Reduce, Loaded, Unfold
  PROVE  NodeSupported'
<1>. SUFFICES ASSUME pc' = "unfold" PROVE NodeSupported'
  BY DEF NodeSupported
<1>1. /\ pc = "unfold" /\ UNCHANGED <<plan, joinres, try>> /\ AfterUnfold
      /\ fold'[joinres[CurJvar]] = Joinres
  BY UnfoldStep DEF Reduce, Unfold, UnfoldUnchanged, UnfoldFoldOnly, UnfoldCells
<1>2. UNCHANGED <<reverse, pos>>
  BY <1>1 DEF AfterUnfold, NextNode
<1>3. CurJvar' = CurJvar
  BY <1>1, <1>2, CurJvarFrame
<1>4. Joinres' = Joinres
  BY <1>1, <1>3 DEF Joinres
<1>5. (UpTurn' <=> UpTurn) /\ (DownTurn' <=> DownTurn)
  BY <1>1, <1>2, <1>3 DEF UpTurn, DownTurn
<1>. QED
  BY <1>1, <1>3, <1>4, <1>5, ReduceFrame DEF Reduce, NodeSupported

LEMMA UnfoldFoldDone ==
  ASSUME Agree, Loaded, FoldDone, Unfold
  PROVE  FoldDone'
<1>. SUFFICES ASSUME pc' = "unfold" PROVE FoldDone'
  BY DEF FoldDone
<1>1. /\ pc = "unfold" /\ UNCHANGED <<plan, joinres>> /\ AfterUnfold
      /\ fold'[joinres[CurJvar]] = Joinres
  BY UnfoldStep
<1>2. k' = k + 1 /\ UNCHANGED <<reverse, pos>> /\ k \in Nat
  BY <1>1 DEF AfterUnfold, NextNode, Agree, Reload, Shrink, Shape, TypeOK
<1>3. CurJvar' = CurJvar
  BY <1>1, <1>2, CurJvarFrame
<1>4. Joinres' = Joinres
  BY <1>1, <1>3 DEF Joinres
<1>. SUFFICES ASSUME NEW m \in 1 .. k' - 1
              PROVE  fold'[<<NextTP[CurJvar][m], AxisOf(NextTP[CurJvar][m], CurJvar)>>]
                       \subseteq Joinres \cup Overhang(NextTP[CurJvar][m], CurJvar)
  BY <1>1, <1>3, <1>4, PlanFrame DEF FoldDone, Overhang, SOVar
<1>5. m \in 1 .. k
  BY <1>2
<1>. QED
  BY <1>5, UnfoldedFolds

LEMMA NextFoldDone ==
  ASSUME Agree, Loaded, FoldDone, [Next]_vars
  PROVE  FoldDone'
<1>1. CASE JoinFirst \/ JoinAnd
  <2>1. pc = "join" /\ \E res : AfterJoin(res)
    BY <1>1 DEF JoinFirst, JoinAnd
  <2>2. pc' = "unfold" => k' = 1
    BY <2>1, AfterJoinNext DEF Agree, Reload, Shrink
  <2>3. pc' = "unfold" => 1 .. k' - 1 = {}
    BY <2>2
  <2>. QED
    BY <2>3 DEF FoldDone
<1>2. CASE Unfold
  BY <1>2, UnfoldFoldDone
<1>3. CASE UNCHANGED vars
  <2>1. CurJvar' = CurJvar /\ \A t, j : AxisOf(t, j)' = AxisOf(t, j)
    BY <1>3, CurJvarFrame, PlanFrame DEF vars
  <2>2. Joinres' = Joinres /\ UNCHANGED <<pc, fold, k>>
    BY <1>3, <2>1 DEF Joinres, vars
  <2>. QED
    BY <2>1, <2>2 DEF FoldDone, Overhang, SOVar
<1>4. CASE ~(JoinFirst \/ JoinAnd \/ Unfold \/ UNCHANGED vars)
  <2>1. pc' # "unfold"
    BY <1>4 DEF Next, Unfold, EnterNode, SkipLeaf, NextNode, UnfoldReloadsNothing, TryAgain,
       ReturnTrue, FixAllTpBitmats, Finished
  <2>. QED
    BY <2>1 DEF FoldDone
<1>. QED
  BY <1>1, <1>2, <1>3, <1>4

\* fix_all_tp_bitmats finds the axis of a variable that is no predicate.
LEMMA FixAxisIs ==
  ASSUME Shape, WellLoaded, NEW t \in TP, NEW j \in JvarsOf(t), PosOf(t, j) # "PRED",
         ~UnfoldsNow(t)
  PROVE  FixAxis(t) = AxisOf(t, j)
<1>. DEFINE V == {f \in Fields : Query[t][f] <= 0}
            J == {f \in Fields : Query[t][f] < 0}
<1>1. j < 0 /\ \E f \in Fields : Query[t][f] = j
  BY DEF JvarsOf, Jvar, Mentions
<1>2. \A f \in Fields : Query[t][f] \in Int
  <2>1. Query[t] \in [sub : Int, pred : Int, obj : Int]
    BY QueryAssumption, SeqElement DEF TP
  <2>. QED
    BY <2>1 DEF Fields
<1>3. IsFiniteSet(V) /\ IsFiniteSet(J)
  <2>1. Fields = ({"sub"} \cup {"pred"}) \cup {"obj"}
    BY DEF Fields
  <2>2. IsFiniteSet(Fields)
    BY <2>1, FS_Singleton, FS_AddElement
  <2>. QED
    BY <2>2, FS_Subset
<1>4. V # {} /\ J # {}
  BY <1>1, <1>2
<1>5. NumVars(t) \in Nat \ {0} /\ NumJvars(t) \in Nat \ {0}
  BY <1>3, <1>4, FS_EmptySet, FS_CardinalityType DEF NumVars, NumJvars
<1>6. NumJvars(t) = 1 /\ ~(NumVars(t) <= 1)
  BY <1>5 DEF UnfoldsNow
<1>7. ~(Query[t].sub < 0 /\ Query[t].obj < 0)
  BY <1>6, OneJvar
<1>8. /\ plan.dimension[t] \in Dimension
      /\ <<plan.dimension[t], PosOf(t, j)>> \notin
           {<<"SPO", "PRED">>, <<"OPS", "PRED">>, <<"PSO", "SUB">>, <<"POS", "OBJ">>}
  BY PruneAssumption DEF Shape, Plan, WellLoaded
<1>9. CASE PosOf(t, j) = "SUB"
  <2>1. Query[t].sub < 0 /\ ~(Query[t].obj < 0)
    BY <1>1, <1>7, <1>9 DEF PosOf
  <2>. QED
    BY <1>6, <1>8, <1>9, <2>1 DEF FixAxis, AxisOf, JoinAxis, Dimension
<1>10. CASE PosOf(t, j) = "OBJ"
  <2>1. Query[t].obj < 0 /\ ~(Query[t].sub < 0)
    BY <1>1, <1>7, <1>10 DEF PosOf
  <2>. QED
    BY <1>6, <1>8, <1>10, <2>1 DEF FixAxis, AxisOf, JoinAxis, Dimension
<1>. QED
  BY <1>9, <1>10 DEF PosOf

LEMMA FixReduce ==
  ASSUME Agree, Loaded, FixAllTpBitmats
  PROVE  FixDone'
<1>. SUFFICES ASSUME NEW t \in TP, NEW j \in JvarsOf(t), PosOf(t, j) # "PRED", ~UnfoldsNow(t)
              PROVE  SimpleFold(bm'[t], AxisOf(t, j)) \subseteq fold[<<t, AxisOf(t, j)>>]
  BY PlanFrame DEF FixDone, FixAllTpBitmats, fixed, Bindings
<1>1. FixAxis(t) = AxisOf(t, j) /\ FixAxis(t) # NULL
  BY FixAxisIs, AxisOfType, PruneAssumption DEF Agree, Reload, Shrink, Loaded
<1>2. bm'[t] = SimpleUnfold(bm[t], AxisOf(t, j), fold[<<t, AxisOf(t, j)>>])
  BY <1>1 DEF FixAllTpBitmats
<1>. QED
  BY <1>2 DEF SimpleFold, SimpleUnfold

LEMMA NextFixDone ==
  ASSUME Agree, Loaded, FixDone, [Next]_vars
  PROVE  FixDone'
<1>1. CASE FixAllTpBitmats
  BY <1>1, FixReduce
<1>2. CASE ~FixAllTpBitmats /\ ~UNCHANGED vars
  <2>1. CASE JoinFirst \/ JoinAnd
    <3>1. pc = "join" /\ \E res : AfterJoin(res)
      BY <2>1 DEF JoinFirst, JoinAnd
    <3>2. pc' # "true"
      BY <3>1, AfterJoinNext DEF Agree, Reload, Shrink
    <3>. QED
      BY <3>2 DEF FixDone
  <2>2. CASE Unfold
    <3>1. AfterUnfold /\ pc = "unfold" /\ plan' = plan
      BY <2>2, UnfoldStep
    <3>2. pc' # "true"
      BY <3>1, AfterUnfoldNext DEF Agree, Reload, Shrink
    <3>. QED
      BY <3>2 DEF FixDone
  <2>3. CASE ~(JoinFirst \/ JoinAnd \/ Unfold)
    <3>1. pc' # "true"
      BY <1>2, <2>3 DEF Next, Unfold, EnterNode, SkipLeaf, NextNode, UnfoldReloadsNothing, TryAgain,
         ReturnTrue, Finished
    <3>. QED
      BY <3>1 DEF FixDone
  <2>. QED
    BY <2>1, <2>2, <2>3
<1>3. CASE UNCHANGED vars
  BY <1>3, PlanFrame DEF vars, FixDone, Bindings
<1>. QED
  BY <1>1, <1>2, <1>3

LEMMA InitReduce == ASSUME Loaded, Trees, Init PROVE Reduce
<1>1. /\ Agree /\ answers = Solutions /\ plan \in Plans /\ pc = "node" /\ try = 1
      /\ ~reverse /\ pos = 1
  BY InitAgree DEF Init
<1>2. \A j \in Jvar : Rank(plan, j) \in Nat \ {0}
  BY <1>1, Ranks DEF Trees
<1>3. \A j \in Jvar : ~Past(j) /\ ~TopPast(j)
  BY <1>1, <1>2 DEF Past, TopPast, PassOver
<1>. QED
  BY <1>1, <1>3 DEF Reduce, BottomUp, TopDown, NodeSupported, FoldDone, FixDone, Passes

LEMMA NextReduce == ASSUME Reduce, Loaded, CommonTail, Trees, [Next]_vars PROVE Reduce'
<1>1. Agree' /\ plan' = plan /\ answers' = answers
  <2>1. Agree'
    BY NextAgree DEF Reduce
  <2>. QED
    BY <2>1 DEF Next, EnterNode, SkipLeaf, JoinFirst, JoinAnd, UnfoldUnchanged, UnfoldFoldOnly,
       UnfoldCells, UnfoldReloadsNothing, TryAgain, ReturnTrue, FixAllTpBitmats, Finished, fixed, vars
<1>2. BottomUp' /\ TopDown'
  BY <1>1, PassesKept
<1>3. (answers = Solutions)'
  <2>1. Solutions' = Solutions
    BY <1>1 DEF Solutions, LoadedIds, Matches, AxisOf
  <2>. QED
    BY <1>1, <2>1 DEF Reduce
<1>4. NodeSupported'
  <2>1. CASE JoinFirst \/ JoinAnd
    BY <1>1, <2>1, JoinReduce
  <2>2. CASE Unfold
    BY <2>2, UnfoldReduce
  <2>3. CASE UNCHANGED vars
    <3>1. CurJvar' = CurJvar /\ (UpTurn' <=> UpTurn) /\ (DownTurn' <=> DownTurn)
      BY <2>3, CurJvarFrame DEF UpTurn, DownTurn, vars
    <3>2. Joinres' = Joinres /\ pc' = pc
      BY <2>3, <3>1 DEF Joinres, vars
    <3>. QED
      BY <1>1, <3>1, <3>2, ReduceFrame DEF Reduce, NodeSupported
  <2>4. CASE ~(JoinFirst \/ JoinAnd \/ Unfold \/ UNCHANGED vars)
    <3>1. pc' # "unfold"
      BY <2>4 DEF Next, Unfold, EnterNode, SkipLeaf, NextNode, UnfoldReloadsNothing, TryAgain,
         ReturnTrue, FixAllTpBitmats, Finished
    <3>. QED
      BY <3>1 DEF NodeSupported
  <2>. QED
    BY <2>1, <2>2, <2>3, <2>4
<1>5. FoldDone' /\ FixDone'
  BY NextFoldDone, NextFixDone DEF Reduce
<1>6. Passes'
  <2>1. CASE SkipLeaf \/ Unfold
    <3>1. pc' = "check" => NextNode /\ pc # "check"
      <4>1. CASE SkipLeaf
        BY <4>1 DEF SkipLeaf
      <4>2. CASE Unfold
        <5>1. AfterUnfold /\ pc = "unfold"
          BY <4>2, UnfoldStep DEF Reduce
        <5>. QED
          BY <5>1 DEF AfterUnfold
      <4>. QED
        BY <2>1, <4>1, <4>2
    <3>2. pc' = "check" => pos' = 1 /\ ~reverse'
      BY <3>1, Zenon DEF NextNode
    <3>3. pc' \in {"unfold", "node", "check"}
      <4>1. CASE SkipLeaf
        BY <4>1 DEF SkipLeaf, NextNode
      <4>2. CASE Unfold
        <5>1. AfterUnfold /\ pc = "unfold"
          BY <4>2, UnfoldStep DEF Reduce
        <5>. QED
          BY <1>1, <5>1, AfterUnfoldNext DEF Reduce, Agree, Reload, Shrink
      <4>. QED
        BY <2>1, <4>1, <4>2
    <3>. QED
      BY <3>2, <3>3 DEF Passes
  <2>2. CASE JoinFirst \/ JoinAnd
    <3>1. pc = "join" /\ \E res : AfterJoin(res)
      BY <2>2 DEF JoinFirst, JoinAnd
    <3>2. pc' \in {"join", "unfold", "false"}
      BY <3>1, AfterJoinNext DEF Reduce, Agree, Reload, Shrink
    <3>. QED
      BY <3>2 DEF Passes
  <2>3. CASE EnterNode \/ UnfoldReloadsNothing \/ TryAgain \/ ReturnTrue \/ FixAllTpBitmats
    BY <2>3 DEF EnterNode, UnfoldReloadsNothing, TryAgain, ReturnTrue, FixAllTpBitmats, Passes,
       Reduce, loopVars
  <2>4. CASE UNCHANGED vars
    BY <2>4 DEF vars, Reduce, Passes
  <2>. QED
    BY <2>1, <2>2, <2>3, <2>4 DEF Next, Unfold, Finished
<1>. QED
  BY <1>1, <1>2, <1>3, <1>4, <1>5, <1>6 DEF Reduce

LEMMA ReduceInvariant == ASSUME Loaded, CommonTail, Trees PROVE Spec => []Reduce
<1>1. Init => Reduce
  BY InitReduce
<1>2. Reduce /\ [Next]_vars => Reduce'
  BY NextReduce
<1>. QED
  BY <1>1, <1>2, PTL DEF Spec

----------------------------------------------------------------------------
(* What is left when the phase returns.                                    *)

\* A pattern with a free variable is never unfolded on a predicate variable, not
\* even by fix_all_tp_bitmats.
CutOn(j) == \A t \in TP : j \in JvarsOf(t) /\ PosOf(t, j) = "PRED" => UnfoldsNow(t)

\* A pattern holds only ids within those of its variable.
LEMMA CellsWithin ==
  ASSUME Reduce, CommonTail, pc = "true", NEW t \in TP, NEW j \in JvarsOf(t), CutOn(j),
         NEW S, Within(j, S), NEW c \in bm[t]
  PROVE  IdOf(plan, t, c, j) \in S
<1>1. IdOf(plan, t, c, j) \in Bindings(t, j)
  BY DEF IdOf, Bindings, SimpleFold, AxisOf
<1>2. CASE UnfoldsNow(t)
  BY <1>1, <1>2, NoOverhang DEF Within
<1>3. CASE ~UnfoldsNow(t)
  <2>1. PosOf(t, j) # "PRED"
    BY <1>3 DEF CutOn
  <2>2. Bindings(t, j) \subseteq fold[<<t, AxisOf(t, j)>>]
    BY <1>3, <2>1 DEF Reduce, FixDone
  <2>. QED
    BY <1>1, <2>2, NoOverhang DEF Within
<1>. QED
  BY <1>2, <1>3

\* A cell whose ids are settled and supported is in a solution.
LEMMA CellReduced ==
  ASSUME Reduce, Loaded, CommonTail, Trees, pc = "true", NEW t \in TP, NEW j \in JvarsOf(t), CutOn(j),
         Within(j, Settled(plan, j)), \A i \in JvarsOf(t) \ {j} : Rank(plan, j) < Rank(plan, i)
  PROVE  Reduced(t)
<1>. SUFFICES ASSUME NEW c \in bm[t] PROVE \E sol \in answers : Matches(c, t, sol)
  BY DEF Reduced
<1>1. Shape /\ plan \in Plans /\ TreeOrder(plan) /\ OneJvarPerAxis /\ c \in plan.bm[t]
  BY DEF Reduce, Agree, CellsLoaded, Reload, Shrink, Shape, Trees, Loaded, Assumed
<1>2. IdOf(plan, t, c, j) \in Settled(plan, j)
  BY CellsWithin
<1>3. ASSUME NEW i \in JvarsOf(t) \ {j}
      PROVE  Links(plan, t, j, i) /\ IdOf(plan, t, c, i) \in Supported(plan, i)
  <2>1. UnfoldsNow(t) /\ i \in Jvar
    BY LinkedUnfolds, JvarsOfJvar
  <2>2. Within(i, Supported(plan, i))
    BY <2>1 DEF Reduce, BottomUp, Past, PassOver
  <2>3. IdOf(plan, t, c, i) \in Bindings(t, i)
    BY DEF IdOf, Bindings, SimpleFold, AxisOf
  <2>. QED
    BY <2>1, <2>2, <2>3, NoOverhang DEF Within, Links
<1>4. PICK s : Partial(plan, Jvar, s) /\ \A i \in JvarsOf(t) : IdOf(plan, t, c, i) = s[i]
  BY <1>1, <1>2, <1>3, CellSolved
<1>5. s \in answers
  BY <1>1, <1>4, PartialSolves DEF Reduce
<1>. QED
  BY <1>4, <1>5 DEF Matches, IdOf, AxisOf

\* One forward pass and one reverse pass, which skips the leaves, leave nothing
\* superfluous in the patterns of the first variable of an acyclic query: each of
\* their cells is in a solution, however many patterns the query has.
THEOREM RootIsReduced ==
  ASSUME Loaded, CommonTail, Trees, \A p \in Plans : CutOn(p.jvarsitr2[1])
  PROVE  Spec => []RootReduced
<1>1. ASSUME Reduce PROVE RootReduced
  <2>. DEFINE v == plan.jvarsitr2[1]
  <2>. SUFFICES ASSUME pc = "true", NEW t \in TP, Mentions(t, v) PROVE Reduced(t)
    BY DEF RootReduced
  <2>1. plan \in Plans /\ TreeOrder(plan)
    BY <1>1 DEF Reduce, Agree, Reload, Shrink, Shape, Trees
  <2>2. /\ v \in Jvar /\ Rank(plan, v) = 1
        /\ \A i \in Jvar : Rank(plan, i) \in Nat \ {0}
        /\ \A i \in Jvar : Rank(plan, i) = 1 => i = v
    <3>1. 1 \in 1 .. Len(plan.jvarsitr2)
      BY <2>1, Ranks
    <3>. QED
      BY <2>1, <3>1, Ranks
  <2>3. v \in JvarsOf(t) /\ CutOn(v)
    BY <2>1, <2>2 DEF JvarsOf
  <2>. HIDE DEF v
  <2>4. Supported(plan, v) \subseteq Settled(plan, v)
    <3>1. ASSUME NEW x \in Supported(plan, v) PROVE x \in Settled(plan, v)
      <4>1. HasAbove(plan, [i \in Jvar |-> Settled(plan, i)], v, x)
        BY <2>2 DEF HasAbove, Links
      <4>. QED
        BY <2>2, <4>1, SettledTakes
    <3>. QED
      BY <3>1
  <2>5. Within(v, Supported(plan, v))
    BY <1>1, <2>2 DEF Reduce, BottomUp, Past, PassOver
  <2>6. Within(v, Settled(plan, v))
    BY <2>4, <2>5 DEF Within
  <2>7. \A i \in JvarsOf(t) \ {v} : Rank(plan, v) < Rank(plan, i)
    BY <2>2, JvarsOfJvar
  <2>. QED
    BY <1>1, <2>3, <2>6, <2>7, CellReduced
<1>. QED
  BY <1>1, ReduceInvariant, PTL

LEMMA ReduceLeavesAll ==
  ASSUME Reduce, Loaded, CommonTail, Trees, Sim, \A j \in Jvar : CutOn(j)
  PROVE  AllReduced
<1>. SUFFICES ASSUME pc = "true", NEW t \in TP PROVE Reduced(t)
  BY DEF AllReduced
<1>1. plan \in Plans /\ TreeOrder(plan) /\ OneJvarPerAxis /\ try \in Nat /\ try >= 2
  BY DEF Reduce, Passes, Agree, Reload, Shrink, Shape, TypeOK, Trees, Loaded, Assumed
<1>2. \A i \in Jvar : Rank(plan, i) \in Nat /\ plan.jvarsitr2[Rank(plan, i)] = i
  BY <1>1, Ranks
<1>3. PICK i \in JvarsOf(t) : TRUE
  BY <1>1 DEF TreeOrder
<1>4. \E j \in JvarsOf(t) : \A h \in JvarsOf(t) \ {j} : Rank(plan, j) < Rank(plan, h)
  <2>1. \A h \in JvarsOf(t) : h \in Jvar
    BY JvarsOfJvar
  <2>2. CASE JvarsOf(t) = {i}
    BY <2>2
  <2>3. CASE JvarsOf(t) # {i}
    <3>1. PICK h \in JvarsOf(t) : h # i
      BY <1>3, <2>3
    <3>2. \A g \in JvarsOf(t) : g = i \/ g = h
      BY <1>1, <3>1, TwoOnly
    <3>3. Rank(plan, i) < Rank(plan, h) \/ Rank(plan, h) < Rank(plan, i)
      BY <1>2, <2>1, <3>1
    <3>. QED
      BY <3>2, <3>3
  <2>. QED
    BY <2>2, <2>3
<1>5. PICK j \in JvarsOf(t) : \A h \in JvarsOf(t) \ {j} : Rank(plan, j) < Rank(plan, h)
  BY <1>4
<1>6. j \in Jvar /\ CutOn(j)
  BY JvarsOfJvar
<1>7. Within(j, Settled(plan, j))
  BY <1>1, <1>6 DEF Reduce, TopDown, TopPast, PassOver
<1>. QED
  BY <1>5, <1>6, <1>7, CellReduced

\* The second try of prune_triples_sim, which it always makes, leaves nothing
\* superfluous in any pattern.
THEOREM AllAreReduced ==
  ASSUME Loaded, CommonTail, Trees, Sim, \A j \in Jvar : CutOn(j)
  PROVE  Spec => []AllReduced
<1>1. Reduce => AllReduced
  BY ReduceLeavesAll
<1>. QED
  BY <1>1, ReduceInvariant, PTL

\* "I am stable": when prune_triples_sim stops, patterns that share a variable
\* hold the same bindings of it, though the count it stops by looks at one
\* pattern of each variable only.
THEOREM SimIsStable ==
  ASSUME Loaded, CommonTail, Trees, Sim, PartialLastByte
  PROVE  Spec => []Stable
<1>1. ASSUME Reduce, NoAnswerLost PROVE Stable
  <2>. SUFFICES ASSUME pc = "fix", NEW j \in Jvar, NEW t \in TP, NEW u \in TP,
                       Mentions(t, j), Mentions(u, j), UnfoldsNow(t), UnfoldsNow(u),
                       NEW x \in SimpleFold(bm[t], AxisOf(t, j))
                PROVE  x \in SimpleFold(bm[u], AxisOf(u, j))
    BY DEF Stable
  <2>1. /\ Shape /\ plan \in Plans /\ TreeOrder(plan) /\ OneJvarPerAxis /\ try \in Nat /\ try >= 2
        /\ j \in JvarsOf(t) /\ j \in JvarsOf(u)
    BY <1>1 DEF Reduce, Passes, Agree, Reload, Shrink, Shape, TypeOK, Trees, Loaded, Assumed, JvarsOf
  <2>2. x \in Settled(plan, j)
    <3>1. TopPast(j)
      BY <2>1 DEF TopPast, PassOver
    <3>2. Within(j, Settled(plan, j))
      BY <1>1, <3>1 DEF Reduce, TopDown
    <3>. QED
      BY <2>1, <3>2, NoOverhang DEF Within, Bindings
  <2>3. PICK s : Partial(plan, Jvar, s) /\ s[j] = x
    BY <2>1, <2>2, IdSolved
  <2>4. s \in answers /\ s \in Solutions
    BY <1>1, <2>1, <2>3, PartialSolves DEF Reduce
  <2>5. PICK c \in plan.bm[u] : Matches(c, u, s)
    BY <2>4 DEF Solutions
  <2>6. c \in bm[u] /\ Coord(c, AxisOf(u, j)) = x
    BY <1>1, <2>1, <2>3, <2>4, <2>5 DEF NoAnswerLost, Matches
  <2>. QED
    BY <2>6 DEF SimpleFold
<1>2. CompleteFolds
  BY DEF Loaded, Assumed
<1>. QED
  BY <1>1, <1>2, ReduceInvariant, PruningLosesNothing, PTL
----------------------------------------------------------------------------
(***************************************************************************)
(* Any query, cyclic ones included: once a variable has been worked on,    *)
(* the fold of a pattern that is unfolded at once has every id that the    *)
(* other patterns of the variable still have.  Later passes and other      *)
(* variables only take ids away, and no fold of it is written meanwhile.   *)
(***************************************************************************)

\* Every variable is in the order.
AllOrdered == \A p \in Plans : \A j \in Jvar : \E m \in DOMAIN p.jvarsitr2 : p.jvarsitr2[m] = j

Worked(j) == try > 1 \/ reverse \/ PassOver \/ \E m \in 1 .. pos - 1 : plan.jvarsitr2[m] = j

AtWork(j) == pc \in {"false", "crash"} \/ (pc \in {"join", "unfold"} /\ CurJvar = j)

FoldsBound ==
  \A t \in TP : \A j \in JvarsOf(t) :
    UnfoldsNow(t) /\ Worked(j) /\ ~AtWork(j) => Within(j, fold[<<t, AxisOf(t, j)>>])

\* A variable in subject and object positions has common ids only, from the end of
\* its first join on.
RestCommon == \A j \in Jvar : SOVar(j) /\ Worked(j) /\ ~AtWork(j) => Within(j, CommonIds)

\* The fold of a pattern with no other variable is in the end what its bitmat has.
SinglesExact ==
  pc = "true" => \A t \in TP : \A j \in JvarsOf(t) :
    NumJvars(t) = 1 /\ UnfoldsNow(t) => fold[<<t, AxisOf(t, j)>>] = Bindings(t, j)

Bound == Agree /\ FoldDone /\ FixDone /\ FoldsBound /\ NodeCommon /\ RestCommon /\ SinglesExact

\* A step writes only folds of the variable at work.
LEMMA OtherFolds ==
  ASSUME Agree, Loaded, [Next]_vars, NEW t \in TP, NEW j \in JvarsOf(t), ~AtWork(j)
  PROVE  fold'[<<t, AxisOf(t, j)>>] = fold[<<t, AxisOf(t, j)>>]
<1>1. CASE JoinFirst \/ JoinAnd
  <2>1. pc = "join" /\ j # CurJvar
    BY <1>1 DEF JoinFirst, JoinAnd, AtWork
  <2>2. <<t, AxisOf(t, j)>> # <<CurTP, CurAxis>>
    BY <2>1, CurrentFold DEF Agree, Loaded, Assumed, Reload, Shrink
  <2>3. CASE JoinFirst
    BY <2>2, <2>3 DEF JoinFirst
  <2>4. CASE JoinAnd
    <3>1. PICK f \in TP : Mentions(f, CurJvar) /\ joinres[CurJvar] = <<f, AxisOf(f, CurJvar)>>
      BY <2>4, CurJvarType DEF JoinAnd, Agree, Reload, Shrink, Shape, JoinresPoints
    <3>2. CurJvar \in JvarsOf(f)
      BY <3>1, CurJvarType DEF JvarsOf, Agree, Reload, Shrink, Shape
    <3>3. <<t, AxisOf(t, j)>> # joinres[CurJvar]
      BY <2>1, <3>1, <3>2 DEF Agree, Loaded, Assumed, OneJvarPerAxis, AxisOf, Reload, Shrink, Shape
    <3>4. fold \in [TP \X Axis -> SUBSET Nat] /\ <<t, AxisOf(t, j)>> \in TP \X Axis
      BY AxisOfType DEF Agree, Reload, Shrink, Shape, TypeOK
    <3>. DEFINE f1 == [fold EXCEPT ![<<CurTP, CurAxis>>] = Folded(CurTP, CurAxis)]
    <3>5. f1[<<t, AxisOf(t, j)>>] = fold[<<t, AxisOf(t, j)>>] /\ DOMAIN f1 = TP \X Axis
      BY <2>2, <3>4
    <3>6. PICK res : fold' = [f1 EXCEPT ![joinres[CurJvar]] = res]
      BY <2>4 DEF JoinAnd
    <3>. HIDE DEF f1
    <3>. QED
      BY <3>3, <3>4, <3>5, <3>6
  <2>. QED
    BY <1>1, <2>3, <2>4
<1>2. CASE Unfold
  <2>1. pc = "unfold" /\ j # CurJvar
    BY <1>2, UnfoldStep DEF AtWork
  <2>. QED
    BY <1>2, <2>1, UnfoldStep
<1>3. CASE ~(JoinFirst \/ JoinAnd \/ Unfold)
  BY <1>3 DEF Unfold, Next, EnterNode, SkipLeaf, UnfoldReloadsNothing, TryAgain, ReturnTrue,
     FixAllTpBitmats, Finished, vars
<1>. QED
  BY <1>1, <1>2, <1>3

\* A variable is done when its last pattern has been unfolded.
LEMMA NextNodeWorked ==
  ASSUME Shape, AllOrdered, NextNode, plan' = plan, try' = try, NEW j \in Jvar, Worked(j)'
  PROVE  Worked(j) \/ j = CurJvar
<1>. SUFFICES ASSUME ~Worked(j) PROVE j = CurJvar
  OBVIOUS
<1>1. /\ try' = try /\ ~(try > 1) /\ ~reverse /\ pos \in 1 .. N /\ N \in Nat /\ plan \in Plans
      /\ N = Len(plan.jvarsitr2) /\ plan.jvarsitr2 \in Seq(Jvar) /\ CurJvar = plan.jvarsitr2[pos]
  BY CurJvarType, PruneAssumption DEF Worked, Shape, TypeOK, N, CurJvar, Plan
<1>2. PICK m \in 1 .. N : plan.jvarsitr2[m] = j
  BY <1>1 DEF AllOrdered
<1>3. ~(m \in 1 .. pos - 1)
  BY <1>2 DEF Worked
<1>4. CASE pos < N
  <2>1. pos' = pos + 1 /\ pc' = "node" /\ reverse' = reverse
    BY <1>4 DEF NextNode
  <2>2. PICK n \in 1 .. pos : plan.jvarsitr2[n] = j
    <3>1. \E n \in 1 .. pos' - 1 : plan.jvarsitr2[n] = j
      BY <1>1, <2>1 DEF Worked, PassOver
    <3>. QED
      BY <1>1, <2>1, <3>1
  <2>3. ~(n \in 1 .. pos - 1)
    BY <2>2 DEF Worked
  <2>. QED
    BY <1>1, <2>2, <2>3
<1>5. CASE ~(pos < N)
  BY <1>1, <1>2, <1>3, <1>5
<1>. QED
  BY <1>4, <1>5

LEMMA NewlyAtRest ==
  ASSUME Agree, AllOrdered, Loaded, [Next]_vars, plan' = plan, NEW j \in Jvar, Worked(j)', ~AtWork(j)'
  PROVE  \/ Worked(j) /\ ~AtWork(j)
         \/ Unfold /\ pc' # "unfold" /\ pc' \notin {"false", "crash"} /\ j = CurJvar
<1>1. Shape /\ try \in Nat \ {0}
  BY DEF Agree, Reload, Shrink, Shape, TypeOK
<1>2. CASE SkipLeaf
  <2>1. NextNode /\ try' = try /\ reverse /\ pc = "node"
    BY <1>2 DEF SkipLeaf
  <2>. QED
    BY <2>1 DEF Worked, AtWork
<1>3. CASE Unfold
  <2>1. AfterUnfold /\ pc = "unfold" /\ try' = try
    BY <1>3, UnfoldStep DEF Unfold, UnfoldUnchanged, UnfoldFoldOnly, UnfoldCells
  <2>2. CASE k < Len(NextTP[CurJvar])
    <3>1. UNCHANGED <<pc, reverse, pos, try>>
      BY <2>1, <2>2 DEF AfterUnfold
    <3>2. CurJvar' = CurJvar
      BY <3>1, CurJvarFrame
    <3>. QED
      BY <3>1, <3>2 DEF Worked, AtWork, PassOver
  <2>3. CASE ~(k < Len(NextTP[CurJvar]))
    <3>1. NextNode
      BY <2>1, <2>3 DEF AfterUnfold
    <3>2. pc' \in {"node", "check"}
      BY <3>1 DEF NextNode
    <3>3. Worked(j) \/ j = CurJvar
      BY <1>1, <2>1, <3>1, NextNodeWorked
    <3>. QED
      BY <1>3, <2>1, <3>2, <3>3 DEF AtWork
  <2>. QED
    BY <2>2, <2>3
<1>4. CASE TryAgain
  BY <1>1, <1>4 DEF TryAgain, Worked, AtWork, PassOver
<1>5. CASE ReturnTrue \/ FixAllTpBitmats
  BY <1>5 DEF ReturnTrue, FixAllTpBitmats, Worked, AtWork, PassOver
<1>6. CASE EnterNode \/ UnfoldReloadsNothing
  <2>1. UNCHANGED <<reverse, pos, try>> /\ pc \in {"node", "unfold"} /\ pc' \in {"join", "crash"}
        /\ (pc = "unfold" => pc' = "crash")
    BY <1>6 DEF EnterNode, UnfoldReloadsNothing, loopVars
  <2>. QED
    BY <2>1 DEF Worked, AtWork, PassOver
<1>7. CASE JoinFirst \/ JoinAnd
  <2>1. UNCHANGED <<reverse, pos, try>> /\ pc = "join" /\ \E res : AfterJoin(res)
    BY <1>7 DEF JoinFirst, JoinAnd, loopVars
  <2>2. pc' \in {"join", "unfold", "false"}
    BY <1>1, <2>1, AfterJoinNext
  <2>3. CurJvar' = CurJvar
    BY <2>1, CurJvarFrame
  <2>. QED
    BY <2>1, <2>2, <2>3 DEF Worked, AtWork, PassOver
<1>8. CASE UNCHANGED vars
  <2>1. CurJvar' = CurJvar
    BY <1>8, CurJvarFrame DEF vars
  <2>. QED
    BY <1>8, <2>1 DEF Worked, AtWork, PassOver, vars
<1>. QED
  BY <1>2, <1>3, <1>4, <1>5, <1>6, <1>7, <1>8 DEF Next, Unfold, Finished

LEMMA NextCommon ==
  ASSUME Bound, Loaded, AllOrdered, [Next]_vars, Agree', plan' = plan
  PROVE  NodeCommon' /\ RestCommon'
<1>1. NodeCommon'
  <2>. SUFFICES ASSUME pc' = "unfold", SOVar(CurJvar') PROVE Joinres' \subseteq CommonIds
    BY DEF NodeCommon, SOVar
  <2>1. CASE JoinFirst \/ JoinAnd
    <3>1. CurJvar' = CurJvar
      BY <2>1, JoinEnds DEF Bound
    <3>. QED
      BY <2>1, <3>1, JoinEnds DEF Bound, CommonIds
  <2>2. CASE Unfold
    <3>1. /\ pc = "unfold" /\ AfterUnfold /\ UNCHANGED joinres
          /\ fold'[joinres[CurJvar]] = Joinres
      BY <2>2, UnfoldStep DEF Bound
    <3>2. UNCHANGED <<reverse, pos>>
      BY <3>1 DEF AfterUnfold, NextNode
    <3>3. CurJvar' = CurJvar
      BY <3>2, CurJvarFrame
    <3>. QED
      BY <3>1, <3>3 DEF Joinres, Bound, NodeCommon
  <2>3. CASE UNCHANGED vars
    <3>1. CurJvar' = CurJvar /\ Joinres' = Joinres /\ pc = "unfold"
      BY <2>3, CurJvarFrame DEF Joinres, vars
    <3>. QED
      BY <3>1 DEF Bound, NodeCommon
  <2>4. CASE ~(JoinFirst \/ JoinAnd \/ Unfold \/ UNCHANGED vars)
    BY <2>4 DEF Next, Unfold, EnterNode, SkipLeaf, NextNode, UnfoldReloadsNothing, TryAgain,
       ReturnTrue, FixAllTpBitmats, Finished
  <2>. QED
    BY <2>1, <2>2, <2>3, <2>4
<1>2. RestCommon'
  <2>. SUFFICES ASSUME NEW j \in Jvar, SOVar(j), Worked(j)', ~AtWork(j)',
                       NEW u \in TP, j \in JvarsOf(u)
                PROVE  /\ fold'[<<u, AxisOf(u, j)>>] \subseteq CommonIds \cup Overhang(u, j)
                       /\ UnfoldsNow(u) =>
                            SimpleFold(bm'[u], AxisOf(u, j)) \subseteq CommonIds \cup Overhang(u, j)
    BY PlanFrame DEF RestCommon, Within, Bindings, SOVar, CommonIds, Overhang
  <2>1. CASE Worked(j) /\ ~AtWork(j)
    <3>1. Within(j, CommonIds) /\ Agree /\ NodeCommon
      BY <2>1 DEF Bound, RestCommon
    <3>. QED
      BY <3>1, WithinStep
  <2>2. CASE Unfold /\ pc' # "unfold" /\ pc' \notin {"false", "crash"} /\ j = CurJvar
    <3>1. pc = "unfold"
      BY <2>2, UnfoldStep DEF Bound
    <3>2. Joinres \subseteq CommonIds
      BY <2>2, <3>1 DEF Bound, NodeCommon
    <3>. QED
      BY <2>2, <3>2, UnfoldEnds DEF Bound
  <2>. QED
    BY <2>1, <2>2, NewlyAtRest DEF Bound
<1>. QED
  BY <1>1, <1>2

LEMMA NextSinglesExact ==
  ASSUME Bound, Loaded, [Next]_vars, plan' = plan
  PROVE  SinglesExact'
<1>. SUFFICES ASSUME pc' = "true", NEW t \in TP, NEW j \in JvarsOf(t), NumJvars(t) = 1, UnfoldsNow(t)
              PROVE  fold'[<<t, AxisOf(t, j)>>] = SimpleFold(bm'[t], AxisOf(t, j))
  BY PlanFrame DEF SinglesExact, Bindings
<1>1. CASE FixAllTpBitmats
  <2>1. NumVars(t) = 1
    BY DEF UnfoldsNow
  <2>2. FixAxis(t) = NULL
    BY <2>1 DEF FixAxis
  <2>3. bm'[t] = bm[t] /\ fold' = fold /\ pc = "fix"
    BY <1>1, <2>2 DEF FixAllTpBitmats
  <2>4. fold[<<t, AxisOf(t, j)>>] \subseteq SimpleFold(bm[t], AxisOf(t, j))
    BY <2>3 DEF Bound, Agree, Reload, FoldsInside, Returned
  <2>5. SimpleFold(bm[t], AxisOf(t, j)) \subseteq fold[<<t, AxisOf(t, j)>>]
    BY <2>3 DEF Bound, Agree, Reload, Shrink, FoldsCover, FoldCovers, Ahead
  <2>6. fold[<<t, AxisOf(t, j)>>] = SimpleFold(bm[t], AxisOf(t, j))
    BY <2>4, <2>5
  <2>. QED
    BY <2>3, <2>6
<1>2. CASE UNCHANGED vars
  BY <1>2 DEF vars, Bound, SinglesExact, Bindings
<1>3. CASE ~(FixAllTpBitmats \/ UNCHANGED vars)
  <2>1. CASE JoinFirst \/ JoinAnd
    <3>1. pc = "join" /\ \E res : AfterJoin(res)
      BY <2>1 DEF JoinFirst, JoinAnd
    <3>. QED
      BY <3>1, AfterJoinNext DEF Bound, Agree, Reload, Shrink
  <2>2. CASE Unfold
    <3>1. AfterUnfold /\ pc = "unfold"
      BY <2>2, UnfoldStep DEF Bound
    <3>. QED
      BY <3>1, AfterUnfoldNext DEF Bound, Agree, Reload, Shrink
  <2>3. CASE ~(JoinFirst \/ JoinAnd \/ Unfold)
    BY <1>3, <2>3 DEF Next, Unfold, EnterNode, SkipLeaf, NextNode, UnfoldReloadsNothing, TryAgain,
       ReturnTrue, Finished
  <2>. QED
    BY <2>1, <2>2, <2>3
<1>. QED
  BY <1>1, <1>2, <1>3

LEMMA NextBound ==
  ASSUME Bound, Loaded, AllOrdered, [Next]_vars
  PROVE  Bound'
<1>1. Agree' /\ plan' = plan
  <2>1. Agree'
    BY NextAgree DEF Bound
  <2>. QED
    BY <2>1 DEF Next, EnterNode, SkipLeaf, JoinFirst, JoinAnd, UnfoldUnchanged, UnfoldFoldOnly,
       UnfoldCells, UnfoldReloadsNothing, TryAgain, ReturnTrue, FixAllTpBitmats, Finished, fixed, vars
<1>2. FoldDone' /\ FixDone'
  BY NextFoldDone, NextFixDone DEF Bound
<1>3. FoldsBound'
  <2>. SUFFICES ASSUME NEW t \in TP, NEW j \in JvarsOf(t), UnfoldsNow(t), Worked(j)', ~AtWork(j)',
                       NEW u \in TP, j \in JvarsOf(u)
                PROVE  /\ fold'[<<u, AxisOf(u, j)>>]
                            \subseteq fold'[<<t, AxisOf(t, j)>>] \cup Overhang(u, j)
                       /\ UnfoldsNow(u) =>
                            SimpleFold(bm'[u], AxisOf(u, j))
                              \subseteq fold'[<<t, AxisOf(t, j)>>] \cup Overhang(u, j)
    BY <1>1, PlanFrame DEF FoldsBound, Within, Bindings, Overhang, SOVar
  <2>1. CASE Worked(j) /\ ~AtWork(j)
    <3>1. Within(j, fold[<<t, AxisOf(t, j)>>])
      BY <2>1 DEF Bound, FoldsBound
    <3>2. fold'[<<t, AxisOf(t, j)>>] = fold[<<t, AxisOf(t, j)>>]
      BY <2>1, OtherFolds DEF Bound
    <3>. DEFINE S == fold[<<t, AxisOf(t, j)>>]
    <3>. HIDE DEF S
    <3>3. Within(j, S) /\ Agree /\ NodeCommon /\ j \in Jvar
      BY <3>1, JvarsOfJvar DEF Bound, S
    <3>4. /\ fold'[<<u, AxisOf(u, j)>>] \subseteq S \cup Overhang(u, j)
          /\ UnfoldsNow(u) => SimpleFold(bm'[u], AxisOf(u, j)) \subseteq S \cup Overhang(u, j)
      BY <3>3, WithinStep
    <3>. QED
      BY <3>2, <3>4 DEF S
  <2>2. CASE Unfold /\ pc' # "unfold" /\ pc' \notin {"false", "crash"} /\ j = CurJvar
    <3>1. pc = "unfold" /\ AfterUnfold
      BY <2>2, UnfoldStep DEF Bound
    <3>2. SimpleFold(bm'[t], AxisOf(t, j)) \subseteq fold'[<<t, AxisOf(t, j)>>]
      <4>1. pc' # "join"
        BY <2>2, <3>1 DEF AfterUnfold, NextNode
      <4>2. ~Ahead'
        BY <2>2, <4>1 DEF Ahead
      <4>. QED
        BY <1>1, <4>2, PlanFrame DEF Agree, Reload, Shrink, FoldsCover, FoldCovers
    <3>3. Joinres \subseteq SimpleFold(bm'[t], AxisOf(t, j))
      <4>1. /\ k \in Nat /\ k = Len(NextTP[CurJvar]) /\ NextTP[CurJvar] \in Seq(TP)
        <5>1. ~(k < Len(NextTP[CurJvar]))
          BY <2>2, <3>1 DEF AfterUnfold
        <5>. QED
          BY <3>1, <5>1, CurTPType, CurJvarType, PruneAssumption
             DEF Bound, Agree, Reload, Shrink, Shape, IndexOK
      <4>2. PICK m \in DOMAIN NextTP[CurJvar] : NextTP[CurJvar][m] = t
        BY <2>2 DEF Loaded, AllListed
      <4>3. m \in 1 .. k
        BY <4>1, <4>2
      <4>. QED
        BY <2>2, <4>2, <4>3, UnfoldDone DEF Bound, IsJoinres
    <3>. QED
      BY <2>2, <3>2, <3>3, UnfoldEnds DEF Bound
  <2>3. j \in Jvar
    BY JvarsOfJvar
  <2>. QED
    BY <1>1, <2>1, <2>2, <2>3, NewlyAtRest DEF Bound
<1>4. NodeCommon' /\ RestCommon' /\ SinglesExact'
  BY <1>1, NextCommon, NextSinglesExact
<1>. QED
  BY <1>1, <1>2, <1>3, <1>4 DEF Bound

LEMMA InitBound == ASSUME Loaded, Init PROVE Bound
<1>1. Agree /\ pc = "node" /\ try = 1 /\ ~reverse /\ pos = 1
  BY InitAgree DEF Init
<1>2. \A j : ~Worked(j)
  BY <1>1 DEF Worked, PassOver
<1>. QED
  BY <1>1, <1>2 DEF Bound, FoldDone, FixDone, FoldsBound, NodeCommon, RestCommon, SinglesExact

\* What is left in the patterns of a variable when the phase returns.
LEMMA LeftInFold ==
  ASSUME Bound, pc = "true", NEW t \in TP, NEW u \in TP, NEW j \in JvarsOf(t), j \in JvarsOf(u),
         UnfoldsNow(t), PosOf(u, j) # "PRED"
  PROVE  Bindings(u, j) \subseteq fold[<<t, AxisOf(t, j)>>] \cup Overhang(u, j)
<1>1. Within(j, fold[<<t, AxisOf(t, j)>>])
  BY DEF Bound, FoldsBound, Worked, PassOver, AtWork
<1>. QED
  BY <1>1 DEF Within, Bound, FixDone

LEMMA LeftCommon ==
  ASSUME Bound, pc = "true", NEW u \in TP, NEW j \in JvarsOf(u), SOVar(j), PosOf(u, j) # "PRED"
  PROVE  Bindings(u, j) \subseteq CommonIds \cup Overhang(u, j)
<1>1. Within(j, CommonIds)
  BY JvarsOfJvar DEF Bound, RestCommon, Worked, PassOver, AtWork
<1>. QED
  BY <1>1 DEF Within, Bound, FixDone

----------------------------------------------------------------------------
(***************************************************************************)
(* No pattern is left without a cell: the walk over what pruning leaves    *)
(* has a pattern to start from.                                            *)
(***************************************************************************)
NodeStocked ==
  pc = "unfold" =>
    /\ \A t \in TP : CurJvar \in JvarsOf(t) => bm[t] # {}
    /\ \A m \in 1 .. k - 1 : fold[<<NextTP[CurJvar][m], AxisOf(NextTP[CurJvar][m], CurJvar)>>] # {}

RestStocked ==
  \A t \in TP : \A j \in JvarsOf(t) :
    Worked(j) /\ ~AtWork(j) => bm[t] # {} /\ fold[<<t, AxisOf(t, j)>>] # {}

Stocked == Bound /\ NodeStocked /\ RestStocked

\* A pattern that was worked on has the join result in its fold, even one that was
\* found unchanged.
LEMMA UnfoldHas ==
  ASSUME Agree, Loaded, Unfold
  PROVE  Joinres # {} /\ fold'[<<CurTP, CurAxis>>] # {}
<1>. DEFINE x == <<CurTP, CurAxis>>
<1>1. /\ CurTP \in TP /\ CurAxis = AxisOf(CurTP, CurJvar) /\ CurJvar \in JvarsOf(CurTP)
      /\ pc = "unfold" /\ Joinres # {} /\ x \in TP \X Axis /\ fold \in [TP \X Axis -> SUBSET Nat]
  BY UnfoldStep, UnfoldFacts DEF Agree, Loaded, Reload, Shrink, Shape, TypeOK
<1>2. CASE UnfoldFoldOnly \/ UnfoldCells
  <2>1. fold' = [fold EXCEPT ![x] = NewFold(CurTP, CurAxis)] /\ NewFold(CurTP, CurAxis) # {}
    BY <1>1, <1>2, NewFoldIsJoinres DEF UnfoldFoldOnly, UnfoldCells, IsJoinres
  <2>. QED
    BY <1>1, <2>1
<1>3. CASE UnfoldUnchanged
  <2>1. fold' = fold /\ ~Changed(CurTP, CurAxis)
    BY <1>3 DEF UnfoldUnchanged
  <2>2. CASE SOJoin(CurTP, CurJvar)
    <3>1. Joinres \subseteq SOFold(CurTP, CurAxis)
      BY <1>1, <2>2, NewFoldIsJoinres DEF NewFold, IsJoinres
    <3>2. fold[x] = WithinLimit(Joinres, CurTP, CurAxis)
      BY <2>1, <2>2 DEF Changed
    <3>3. SOFold(CurTP, CurAxis) \subseteq WithinLimit(Joinres, CurTP, CurAxis) \cup fold[x]
      BY DEF SOFold
    <3>. QED
      BY <1>1, <2>1, <3>1, <3>2, <3>3
  <2>3. CASE ~SOJoin(CurTP, CurJvar)
    <3>1. prev[x] # NULL => joinres[CurJvar] = x
      BY <1>1 DEF Agree, Reload, PrevOwn
    <3>2. Joinres = fold[x]
      BY <2>1, <2>3, <3>1 DEF Changed, Joinres
    <3>. QED
      BY <1>1, <2>1, <3>2
  <2>. QED
    BY <2>2, <2>3
<1>. QED
  BY <1>1, <1>2, <1>3 DEF Unfold

\* No step empties the bitmat of a pattern, once its fold has an id.
LEMMA CellsLeft ==
  ASSUME Stocked, Loaded, [Next]_vars, NEW t \in TP, bm[t] # {},
         \A j \in JvarsOf(t) : pc = "fix" => fold[<<t, AxisOf(t, j)>>] # {}
  PROVE  bm'[t] # {}
<1>1. /\ bm \in [TP -> SUBSET Cell] /\ Reload /\ Assumed /\ Shape /\ WellLoaded
      /\ fold \in [TP \X Axis -> SUBSET Nat]
  BY DEF Stocked, Bound, Agree, Loaded, Reload, Shrink, Shape, TypeOK
<1>2. CASE UnfoldCells
  <2>1. bm' = [bm EXCEPT ![CurTP] = Kept] /\ Kept # {}
    BY <1>1, <1>2, KeptSome DEF UnfoldCells
  <2>. QED
    BY <1>1, <2>1
<1>3. CASE FixAllTpBitmats
  <2>1. CASE FixAxis(t) = NULL
    BY <1>3, <2>1 DEF FixAllTpBitmats
  <2>2. CASE FixAxis(t) # NULL
    <3>1. NumJvars(t) = 1 /\ ~(NumVars(t) <= 1) /\ (Query[t].sub < 0 \/ Query[t].obj < 0)
      BY <2>2 DEF FixAxis
    <3>2. PICK j \in JvarsOf(t) : PosOf(t, j) # "PRED"
      <4>1. ASSUME NEW f \in {"sub", "obj"}, Query[t][f] < 0
            PROVE  Query[t][f] \in JvarsOf(t) /\ PosOf(t, Query[t][f]) # "PRED"
        BY <4>1 DEF JvarsOf, Jvar, Mentions, Fields, PosOf
      <4>. QED
        BY <3>1, <4>1
    <3>3. ~UnfoldsNow(t)
      BY <3>1 DEF UnfoldsNow
    <3>4. FixAxis(t) = AxisOf(t, j)
      BY <1>1, <3>2, <3>3, FixAxisIs
    <3>5. /\ pc = "fix" /\ bm'[t] = SimpleUnfold(bm[t], AxisOf(t, j), fold[<<t, AxisOf(t, j)>>])
          /\ fold[<<t, AxisOf(t, j)>>] # {}
      BY <1>3, <2>2, <3>4 DEF FixAllTpBitmats
    <3>6. fold[<<t, AxisOf(t, j)>>] \subseteq SimpleFold(bm[t], AxisOf(t, j))
      BY <1>1, <3>1, <3>5 DEF Reload, FoldsInside, Returned
    <3>. QED
      BY <3>5, <3>6 DEF SimpleFold, SimpleUnfold
  <2>. QED
    BY <2>1, <2>2
<1>4. CASE ~(UnfoldCells \/ FixAllTpBitmats)
  BY <1>4 DEF Next, EnterNode, SkipLeaf, JoinFirst, JoinAnd, UnfoldUnchanged, UnfoldFoldOnly,
     UnfoldReloadsNothing, TryAgain, ReturnTrue, Finished, vars
<1>. QED
  BY <1>2, <1>3, <1>4

LEMMA InitStocked == ASSUME Loaded, Init PROVE Stocked
<1>1. Bound /\ pc = "node" /\ try = 1 /\ ~reverse /\ pos = 1
  BY InitBound DEF Init
<1>2. \A j : ~Worked(j)
  BY <1>1 DEF Worked, PassOver
<1>. QED
  BY <1>1, <1>2 DEF Stocked, NodeStocked, RestStocked

LEMMA NextStocked ==
  ASSUME Stocked, Loaded, AllOrdered, [Next]_vars
  PROVE  Stocked'
<1>1. Bound' /\ Agree' /\ Agree /\ Bound
  BY NextBound DEF Stocked, Bound
<1>2. plan' = plan
  BY DEF Next, EnterNode, SkipLeaf, JoinFirst, JoinAnd, UnfoldUnchanged, UnfoldFoldOnly,
     UnfoldCells, UnfoldReloadsNothing, TryAgain, ReturnTrue, FixAllTpBitmats, Finished, fixed, vars
<1>3. NodeStocked'
  <2>. SUFFICES ASSUME pc' = "unfold" PROVE NodeStocked'
    BY DEF NodeStocked
  <2>1. CASE JoinFirst \/ JoinAnd
    <3>1. /\ CurJvar' = CurJvar /\ k' = 1
          /\ \A t \in TP : CurJvar \in JvarsOf(t) => Joinres' \subseteq Bindings(t, CurJvar)
      BY <1>1, <2>1, JoinEnds
    <3>2. Joinres' # {} /\ bm' = bm
      BY <1>1, <2>1 DEF Agree, Reload, NodeAgreed, Joinres, JoinFirst, JoinAnd
    <3>3. 1 .. k' - 1 = {}
      BY <3>1
    <3>. QED
      BY <3>1, <3>2, <3>3 DEF NodeStocked, Bindings, SimpleFold
  <2>2. CASE Unfold
    <3>1. pc = "unfold" /\ AfterUnfold
      BY <1>1, <2>2, UnfoldStep
    <3>2. k' = k + 1 /\ UNCHANGED <<reverse, pos>> /\ k \in Nat
      BY <1>1, <3>1 DEF AfterUnfold, NextNode, Agree, Reload, Shrink, Shape, TypeOK
    <3>3. CurJvar' = CurJvar
      BY <1>2, <3>2, CurJvarFrame
    <3>4. ASSUME NEW t \in TP, CurJvar \in JvarsOf(t) PROVE bm'[t] # {}
      BY <3>1, <3>4, CellsLeft DEF Stocked, NodeStocked
    <3>5. ASSUME NEW m \in 1 .. k
          PROVE  fold'[<<NextTP[CurJvar][m], AxisOf(NextTP[CurJvar][m], CurJvar)>>] # {}
      <4>1. CASE m = k
        <5>1. NextTP[CurJvar][m] = CurTP /\ CurAxis = AxisOf(CurTP, CurJvar)
          BY <4>1 DEF CurTP, CurAxis
        <5>. QED
          BY <1>1, <2>2, <5>1, UnfoldHas
      <4>2. CASE m # k
        <5>1. m \in 1 .. k - 1
          BY <3>2, <4>2
        <5>2. CurJvar \in Jvar /\ m \in 1 .. Len(NextTP[CurJvar])
          <6>1. k \in 1 .. Len(NextTP[CurJvar]) /\ CurJvar \in Jvar /\ Len(NextTP[CurJvar]) \in Nat
            BY <1>1, <3>1, CurTPType, CurJvarType DEF Agree, Reload, Shrink, Shape, IndexOK
          <6>. QED
            BY <5>1, <6>1
        <5>3. NextTP[CurJvar][m] \in TP /\ CurJvar \in JvarsOf(NextTP[CurJvar][m])
          BY <5>2, ListedPattern
        <5>4. fold[<<NextTP[CurJvar][m], AxisOf(NextTP[CurJvar][m], CurJvar)>>] # {}
          BY <3>1, <5>1 DEF Stocked, NodeStocked
        <5>. QED
          BY <1>1, <2>2, <5>3, <5>4, UnfoldStep, UnfoldHas DEF IsJoinres
      <4>. QED
        BY <4>1, <4>2
    <3>6. \A m \in 1 .. k' - 1 : m \in 1 .. k
      BY <3>2
    <3>. QED
      BY <1>2, <3>3, <3>4, <3>5, <3>6, PlanFrame DEF NodeStocked
  <2>3. CASE UNCHANGED vars
    BY <2>3, CurJvarFrame, PlanFrame DEF vars, Stocked, NodeStocked
  <2>4. CASE ~(JoinFirst \/ JoinAnd \/ Unfold \/ UNCHANGED vars)
    BY <2>4 DEF Next, Unfold, EnterNode, SkipLeaf, NextNode, UnfoldReloadsNothing, TryAgain,
       ReturnTrue, FixAllTpBitmats, Finished
  <2>. QED
    BY <2>1, <2>2, <2>3, <2>4
<1>4. RestStocked'
  <2>. SUFFICES ASSUME NEW t \in TP, NEW j \in JvarsOf(t), Worked(j)', ~AtWork(j)'
                PROVE  bm'[t] # {} /\ fold'[<<t, AxisOf(t, j)>>] # {}
    BY <1>2, PlanFrame DEF RestStocked
  <2>1. j \in Jvar
    BY JvarsOfJvar
  <2>2. CASE Worked(j) /\ ~AtWork(j)
    <3>1. bm[t] # {} /\ fold[<<t, AxisOf(t, j)>>] # {}
      BY <2>2 DEF Stocked, RestStocked
    <3>2. fold'[<<t, AxisOf(t, j)>>] # {}
      BY <1>1, <2>2, <3>1, OtherFolds
    <3>3. \A i \in JvarsOf(t) : pc = "fix" => fold[<<t, AxisOf(t, i)>>] # {}
      BY DEF Stocked, RestStocked, Worked, AtWork, PassOver
    <3>. QED
      BY <3>1, <3>2, <3>3, CellsLeft
  <2>3. CASE Unfold /\ pc' # "unfold" /\ pc' \notin {"false", "crash"} /\ j = CurJvar
    <3>1. pc = "unfold" /\ AfterUnfold
      BY <1>1, <2>3, UnfoldStep
    <3>2. bm'[t] # {}
      BY <2>3, <3>1, CellsLeft DEF Stocked, NodeStocked
    <3>3. /\ k \in Nat /\ k = Len(NextTP[CurJvar]) /\ NextTP[CurJvar] \in Seq(TP)
      <4>1. ~(k < Len(NextTP[CurJvar]))
        BY <2>3, <3>1 DEF AfterUnfold
      <4>. QED
        BY <1>1, <3>1, <4>1, CurTPType, CurJvarType, PruneAssumption
           DEF Agree, Reload, Shrink, Shape, IndexOK
    <3>4. PICK m \in DOMAIN NextTP[CurJvar] : NextTP[CurJvar][m] = t
      BY <2>3 DEF Loaded, AllListed
    <3>5. m \in 1 .. k - 1 \/ m = k
      BY <3>3
    <3>6. CASE m = k
      <4>1. CurTP = t /\ CurAxis = AxisOf(t, j)
        BY <2>3, <3>4, <3>6 DEF CurTP, CurAxis
      <4>. QED
        BY <1>1, <2>3, <3>2, <4>1, UnfoldHas
    <3>7. CASE m \in 1 .. k - 1
      <4>1. fold[<<t, AxisOf(t, j)>>] # {}
        BY <2>3, <3>1, <3>4, <3>7 DEF Stocked, NodeStocked
      <4>. QED
        BY <1>1, <2>3, <3>2, <4>1, UnfoldStep, UnfoldHas DEF IsJoinres
    <3>. QED
      BY <3>5, <3>6, <3>7
  <2>. QED
    BY <1>1, <1>2, <2>1, <2>2, <2>3, NewlyAtRest
<1>. QED
  BY <1>1, <1>3, <1>4 DEF Stocked

\* So is every pattern that has a join variable at all.
LEMMA LeftSome ==
  ASSUME Stocked, pc = "true", NEW t \in TP, JvarsOf(t) # {}
  PROVE  bm[t] # {}
BY DEF Stocked, RestStocked, Worked, PassOver, AtWork
=============================================================================
