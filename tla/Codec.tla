-------------------------------- MODULE Codec -------------------------------
(***************************************************************************)
(* The gap-encoded form of a row of bits and the operations on it          *)
(* (dgap_compress_new, dgap_uncompress, concatenate_comp_arr, dgap_AND,    *)
(* cumulative_dgap, de_cumulative_dgap, count_triples_in_row,              *)
(* get_and_array).                                                         *)
(*                                                                         *)
(* A row is a first byte, the value of its first run, and the lengths of   *)
(* its runs, each of GAP_SIZE_BYTES; values alternate from run to run.     *)
(* Lengths are unsigned and wrap at Word.                                  *)
(***************************************************************************)
EXTENDS Integers, FiniteSets, SequencesExt

CONSTANT Word   \* 2^32 in the code

ASSUME WordAssumption == Word \in Nat \ {0}

Row == [flag : BOOLEAN, runs : Seq(0 .. Word - 1)]

GapSizeBytes == 4
RowSizeBytes == 4

\* The bytes of a row, and with the length that precedes it in memory and on disk.
SizeOf(row)    == 1 + GapSizeBytes * Len(row.runs)
StoredSize(row) == RowSizeBytes + SizeOf(row)

\* The value of the i-th run.
Value(row, i) == row.flag = (i % 2 = 1)

Run(value, n) == [flag |-> value, runs |-> <<n>>]

\* Mutant: the last value of a is taken to be its first.
ConcatenateByFlag(a, b) ==
  [flag |-> a.flag,
   runs |-> IF a.flag = b.flag
            THEN Front(a.runs) \o <<Last(a.runs) + b.runs[1]>> \o Tail(b.runs)
            ELSE a.runs \o b.runs]

\* concatenate_comp_arr: the last run of a and the first of b are one run if
\* they have the same value; that of a follows from the number of its runs.
Concatenate(a, b) ==
  [flag |-> a.flag,
   runs |-> IF Value(a, Len(a.runs)) = b.flag
            THEN Front(a.runs) \o <<Last(a.runs) + b.runs[1]>> \o Tail(b.runs)
            ELSE a.runs \o b.runs]

\* Where each run ends, and back.
Cumulative(runs) ==
  LET ends[i \in 1 .. Len(runs)] ==
        IF i = 1 THEN runs[1] ELSE (ends[i - 1] + runs[i]) % Word
  IN ends

DeCumulative(ends) ==
  [i \in DOMAIN ends |-> IF i = 1 THEN ends[1] ELSE (ends[i] - ends[i - 1]) % Word]

\* dgap_uncompress: the positions with a 1.
Bits(row) ==
  LET ends == Cumulative(row.runs)
  IN UNION {(ends[i] - row.runs[i] + 1) .. ends[i] : i \in {k \in DOMAIN ends : Value(row, k)}}

\* What a sum over s is after each of its elements; after none it is 0.
Sums(s) ==
  LET sum[i \in 0 .. Len(s)] == IF i = 0 THEN 0 ELSE sum[i - 1] + s[i] IN sum

SumOf(s) == Sums(s)[Len(s)]

\* count_triples_in_row.
CountTriplesInRow(row) ==
  SumOf([i \in 1 .. Len(row.runs) |-> IF Value(row, i) THEN row.runs[i] ELSE 0])

\* The members of a set of numbers, in order.
Ascending(S) == [i \in 1 .. Cardinality(S) |-> CHOOSE x \in S : Cardinality({y \in S : y <= x}) = i]

\* dgap_compress_new: the row of a bit array.
Compress(ids, width) ==
  LET ends == {p \in 1 .. width : p = width \/ ((p \in ids) # (p + 1 \in ids))}
  IN [flag |-> 1 \in ids, runs |-> DeCumulative(Ascending(ends))]

\* get_and_array: the row with one bit, for an array of so many bytes.
AndArray(bit, bytes) ==
  LET later == (8 * bytes - bit) % Word
  IN [flag |-> bit = 1,
      runs |-> (IF bit = 1 THEN <<1>> ELSE <<bit - 1, 1>>)
               \o (IF later = 0 THEN << >> ELSE <<later>>)]

----------------------------------------------------------------------------
(* dgap_AND, on the ends of the runs.                                      *)

\* The first run from the i-th on that ends after v.
Past(ends, i, v) ==
  IF ends[i] > v THEN i ELSE IF ends[i] = v THEN i + 1
  ELSE LET later == {k \in i + 1 .. Len(ends) : ends[k] > v}
       IN IF later = {} THEN Len(ends) + 1
          ELSE CHOOSE k \in later : \A l \in later : k <= l

\* One round of the loop: up to v the result has one value.  It is a run of its
\* own if it is a 1, and the first or the continuation of one of 0s if not.
AndStep(a, aEnds, b, bEnds, st) ==
  LET x == aEnds[st.i]
      y == bEnds[st.j]
      p == Value(a, st.i)
      q == Value(b, st.j)
      v == CASE ~p /\ ~q -> IF x >= y THEN x ELSE y
             [] p /\ q   -> IF x <= y THEN x ELSE y
             [] ~p /\ q  -> x
             [] p /\ ~q  -> y
      zeros == st.ends # << >> /\ (a.flag /\ b.flag) # (Len(st.ends) % 2 = 1)
  IN [i    |-> Past(aEnds, st.i, v),
      j    |-> Past(bEnds, st.j, v),
      ends |-> IF ~(p /\ q) /\ zeros THEN Front(st.ends) \o <<v>> ELSE Append(st.ends, v)]

\* The loop ends when either row does.
AndRound(a, aEnds, b, bEnds, st) ==
  IF st.i > Len(aEnds) \/ st.j > Len(bEnds) THEN st ELSE AndStep(a, aEnds, b, bEnds, st)

\* Its state after so many rounds; it has no more than the rows have runs.
AndRounds(a, b) ==
  LET aEnds == Cumulative(a.runs)
      bEnds == Cumulative(b.runs)
      st[n \in 0 .. Len(a.runs) + Len(b.runs)] ==
        IF n = 0 THEN [i |-> 1, j |-> 1, ends |-> << >>]
        ELSE AndRound(a, aEnds, b, bEnds, st[n - 1])
  IN st

DgapAnd(a, b) ==
  [flag |-> a.flag /\ b.flag,
   runs |-> DeCumulative(AndRounds(a, b)[Len(a.runs) + Len(b.runs)].ends)]

\* The test for a result without a 1.
IsZero(row) == ~row.flag /\ Len(row.runs) = 1
=============================================================================
