------------------------------- MODULE MCWide -------------------------------
(***************************************************************************)
(* Single stores with more ids than a byte has bits, for what depends on   *)
(* the bytes of a fold or on long chains of deletions.                     *)
(***************************************************************************)
EXTENDS MCPrune

\* Ids 7 and 8 are the bindings of both variables of the chain query.
EighthStore ==
  {Filler \cup Triples(1, {<<1, 8>>, <<2, 8>>, <<8, 1>>}) \cup Triples(2, {<<7, 7>>, <<7, 8>>, <<8, 7>>, <<8, 8>>})}

\* Predicate 2 is a path through all ids, so no three ids form a triangle.
PathStore ==
  {Triples(1, ({1} \X (1 .. NumObjs)) \cup ((1 .. NumSubs) \X {1}))
     \cup Triples(2, {<<1, 3>>, <<1, 4>>} \cup {<<i, i + 1>> : i \in 2 .. NumSubs - 1})}
=============================================================================
