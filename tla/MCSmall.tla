------------------------------ MODULE MCSmall -------------------------------
(***************************************************************************)
(* Every store with few triples over few ids: predicates 1 and 2 take all  *)
(* small relations, the last predicate makes every id occur.               *)
(***************************************************************************)
EXTENDS MCPrune

CONSTANTS
  MaxCells,   \* the most triples of predicate 1 and of predicate 2
  ObjIds      \* their objects

Relations == UNION {kSubset(n, (1 .. NumSubs) \X ObjIds) : n \in 1 .. MaxCells}

SmallStores ==
  {Filler \cup Triples(1, r) \cup Triples(2, q) : r \in Relations, q \in Relations}
=============================================================================
