------------------------------ MODULE MCLoader ------------------------------
(***************************************************************************)
(* Every small set of triples over a few ids, among them the first and the *)
(* last of a fold that is a whole byte.                                    *)
(***************************************************************************)
EXTENDS Loader

CONSTANTS
  ObjIds,       \* the objects
  MaxTriples    \* the most triples of a store

SmallStores ==
  UNION {kSubset(n, (1 .. NumSubs) \X (1 .. NumPreds) \X ObjIds) : n \in 1 .. MaxTriples}
=============================================================================
