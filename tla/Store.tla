------------------------------- MODULE Store --------------------------------
(***************************************************************************)
(* The four stored forms of the data, and what the functions that read     *)
(* them give back (load_from_dump_file, load_one_row,                      *)
(* filter_and_load_bitmat), in terms of cells; Loader has the bytes.       *)
(*                                                                         *)
(* A store is a set of triples <<subject, predicate, object>> of ids.  The *)
(* SPO and OPS files hold one bitmat per predicate, the PSO file one per   *)
(* subject and the POS file one per object.                                *)
(***************************************************************************)
EXTENDS BitMat, FiniteSetsExt

\* The number of the bitmat a triple goes to, and its cell there.
BitMatOf(dim, tr) == CASE dim \in {"SPO", "OPS"} -> tr[2]
                       [] dim = "PSO" -> tr[1]
                       [] dim = "POS" -> tr[3]

CellOf(dim, tr) == CASE dim = "SPO" -> <<tr[1], tr[3]>>
                     [] dim = "OPS" -> <<tr[3], tr[1]>>
                     [] dim = "PSO" -> <<tr[2], tr[3]>>
                     [] dim = "POS" -> <<tr[2], tr[1]>>

\* The dictionary gives an id only to what occurs in the data, so every id of
\* a store occurs in it.
WellFormed(store) ==
  /\ {tr[1] : tr \in store} = 1 .. NumSubs
  /\ {tr[2] : tr \in store} = 1 .. NumPreds
  /\ {tr[3] : tr \in store} = 1 .. NumObjs

StoredCells(store, dim, b) ==
  {CellOf(dim, tr) : tr \in {x \in store : BitMatOf(dim, x) = b}}

\* The files are sorted: the first cell of a bitmat is the least by row, then
\* by column.
FirstCell(cells) ==
  CHOOSE c \in cells : \A d \in cells : c[1] < d[1] \/ (c[1] = d[1] /\ c[2] <= d[2])

(***************************************************************************)
(* The object fold dumped with bitmat b.  map_to_row_wo_dgap_vertical sets *)
(* the bit of a triple before the bitmat of the previous predicate is      *)
(* dumped and its folds cleared: the bit of a predicate's first triple is  *)
(* set in the fold of the predicate before it, and is missing from its own *)
(* unless another of its triples sets it.                                  *)
(***************************************************************************)
StoredObjfold(store, dim, b) ==
  LET cells   == StoredCells(store, dim, b)
      present == {BitMatOf(dim, tr) : tr \in store}
      later   == {x \in present : x > b}
      own     == IF \E x \in present : x < b THEN cells \ {FirstCell(cells)} ELSE cells
      next    == IF later = {} THEN {}
                 ELSE {FirstCell(StoredCells(store, dim, Min(later)))}
  IN SimpleFold(own \cup next, "objfold")

----------------------------------------------------------------------------
(* One pattern.                                                            *)

\* get_offset: the table has offset 0 for a bitmat that was never dumped, which
\* is where the first one starts.
Offset(store, dim, b) ==
  LET present == {BitMatOf(dim, tr) : tr \in store}
  IN IF b \in present THEN b ELSE Min(present)

TripleCount(store, dim, b) == Cardinality(StoredCells(store, dim, Offset(store, dim, b)))

\* load_from_dump_file: the whole bitmat with its folds; the PSO and POS files
\* have no object fold.
LoadFromDumpFile(store, dim, b) ==
  LET cells == StoredCells(store, dim, Offset(store, dim, b))
  IN [bm      |-> cells,
      subfold |-> SimpleFold(cells, "subfold"),
      objfold |-> IF dim \in {"SPO", "OPS"} THEN StoredObjfold(store, dim, Offset(store, dim, b))
                  ELSE {}]

\* populate_objfold, which makes up for it.
PopulateObjfold(loaded) == [loaded EXCEPT !.objfold = SimpleFold(loaded.bm, "objfold")]

\* add_row: one row of a bitmat, with its own folds.
AddRow(store, dim, b, r) ==
  LET row == {c \in StoredCells(store, dim, Offset(store, dim, b)) : c[1] = r}
  IN [bm |-> row, subfold |-> SimpleFold(row, "subfold"), objfold |-> SimpleFold(row, "objfold")]

(***************************************************************************)
(* filter_and_load_bitmat keeps the rows of bitmat b that have a bit in    *)
(* column c.  A row without one is skipped by a "continue" that also skips *)
(* rownum++, so every later row is filed one id lower for each such row,   *)
(* and the bit taken out of the subject fold is that of the byte index.    *)
(* get_and_array makes the mask from an object_bytes that is not set yet,  *)
(* so its last run of zeros has any length; it changes no bit (Loader).    *)
(***************************************************************************)
FilteredLoad(store, dim, b, c) ==
  LET cells   == StoredCells(store, dim, Offset(store, dim, b))
      rows    == SimpleFold(cells, "subfold")
      dropped == {r \in rows : <<r, c>> \notin cells}
      Filed(r) == r - Cardinality({d \in dropped : d < r})
  IN [bm      |-> {<<Filed(r), c>> : r \in rows \ dropped},
      subfold |-> rows \ {ByteOf(d) + 1 : d \in dropped},
      objfold |-> IF rows = dropped THEN {} ELSE {c}]
=============================================================================
