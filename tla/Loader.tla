-------------------------------- MODULE Loader ------------------------------
(***************************************************************************)
(* The bulk loader (load_data_vertically, map_to_row_wo_dgap_vertical,     *)
(* dump_out_data, clear_rows) and the readers of what it writes            *)
(* (get_offset, load_from_dump_file, load_one_row, filter_and_load_bitmat, *)
(* list_enctrips_bitmat_new), with the gap-encoded rows under them.        *)
(*                                                                         *)
(* The raw file of a dimension has a line per triple: row, bitmat, column. *)
(* It is sorted by bitmat, row, column and has no line twice (sort -u).    *)
(* The dump file is a sequence of fields; a reader finds one by its byte   *)
(* offset and takes those that follow for what it expects there.           *)
(*                                                                         *)
(* The same functions make the transposed bitmat2 of a pattern in memory,  *)
(* from a list of triples.                                                 *)
(***************************************************************************)
EXTENDS Store, Codec

CONSTANTS
  Stores,          \* the data: sets of <<subject, predicate, object>>
  TableColBytes,   \* TABLE_COL_BYTES
  StaleBytes       \* what an object_bytes may hold before it is set

\* The bridge delivers triples over the ids that the configuration counts.
ASSUME StoresAssumption ==
  \A s \in Stores :
    s # {} /\ s \subseteq (1 .. NumSubs) \X (1 .. NumPreds) \X (1 .. NumObjs)

\* The bits of a fold, to the end of its last byte, are numbered by an unsigned int.
ASSUME WidthAssumption ==
  \A n \in {NumSubs, NumPreds, NumObjs} : 8 * BytesFor(n) < Word

\* The second part follows from the first, by an induction.
ASSUME TableAssumption == TableColBytes \in Nat /\ 256 ^ TableColBytes \in Nat \ {0}

ASSUME StaleAssumption == StaleBytes \subseteq Nat

VARIABLES
  store,       \* the data
  conf,        \* [dim, compress]: the dimension, COMPRESS_FOLDED_ARRAY
  todo,        \* the lines still to read
  prev,        \* pprev, sprev and prev_bitset: the line read last
  grow,        \* the row being built
  bm,          \* the rows that are complete
  subfold,     \* the fold of the rows: a set, or a gap-encoded row
  prevRowbit,  \* the last row in a gap-encoded subfold
  objfold,     \* the fold of the columns
  dump,        \* the fields of the dump file
  table,       \* the offset of each bitmat
  got,         \* the bitmat read back, then its bitmat2
  promise,     \* history: what Store says of it
  pc           \* "load", "dumped", "read", "unfolded", "list", "transposed", "crash"

buildVars == <<prev, grow, bm, subfold, prevRowbit, objfold>>
vars      == <<store, conf, todo, buildVars, dump, table, got, promise, pc>>

----------------------------------------------------------------------------
(* The raw file.                                                           *)

Line(dim, tr) == [bm |-> BitMatOf(dim, tr), row |-> CellOf(dim, tr)[1], col |-> CellOf(dim, tr)[2]]

Before(k, l) ==
  \/ k.bm < l.bm
  \/ k.bm = l.bm /\ k.row < l.row
  \/ k.bm = l.bm /\ k.row = l.row /\ k.col < l.col

\* A set of lines in the order of the file.
Sorted(lines) ==
  [i \in 1 .. Cardinality(lines) |->
     CHOOSE l \in lines : Cardinality({k \in lines : Before(k, l)}) = i - 1]

\* bitmat->num_preds: gnum_preds, gnum_subs or gnum_objs.
NumBitMats(dim) ==
  CASE dim \in {"SPO", "OPS"} -> NumPreds [] dim = "PSO" -> NumSubs [] dim = "POS" -> NumObjs

\* The option changes nothing for PSO and POS.
Conf == {c \in [dim : Dimension, compress : BOOLEAN] : c.compress => c.dim \in {"SPO", "OPS"}}

NoLine == [bm |-> 0, row |-> 0, col |-> 0]
NoRow  == [flag |-> FALSE, runs |-> << >>]
Unread == [bm |-> << >>, subfold |-> {}, objfold |-> {}, num_triples |-> 0,
           whole |-> FALSE, turned |-> FALSE]

OnDisk == pc = "load"

Predicates == conf.dim \in {"PSO", "POS"}

\* The subject fold is gap-encoded on disk.
Compressed == Predicates \/ conf.compress

SubjectBytes == BytesFor(Width(conf.dim, "subfold"))
ObjectBytes  == BytesFor(Width(conf.dim, "objfold"))

\* object_bytes of the bitmat being built: bitmat2 has rows and columns swapped,
\* and what is loaded from it swaps them back.
BuiltAxis  == IF OnDisk \/ got.turned = (pc = "list") THEN "objfold" ELSE "subfold"
BuiltBytes == BytesFor(Width(conf.dim, BuiltAxis))

NoSubfold == IF Compressed THEN NoRow ELSE {}

----------------------------------------------------------------------------
(* map_to_row_wo_dgap_vertical.                                            *)

\* Mutant: a leading run of 0s whatever its length.
StartedWithZeros(col) == [flag |-> FALSE, runs |-> <<col - 1, 1>>]

\* A row with its first bit.
Started(col) ==
  IF col > 1 THEN [flag |-> FALSE, runs |-> <<col - 1, 1>>] ELSE Run(TRUE, 1)

\* The row with one more.
Continued(row, from, col) ==
  Concatenate(IF col - from > 1 THEN Concatenate(row, Run(FALSE, col - from - 1)) ELSE row,
              Run(TRUE, 1))

\* Mutant: the width is not rounded to bytes.
CompletedUnrounded ==
  LET later == Width(conf.dim, BuiltAxis) - prev.col
  IN [rowid |-> prev.row,
      data  |-> IF later > 0 THEN Concatenate(grow, Run(FALSE, later)) ELSE grow]

\* The row with its last 0s.
Completed ==
  LET later == 8 * BuiltBytes - prev.col
  IN [rowid |-> prev.row,
      data  |-> IF later > 0 THEN Concatenate(grow, Run(FALSE, later)) ELSE grow]

\* comp_subfold, or subfold, once that row is in it.
SubfoldWithRow ==
  IF ~Compressed THEN subfold \cup {prev.row}
  ELSE IF subfold = NoRow THEN Started(1 + prev.row - prevRowbit)
  ELSE Continued(subfold, prevRowbit, prev.row)

\* The bit of a column is set when its line is read; only then is the row of the
\* line before completed, or its bitmat dumped.
ObjfoldWith(col) == IF Predicates THEN objfold ELSE objfold \cup {col}

----------------------------------------------------------------------------
(* dump_out_data.                                                          *)

Plain(value, bytes) == [value |-> value, bytes |-> bytes, coded |-> FALSE]
Coded(row)          == [value |-> row, bytes |-> StoredSize(row), coded |-> TRUE]

CountTriples(rows) == SumOf([k \in 1 .. Len(rows) |-> CountTriplesInRow(rows[k].data)])

\* comp_subfold is padded with 0s before it is dumped.
Padded(row, last) ==
  IF last = 8 * SubjectBytes THEN row
  ELSE [row EXCEPT !.runs = Append(@, 8 * SubjectBytes - last)]

\* The fields of a bitmat; row ids are not among them.
Record(rows, sub, last, obj) ==
  <<Plain(CountTriples(rows), 4)>>
  \o <<IF Compressed THEN Coded(Padded(sub, last)) ELSE Plain(sub, SubjectBytes)>>
  \o (IF Predicates THEN << >>
      ELSE IF conf.compress THEN <<Coded(Compress(obj, 8 * ObjectBytes))>>
      ELSE <<Plain(obj, ObjectBytes)>>)
  \o [i \in DOMAIN rows |-> Coded(rows[i].data)]

\* Where each field ends.
Offsets(fields) == Sums([i \in 1 .. Len(fields) |-> fields[i].bytes])

\* gtotal_size, and what of it the table keeps.
FileSize == Offsets(dump)[Len(dump)]
OffsetOf == FileSize % (256 ^ TableColBytes)

\* The bitmat of the last line goes to the file and its offset to the table.
DumpOut(obj) ==
  LET record == Record(Append(bm, Completed), SubfoldWithRow, prev.row, obj)
  IN /\ dump'  = dump \o record
     /\ table' = [table EXCEPT ![prev.bm] = OffsetOf]

----------------------------------------------------------------------------
(* load_data_vertically.                                                   *)

Init ==
  /\ store \in Stores
  /\ conf \in Conf
  /\ todo = Sorted({Line(conf.dim, tr) : tr \in store})
  /\ prev = NoLine /\ grow = NoRow /\ bm = << >>
  /\ subfold = NoSubfold /\ prevRowbit = 1 /\ objfold = {}
  /\ dump = << >> /\ table = [b \in 1 .. NumBitMats(conf.dim) |-> 0]
  /\ got = Unread /\ promise = Unread
  /\ pc = "load"

Reading  == pc \in {"load", "list"} /\ todo # << >>
NewRow   == prev # NoLine /\ (todo[1].bm # prev.bm \/ todo[1].row # prev.row)

\* todo[1] is the line read now.
ReadLine == prev' = todo[1] /\ todo' = Tail(todo)

FirstLine ==
  /\ Reading /\ prev = NoLine
  /\ ReadLine
  /\ grow' = Started(todo[1].col)
  /\ objfold' = IF OnDisk THEN ObjfoldWith(todo[1].col) ELSE objfold
  /\ UNCHANGED <<store, conf, bm, subfold, prevRowbit, dump, table, got, promise, pc>>

SameRow ==
  /\ Reading /\ prev # NoLine /\ ~NewRow
  /\ ReadLine
  /\ grow' = Continued(grow, prev.col, todo[1].col)
  /\ objfold' = IF OnDisk THEN ObjfoldWith(todo[1].col) ELSE objfold
  /\ UNCHANGED <<store, conf, bm, subfold, prevRowbit, dump, table, got, promise, pc>>

NextRow ==
  /\ Reading /\ NewRow
  /\ todo[1].bm = prev.bm
  /\ ReadLine
  /\ bm' = Append(bm, Completed)
  /\ grow' = Started(todo[1].col)
  /\ IF OnDisk
     THEN /\ subfold' = SubfoldWithRow
          /\ prevRowbit' = IF Compressed THEN prev.row ELSE prevRowbit
          /\ objfold' = ObjfoldWith(todo[1].col)
     ELSE UNCHANGED <<subfold, prevRowbit, objfold>>
  /\ UNCHANGED <<store, conf, dump, table, got, promise, pc>>

\* The first line of another bitmat: the one before is dumped and cleared.
NextBitMat ==
  /\ Reading /\ NewRow
  /\ todo[1].bm # prev.bm
  /\ ReadLine
  /\ DumpOut(ObjfoldWith(todo[1].col))
  /\ grow' = Started(todo[1].col)
  /\ bm' = << >> /\ subfold' = NoSubfold /\ prevRowbit' = 1 /\ objfold' = {}
  /\ UNCHANGED <<store, conf, got, promise, pc>>

LastBitMat ==
  /\ OnDisk /\ todo = << >>
  /\ DumpOut(objfold)
  /\ bm' = << >> /\ subfold' = NoSubfold /\ prevRowbit' = 1 /\ objfold' = {}
  /\ pc' = "dumped"
  /\ UNCHANGED <<store, conf, todo, prev, grow, got, promise>>

----------------------------------------------------------------------------
(* Reading a bitmat back.                                                  *)

\* The field at a byte offset.
FieldAt(offset) ==
  CHOOSE i \in DOMAIN dump : Offsets(dump)[i - 1] = offset

\* The first field of bitmat b, its subject fold, and the field of its k-th row.
Start(b)      == FieldAt(table[b])
Decoded(f)    == IF Compressed THEN Bits(f.value) ELSE f.value
SubfoldAt(b)  == Decoded(dump[Start(b) + 1])
RowAt(b, k)   == dump[Start(b) + k + (IF Predicates THEN 1 ELSE 2)].value

ObjfoldAt(b) ==
  IF Predicates THEN {}
  ELSE IF conf.compress THEN Bits(dump[Start(b) + 2].value) ELSE dump[Start(b) + 2].value

\* The bits of the subject fold say which rows follow.
RowsAt(b) ==
  LET ids == Ascending(SubfoldAt(b))
  IN [k \in DOMAIN ids |-> [rowid |-> ids[k], data |-> RowAt(b, k)]]

Return(bitmat, answer) ==
  /\ got' = bitmat
  /\ promise' = answer
  /\ pc' = "read"
  /\ UNCHANGED <<store, conf, todo, buildVars, dump, table>>

\* What Store says, as a bitmat.
Answer(loaded, count, whole) ==
  [bm |-> loaded.bm, subfold |-> loaded.subfold, objfold |-> loaded.objfold,
   num_triples |-> count, whole |-> whole, turned |-> FALSE]

LoadBitMat ==
  /\ pc = "dumped"
  /\ \E b \in 1 .. NumBitMats(conf.dim) :
       Return([bm |-> RowsAt(b), subfold |-> SubfoldAt(b), objfold |-> ObjfoldAt(b),
               num_triples |-> dump[Start(b)].value, whole |-> TRUE, turned |-> FALSE],
              Answer(LoadFromDumpFile(store, conf.dim, b), TripleCount(store, conf.dim, b), TRUE))

\* The rows before r are skipped.
LoadOneRow ==
  /\ pc = "dumped" /\ Predicates
  /\ \E b \in 1 .. NumBitMats(conf.dim) : \E r \in SubfoldAt(b) :
       LET row == RowAt(b, Cardinality({i \in SubfoldAt(b) : i <= r}))
       IN Return([bm |-> <<[rowid |-> r, data |-> row]>>, subfold |-> {r}, objfold |-> Bits(row),
                  num_triples |-> 0, whole |-> FALSE, turned |-> FALSE],
                 Answer(AddRow(store, conf.dim, b, r), 0, FALSE))

\* One row of filter_and_load_bitmat; rownum stands still at one it leaves out.
FilterRow(mask, st, row) ==
  LET both == DgapAnd(row.data, mask)
  IN IF IsZero(both)
     THEN [st EXCEPT !.skipped = @ + 1, !.subfold = @ \ {ByteOf(row.rowid) + 1}]
     ELSE [st EXCEPT !.bm = Append(@, [rowid |-> row.rowid - st.skipped, data |-> both]),
                     !.objfold = @ \cup Bits(both)]

\* After so many rows.
FilterRows(rows, sub, mask) ==
  LET st[k \in 0 .. Len(rows)] ==
        IF k = 0 THEN [bm |-> << >>, subfold |-> sub, objfold |-> {}, skipped |-> 0]
        ELSE FilterRow(mask, st[k - 1], rows[k])
  IN st

Filtered(b, mask) ==
  LET rows == RowsAt(b) IN FilterRows(rows, SubfoldAt(b), mask)[Len(rows)]

\* The mask is made before object_bytes is set.  Nothing is read if no row is left.
FilterAndLoad ==
  /\ pc = "dumped" /\ Predicates
  /\ \E b \in 1 .. NumBitMats(conf.dim), c \in 1 .. Width(conf.dim, "objfold"), bytes \in StaleBytes :
       LET st     == Filtered(b, AndArray(c, bytes))
           loaded == FilteredLoad(store, conf.dim, b, c)
       IN /\ st.bm # << >>
          /\ Return([bm |-> st.bm, subfold |-> st.subfold, objfold |-> st.objfold,
                      num_triples |-> CountTriples(st.bm), whole |-> FALSE, turned |-> FALSE],
                    Answer(loaded, Cardinality(loaded.bm), FALSE))

----------------------------------------------------------------------------
(* simple_unfold, bitmat2 and the reload from it.                          *)

\* The rows that are not deleted.
Kept(rows, which) == [i \in 1 .. Cardinality(which) |-> rows[Ascending(which)[i]]]

\* Mutant: the row after an erased one is passed over.
UnfoldRowsSkipping(rows, mask) ==
  LET coded == Compress(mask, 8 * ObjectBytes)
      and   == [k \in DOMAIN rows |->
                  IF k > 1 /\ IsZero(DgapAnd(rows[k - 1].data, coded)) THEN rows[k]
                  ELSE [rows[k] EXCEPT !.data = DgapAnd(@, coded)]]
  IN Kept(and, {k \in DOMAIN and : ~IsZero(and[k].data)})

\* The objects of the mask only, unless it has them all.
UnfoldRows(rows, mask) ==
  LET coded == Compress(mask, 8 * ObjectBytes)
      and   == [k \in DOMAIN rows |-> [rows[k] EXCEPT !.data = DgapAnd(@, coded)]]
  IN IF CountTriplesInRow(coded) = Width(conf.dim, "objfold") THEN rows
     ELSE Kept(and, {k \in DOMAIN and : ~IsZero(and[k].data)})

Cells(rows) == UNION {{rows[k].rowid} \X Bits(rows[k].data) : k \in DOMAIN rows}

Unfold(axis, rows, mask) ==
  /\ got' = [got EXCEPT !.bm = rows]
  /\ promise' = [promise EXCEPT !.bm = SimpleUnfold(@, axis, mask)]
  /\ pc' = "unfolded"
  /\ UNCHANGED <<store, conf, todo, buildVars, dump, table>>

UnfoldColumns ==
  /\ pc = "read"
  /\ \E mask \in SUBSET {CellOf(conf.dim, tr)[2] : tr \in store} \ {{}} :
       Unfold("objfold", UnfoldRows(got.bm, mask), mask)

\* Whole rows; of bitmat2 when its pattern is unfolded by a reload.
UnfoldByRow ==
  /\ pc = "read" \/ (pc = "transposed" /\ got.turned)
  /\ \E mask \in SUBSET {got.bm[k].rowid : k \in DOMAIN got.bm} \ {{}} :
       Unfold("subfold", Kept(got.bm, {k \in DOMAIN got.bm : got.bm[k].rowid \in mask}), mask)

\* Mutant: the list is loaded as it is.
AsListed(c) == [bm |-> 1, row |-> c[1], col |-> c[2]]

\* A line of the list, inverted; all have one bitmat.
Inverted(c) == [bm |-> 1, row |-> c[2], col |-> c[1]]

\* list_enctrips_bitmat_new and the sort by column and row: a list to load again.
ListTriples ==
  /\ pc \in {"read", "unfolded"} /\ got.whole
  /\ got.bm # << >>
  /\ todo' = Sorted({Inverted(c) : c \in Cells(got.bm)})
  /\ prev' = NoLine /\ grow' = NoRow /\ bm' = << >>
  /\ promise' = [promise EXCEPT !.bm = {<<c[2], c[1]>> : c \in @}]
  /\ pc' = "list"
  /\ UNCHANGED <<store, conf, subfold, prevRowbit, objfold, dump, table, got>>

\* Of no triples the last row is completed all the same, on a row of size 0.
ListNothing ==
  /\ pc \in {"read", "unfolded"} /\ got.whole
  /\ got.bm = << >>
  /\ pc' = "crash"
  /\ UNCHANGED <<store, conf, todo, buildVars, dump, table, got, promise>>

LastTriple ==
  /\ pc = "list" /\ todo = << >>
  /\ bm' = Append(bm, Completed)
  /\ got' = [got EXCEPT !.bm = bm', !.turned = ~@]
  /\ pc' = "transposed"
  /\ UNCHANGED <<store, conf, todo, prev, grow, subfold, prevRowbit, objfold, dump, table, promise>>

Next ==
  \/ FirstLine \/ SameRow \/ NextRow \/ NextBitMat \/ LastBitMat
  \/ LoadBitMat \/ LoadOneRow \/ FilterAndLoad
  \/ UnfoldColumns \/ UnfoldByRow \/ ListTriples \/ ListNothing \/ LastTriple

Spec == Init /\ [][Next]_vars

----------------------------------------------------------------------------
(* Properties.                                                             *)

\* The types of the state; no row being built ever has an empty run.
Id       == Nat \ {0}
BuiltRow == [flag : BOOLEAN, runs : Seq(1 .. Word - 1)]

TypeOK ==
  /\ store \subseteq Id \X Id \X Id
  /\ conf \in Conf
  /\ todo \in Seq([bm : Nat, row : Nat, col : Nat])
  /\ prev \in [bm : Nat, row : Nat, col : Nat]
  /\ grow \in BuiltRow
  /\ bm \in Seq([rowid : Nat, data : BuiltRow])
  /\ IF Compressed THEN subfold \in BuiltRow ELSE subfold \subseteq Nat
  /\ objfold \subseteq Nat
  /\ table \in [1 .. NumBitMats(conf.dim) -> Nat]

\* A row put together bit by bit and run by run is the row that compressing its
\* bits at once gives, of full width: "It always concatenates to in1".
RowsCanonical ==
  LET Canonical(row, bytes) == row = Compress(Bits(row), 8 * bytes)
  IN /\ \A k \in DOMAIN bm : Canonical(bm[k].data, BuiltBytes)
     /\ pc = "dumped" =>
          \A i \in DOMAIN dump : dump[i].coded => \/ Canonical(dump[i].value, SubjectBytes)
                                                \/ Canonical(dump[i].value, ObjectBytes)

(***************************************************************************)
(* What is read at the offset in the table, field by field, is what Store  *)
(* says of the data, whole, one row or filtered by a column: the folds     *)
(* tell the rows apart, a bitmat that was never dumped is the first one,   *)
(* and the stale width of the column mask has no effect on the bits.       *)
(***************************************************************************)
ReadsStored ==
  pc = "read" => [got EXCEPT !.bm = Cells(@)] = promise

\* Unfolding with gap-encoded rows deletes the cells that unfolding with sets
\* does, also on filtered rows, whose width is wrong, and on bitmat2.
UnfoldsCells ==
  pc = "unfolded" => Cells(got.bm) = promise.bm

\* bitmat2 is the transposed bitmat, its rows in order for the binary search,
\* and a reload from it gives the bitmat back.
TransposesCells ==
  pc = "transposed" =>
    /\ Cells(got.bm) = promise.bm
    /\ \A k, l \in DOMAIN got.bm : k < l => got.bm[k].rowid < got.bm[l].rowid
=============================================================================
