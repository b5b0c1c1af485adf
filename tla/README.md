# BitMat in TLA+

BitMat stores an RDF graph as compressed bit matrices and answers basic graph
patterns (conjunctions of triple patterns) on them. It never joins tables.
It *prunes*: it intersects, variable by variable, the bindings the
patterns still allow, deletes from every pattern what is not in the
intersection, and only then walks the reduced matrices and prints the results.
Two pruning procedures exist: the original one (one pass forward and one pass
back over a tree of the variables) and "dual simulation", which repeats the
passes until a count stops changing.

This directory holds the TLA+ modules of the system, TLC models of them, and
proofs checked by TLAPS. All source references are to `src/`.

## 1. Inventory

### Components

| component | source | state | operations |
|---|---|---|---|
| BitMat kernel | `bitmat.h`, `bitmatops.c` | `BitMat`: rows `bm` (gap-encoded), `subfold`, `objfold`, `*_prev`, `num_triples`, `dimension` | `simple_fold`, `simple_unfold`, `count_triples_in_bitmat`, `dgap_*`, `concatenate_comp_arr`, `list_enctrips_bitmat_new` |
| Query parsing and graph | `graphops.c` | `graph[]` of JVAR and TP nodes with adjacency lists, `jvarsitr2[]`, `leaf_nodes`, `tree_edges_map` | `parse_query_and_build_graph`, `build_graph_new`, `build_jvar_tree`, `spanning_tree`, `tree_bfs` |
| Loading of query bitmats | `graphops.c`, `bitmatops.c` | the `bitmat` of each TP node; read-only dump files and offset tables | `init_tp_nodes_new`, `populate_all_tp_bitmats`, `get_offset`, `load_from_dump_file`, `add_row`, `load_one_row`, `filter_and_load_bitmat` |
| Pruning | `graphops.c`, `prune_triples_sim.c`, called from `main.c` | `jvar->joinres`, `tp->unfolded`, folds and rows of every TP | `prune_triples_new`, `prune_triples_sim`, `prune_for_jvar`, `{subject,object,predicate}_dim_{join,unfold}`, `fix_all_tp_bitmats` |
| Matching | `bitmatops.c`, `graphops.c`, `main.c` | `q_to_gr_node_map`, `unvisited`, the recursion of `match_query_graph`; the results file and its line count | `get_start_node_subgraph_matching`, `match_query_graph`, `explore_other_nodes`, `check_back_edges`, `match_triples_in_row` |
| Bulk loader | `bitmatops.c`, `main.c` | the row, the folds and the bitmat under construction, the dump file, the offset table | `load_data_vertically`, `map_to_row_wo_dgap_vertical`, `dump_out_data`, `clear_rows` |
| RDF bridge | `rdf-bridge/*.py` | a redis dictionary, partition files, job files | `load-rdf.py`, `bootstrap.py`, `job.py`, `process.py` |
| Query interface | `rdf-query-interface/*.py` | query files, redis dictionary | `parser.py` (SPARQL to patterns), `query.py` (runs the binary, decodes results) |
| Legacy operations | `bitmatops.c`, `graphops.c`, `miscops.c` | - | `build_graph`, `multi_join`, `cycle_detect`, `dgap_AND_new`, `load_mappings`, ...: nothing on the query path calls them |
| Configuration, command line | `main.c` | globals `gnum_subs`, `gnum_comm_so`, ... | `parse_config_file`, `parse_args` |

### How they interact

`main` is one thread that calls the phases in order: parse and build the graph,
`init_tp_nodes_new` (loads what is small, counts the rest), `build_jvar_tree`
(chooses the root by the counts, orders the variables), `populate_all_tp_bitmats`
(loads the rest in the orientation that suits the order), prune, and if pruning
did not find the query empty `fix_all_tp_bitmats` and `match_query_graph`.
All phases share the graph: a TP node owns one bitmat, a JVAR node owns
`joinres`, which is not memory of its own but a pointer into a fold array of the
first TP it was joined with. The bridge produces the encoded triples that the
bulk loader reads; the query interface writes the query file.

### What is hard here

There are no threads and no messages in the C program. What is hard is shared
mutable state reached by aliases over long sequences of steps, and arithmetic at
boundaries:

* `joinres` aliases a fold that later joins of the same pattern rewrite;
* folds are caches of the bitmat, recomputed under a condition
  (`unfolded && numjvars > 1`) that must never leave a stale one in use;
* "changed" decides whether an unfold happens at all, and is computed from
  three different copies (`*_prev`, the fold, `joinres`);
* subject and object ids share only the range `1..NUM_COMMON_SO`, and fold
  arrays have different byte lengths, so every S-O step truncates, compares and
  clears by byte offset;
* patterns with a free variable are deliberately left unreduced until the end;
* a variable without bindings ends everything in the middle of a pass;
* the repetition of `prune_triples_sim` stops on a count;
* matching is a recursion over global maps and sets that every way back restores
  by hand, or (the unvisited set) not at all;
* matching compares a pattern with its mapped neighbours through a list pointer
  that stops at the first unmapped one, so what it checks depends on the walk;
* the dump file stores no row ids and no field names: a reader finds a field by
  its offset and tells rows apart by the bits of a fold;
* rows are run-length encoded, concatenated by the parity of their run counts.

The full list, each at its line and with the properties that watch it, is in
`PROJECT.json` under `hazards`.

### What makes each component correct

* **Pruning**: no triple that takes part in an answer is deleted; "0 results"
  only if there is none; after a node its patterns agree on its variable; on
  acyclic queries the first variable's patterns (one pass) or all patterns
  (simulation) end fully reduced; the simulation ends, and ends stable.
* **Loading**: each pattern's bitmat is the stored one, restricted to the fixed
  positions; its folds name exactly its rows and columns.
* **Bulk loader**: a dumped bitmat holds exactly the triples of its predicate
  (subject, object), its fold included, and its offset finds it again.
* **Query graph**: every join variable is in `jvarsitr2` once, the root search
  ends, children follow parents.
* **Matching**: the rows written are exactly those of the answer, each once; a
  failed branch leaves no mapping behind; no pattern is matched inside its own call.
* **BitMat kernel**: the run-length operations equal their set meanings; a row
  built bit by bit is the row that compressing the bits at once gives.
* **Bridge**: the encoded file is the dictionary image of the input, in any
  order of the workers, or the job is reported failed.

## 2. Plan

| # | module | content | status |
|---|---|---|---|
| 1 | `Query`, `BitMat` | vocabulary: patterns, variables, cells, folds, byte arithmetic | done |
| 2 | `Prune` | the pruning phase as a state machine, its properties | done |
| 3 | `PrunePromise` | what pruning promises to matching; `Prune` implements it | done, checked; safety proved |
| 4 | `QueryGraph`, `Store`, `Load` | graph, order of variables, stored and loaded bitmats: operators that compute the states pruning starts in | operators done |
| 5 | `MCPrune`, `MCSmall`, `MCWide` | stores and queries for TLC | done |
| 6 | `PruneSound`, `PruneReduce` | types and soundness; join results shrink, no empty reload, patterns agree; acyclic queries end reduced | done |
| 7 | `Match` | `match_query_graph` and its helpers with the explicit stack of the recursion | done |
| 8 | `QueryRun`, `Results` | pruning, matching and the line count as one query; it implements "the file receives the rows of the answer" | done, checked; safety proved |
| 9 | `MatchJoins`, `QueryProofs` | types, the mapping invariant, no pattern and no row twice; the rows are the joins; a whole query writes the rows of the answer and counts them | done |
| 10 | `Codec`, `Loader` | the run-length codec; the bulk loader, the dump file and its readers, `bitmat2` | done, checked |
| 11 | `Planning` | the root search step by step; when the search runs off its list | open |
| 12 | `CodecProofs`, `LoaderProofs` | the codec on rows of any length; the loader writes what its lines say, and what is read, unfolded and transposed is what it is on sets | done |
| 13 | `LoadProofs` | from the data to the results: what planning loads, and what the rows of a query are over the stored triples | done |
| 14 | `OrderProofs` | the spanning tree, the breadth-first order and the lists of a query's graph, for every query | done |
| 15 | `Bridge` | jobs, partitions, a failing command | not planned: see 7 |

## 3. Modules and the code

```
Query   BitMat ------ Store --- Codec        Results   PrunePromise
   \    /   \            |   \    |             ^           ^  (implemented by)
   Prune   Match       Load   Loader            |           |
      \     / (INSTANCE) |                      |           |
      QueryRun ----------|----------------------+      Prune
            \           MCPrune - MCSmall, MCWide
             \___________ MCQuery ___/
PruneSound - PruneReduce --- OrderProofs (with Load) --- LoadProofs
                        \                                 /
MatchJoins  - - - - - -  QueryProofs (with QueryRun) -----
          (INSTANCE)
CodecProofs - LoaderProofs
```

**`Query`** is the query file as `parse_query_and_build_graph` reads it. A pattern has
three fields: positive (fixed id), negative (join variable), 0 (a variable that
occurs once). `TP` and `Jvar` are the nodes of the graph.

**`BitMat`**: a bitmat is a set of cells `<<row, column>>`. The run-length
encoding is in `Codec`. A fold is a set of ids, but `ByteOf` and `BytesFor` keep
the byte an id lives in, since S-O joins and unfolds work on bytes;
`LastCommonId` is what the mask `0xff << (8 - num_comm_so % 8)` leaves.
`NumCommSO` is at least 1: with 0 the code indexes byte -1.

**`QueryGraph`, `Store`, `Load`** are operators that compute the states pruning starts in from a
store (a set of triples): adjacency lists, spanning
tree, breadth-first order, root choice, orientation per pattern; which bitmat of which of the
four stored forms a pattern reads, whole, one row or filtered; and what that leaves in
its rows and folds. Three things the code does are kept on purpose: `StoredObjfold` is the fold
the bulk loader really dumps, `Offset` reads the first bitmat for an absent one, and `FilteredLoad` files
rows under the ids `filter_and_load_bitmat` gives them. `Loader` shows that these operators say what the
bytes do. The root of the
variable tree is a choice: `init_tp_nodes_new` reads four bytes of a count into an
uninitialized eight-byte `num_triples` (`graphops.c:1118`), and a pattern whose upper
half is not zero is never the least one unless it comes first (`MinTP`). `RootJvars`
is the set of all outcomes and every instance starts from each of them.

**`Prune`** is the phase from the return of `populate_all_tp_bitmats` to the call of
`match_query_graph`. State and code:

| variable | code |
|---|---|
| `bm`, `fold`, `prev`, `numTriples` | `tp->bitmat.bm`, `.subfold/.objfold`, `.subfold_prev/.objfold_prev`, `.num_triples` |
| `unfolded` | `tp->unfolded` |
| `joinres` | `jvar->joinres`, as the name of the fold it points into |
| `plan` | what does not change: the loaded bitmats, `dimension`, `jvarsitr2`, `leaf_nodes` |
| `reverse`, `pos`, `k`, `try`, `previous` | the loop counters of `prune_triples_new`, `prune_for_jvar`, `prune_triples_sim` |
| `pc` | the place in the code; `"true"`, `"false"` returned; `"crash"` undefined behaviour reached |
| `answers` | history variable: the solutions over the bitmats as loaded |

| action | code |
|---|---|
| `EnterNode`, `SkipLeaf` | the loop headers: forward over all nodes, backward over non-leaves |
| `JoinFirst`, `JoinAnd` | one call of a `*_dim_join`: the first sets `joinres` and the `_prev` copy, later ones AND into the array `joinres` points to |
| `UnfoldUnchanged`, `UnfoldFoldOnly`, `UnfoldCells`, `UnfoldReloadsNothing` | one call of a `*_dim_unfold`: nothing changed; fold only (free variable); fold and cells; the reload of an empty triple list |
| `TryAgain`, `ReturnTrue` | the end of a try: `count_number_of_triples` compared, or one try only |
| `FixAllTpBitmats` | `fix_all_tp_bitmats` |

The order within a call is kept where it matters: fold recomputed before the
AND (the recomputed fold may be the very array `joinres` points to), "changed"
computed before anything is written. The three join and three unfold functions
differ in which axis of which orientation holds their position, which
`JoinAxis` says, and in details that are kept: the S-O branches of
`subject_dim_unfold` and `object_dim_unfold` clear different bytes (`SOFold`).
Only queries the code accepts are modelled: `predicate_dim_join` exits on a
variable that is a predicate here and a subject or object there
(`NoMixedPredicateJoin`); `bushy` is a constant `false` in `main`; queries are
connected, as `tree_bfs` orders only what it reaches.

**`PrunePromise`** has two actions: `Drop` (patterns lose cells no answer needs) and
`GiveUp` (only if no pattern needs any cell), and the promise to come to an end.
`Prune!KeepsPromise` is the refinement: `kept` is `bm`, `outcome` is read off `pc`,
`needed` is computed from the history variable. A crash is a run that never answers.

**`Match`** is matching over the bitmats pruning left (`pruned`), which it only reads.
A running call of `match_query_graph` is a frame of `stack`: its pattern, the parent it was given, and the
cells it still has to try.

| variable | code |
|---|---|
| `maps` | `q_to_gr_node_map`: pattern to triple |
| `unvisited` | the set of that name, in the order of the nodes in `graph[]` |
| `stack` | the recursion: `curr_node`, `parent`, the rest of the loops over rows and bits |
| `rows` | the lines written to `outfile[0]` |
| `stray` | the patterns whose never set `bitmat2.dimension` happens to be one the code tests for (`bitmatops.c:2447`) |
| `phase` | `"abort"` is the failed assertion on a single row, `"crash"` the missing start node |

| action | code |
|---|---|
| `Begin`, `BeginNowhere` | `get_start_node_subgraph_matching` and the first call; a pattern without triples gives no start node |
| `MismatchedTriple`, `WriteRow` | `match_triples_in_row` for one triple: `check_back_edges` rejects it; it is the last pattern and the row is printed |
| `ExploreChild`, `ExploreSibling`, `ExploreUnvisited` | `explore_other_nodes`: a child in the tree, a child of the parent, the first unvisited pattern; `Visit` is the recursive call, with the search for its triples (`Candidates`) |
| `Return` | the return and what the caller undoes |

Kept from the code: `check_back_edges` stops at the first unmapped neighbour (`Compared`), and not every search for triples
goes by the id that was asked for (`LookedUp`); two patterns have one
edge whatever they share (`Edge`, the TODO at `graphops.c:829`); a single row is looked up in its object fold only; a
`bitmat2` of a dimension without a case leaves the triple as it was (`Junk`, `bitmatops.c:1983`). The entry
of `unvisited` that is used after it was erased (`bitmatops.c:1862-1870`) is taken to still read the same.

**`QueryRun`** is `main` from the loaded bitmats on: `PruneStep`, then `MatchStep` (an instance of `Match`
on `bm`), then `CountLines`, the count of the lines of `outfile[0]`. `lines` is the
file, `NULL` where none was opened; pruning to no result leaves it as it is, so the count is then that
of an earlier query or a read through a null pointer (`main.c:420`). `expected` is a
history variable: the rows of the answer. **`Results`** is what a user is promised: rows of
the answer are appended, each once, and the query is over when all of them are there.
`QueryRun!KeepsResults` is the refinement.

**`Codec`** is the run-length row: a first value and the lengths of its runs, with the width of
the code's integers (`Word`). Each operation is translated as it works on runs;
`Bits` says which bits a row has. The loops are recursive functions over the runs
(`Cumulative`, `Sums`, `AndRounds`), so that they can be proved about.

**`Loader`** is the bulk loader and what reads its file, in bytes:

| variable | code |
|---|---|
| `todo`, `prev` | the lines of the raw file, the line before (`pprev`, `sprev`, `prev_bitset`) |
| `grow`, `bm`, `subfold`, `prevRowbit`, `objfold` | the row and the bitmat under construction |
| `dump`, `table` | the dump file as a sequence of fields with their sizes; the offset table |
| `got` | a bitmat read back, then unfolded or turned into `bitmat2` |
| `promise` | history variable: what `Store` says `got` is |

Its assumptions: the triples are over the ids the configuration counts (`StoresAssumption`); a row of
whole bytes has fewer bits than an `unsigned int` counts (`WidthAssumption`, ids are numbered by one); `TableColBytes` and the stale bytes
are numbers (`TableAssumption`, `StaleAssumption`).

| action | code |
|---|---|
| `FirstLine`, `SameRow`, `NextRow`, `NextBitMat`, `LastBitMat` | a line of `load_data_vertically`, by what changes since the line before, with `map_to_row_wo_dgap_vertical`; the last two call `dump_out_data` and `clear_rows` |
| `LoadBitMat`, `LoadOneRow`, `FilterAndLoad` | `load_from_dump_file`, `load_one_row`, `filter_and_load_bitmat` at `get_offset` |
| `UnfoldColumns`, `UnfoldByRow` | `simple_unfold` on either axis |
| `ListTriples`, `ListNothing`, `LastTriple` | `list_enctrips_bitmat_new`, the sort, and `load_data_vertically` from the list: the transposed `bitmat2`, and the reload from it |

**`MCPrune`, `MCSmall`, `MCWide`, `MCQuery`, `MCMatch`, `MCLoader`** are the instances: queries, stores, and which
plans to take (`Folds`). `MCSmall` takes *every* store in which predicates 1 and 2 are any nonempty
relations up to `MaxCells` triples; a filler predicate makes every id occur, as
the dictionary guarantees. `MCWide` has single stores with more ids than a byte
has bits.

**Definitions named `Mutant`** in a comment are plausible wrong versions of the
definition after them, used to see that a property can fail.

## 4. Runs

| run | query or data | shows |
|---|---|---|
| `chain` | `?a 2 ?b . ?x 1 ?a . ?b 1 ?y` | types; pruning never reloads an empty list; `joinres` only shrinks; a changed fold equals `joinres`; the root's patterns end fully reduced; the rows are those of the answer |
| `loaded` | `?x 1 ?a . ?a 2 ?b . ?b 1 ?y` | over folds that are complete but not exact, crashes included: no answer is pruned, "0 results" is true, whatever is written is a row of the answer |
| `predicate` | `2 ?p ?b . 3 ?p ?c . 1 ?p ?x . ?b 1 ?y . ?c 1 ?z` | a predicate join over whole PSO bitmats, one with a free object that pruning never unfolds: its neighbours agree, and matching finds the rows all the same |
| `sim_branch` | `?r 1 ?a . ?r 1 ?b . ?a 3 1 . ?b 2 ?y . ?b 1 ?z` | the variables are ordered as a tree; the simulation ends, is stable when it says so, and every pattern is exactly reduced; matching never meets neighbours that disagree |
| `sim_triangle` | `?a 1 ?b . ?b 2 ?c . ?c 1 ?a . ?a 2 1 . 1 2 ?c` | a cyclic query with two single rows: every variable but the root hangs off an earlier one the reverse pass does not skip; pruning implements `PrunePromise`, progress included; the assertion on single rows holds; no edge goes unchecked in the order of the walk; matching implements `Results` |
| `match` | `?a 1 ?b . ?c 2 ?a . ?b 1 ?c . ?a 3 ?e . ?e 3 ?y` | matching over arbitrary bitmats, not only pruned ones: the mapping is restored on every way back, no pattern is matched inside its own call, no edge goes unchecked on this graph, the mapped neighbours of a pattern agree, the rows are the joins, each once |
| `loader` | all stores of up to 4 triples | rows are canonical; what is read at an offset is what `Store` says; unfolding and transposing runs does what it does to sets |
| `disk_folds`, `common_ids`, `sim_unstable`, `filtered`, `back_edge` | | violations: see 6 |

**Bounds.** In the query runs there are 2 or 3 ids per position, `NumCommSO` is one less or equal, so
S-O joins truncate in many of them; `chain` has object ids 1, 2 and 9, that is,
folds of one and of two bytes. Relations have at most 2 triples (3 ids) or are
arbitrary (2 ids). This is enough for every branch: each action and each
disjunct fires, each of the four orientations occurs, and every kind of
unfold is reached with every kind of pattern (two join variables, one and a
free one, one only, predicate). `match` takes every relation of at most two triples over
two ids for each of three predicates, the empty one included, and a graph on which all three
ways of `explore_other_nodes` are taken. Nothing else is bounded in these runs: each try of
pruning deletes cells or is the last, and the walk only uses up its cells.

`loader` has 2 subjects, 2 predicates and the objects 1, 2 and 8 of 8, so that rows begin and end
at either end of a byte and in the middle; all four dimensions, `COMPRESS_FOLDED_ARRAY` on and off.
`Word` is 2^16 instead of 2^32 and `StaleBytes` (what `object_bytes` may hold before it is set,
`graphops.c:1219`) is 0, 1 and 8191, the last so that the wrapped sum is reached. `TableColBytes` is 2: no file is as
long as that allows. The lines are sorted and have no repetition, as `sort -u` in the bridge leaves them.
Deadlock is off in `match` and `loader`, which simply end.

**Folds.** `Folds = "disk"` takes every plan, with the folds the loader dumps.
These can lack a bit (finding 1), after which soundness is lost; `"complete"`
takes the plans whose folds name every id present, `"exact"` those that name
no other. The runs say which they need: soundness needs complete ones only,
reduction, crash freedom and the refinement of `Results` exact ones.

**Fairness.** `WF_vars(Next)` for pruning alone, `WF_runVars(RunNext)` for a query: one thread,
which runs until it returns and never waits for anything. `Termination`, the progress half of `KeepsPromise`
and that of `KeepsResults` need no more. The system
does stop, so `Finished` and `Ended` stutter in the returned states and deadlock stays
checked everywhere else.

## 5. Proofs

The theorems hold for every query, every set of plans (bitmats, folds and variable orders
of any kind), every number of ids and both pruning procedures; those on `Match` for all bitmats pruning
might leave and every graph and tree. They rest on the assumptions
of the modules: `QueryAssumption`, `SizesAssumption`, `PruneAssumption` (a variable's list
holds patterns that mention it; bitmats are finite), `NoMixedPredicateJoin` and `MatchAssumption`
(a pattern is no neighbour of itself; `Junk` holds triples), which `GraphAssumption` repeats for `QueryRun`,
and on what a theorem states itself. Those on `Loader` hold for every set of stores, every number of ids, dimension and option,
with the assumptions of section 3.

* `PruneSound!TypeCorrect`: `Spec => []TypeOK`. `TypeOK` is not inductive: `CurTP` is
  meaningful only if `k` is inside the variable's list, and unfolding reads
  `fold[joinres[..]]`, which needs `joinres` to be set by then. `Shape` adds this
  (`IndexOK`, `JoinresSet`), that `joinres` points into a fold that holds its
  own variable (`JoinresPoints`), and that bitmats stay finite, so that counts are numbers.
* `PruneSound!PruningLosesNothing` and `NoResultsIsTrue`: `Spec => []NoAnswerLost` and
  `Spec => []EmptyMeansNoAnswer`, if the plans' folds are complete
  (`CompleteFolds`) and `NumCommSO % 8 # 0` (`PartialLastByte`). The runs `disk_folds` and
  `common_ids` show that both assumptions are needed. The inductive
  invariant is `Sound`: besides the two, `Cover` says that every fold of every
  pattern still names the binding of each of its variables in each
  answer. Joins and unfolds write folds through an alias, so the heart of the proof
  is `CoverUpdate`: a fold may be replaced by any set that has the bindings of *one*
  of the variables it is a fold of, since an answer that matches a cell gives all
  variables on one axis the same id (`SameAxis`). For S-O joins the truncation keeps
  an answer's id because it is a common one (`SOJoinVar`, `LastIsLast`), and the byte
  arithmetic of an S-O unfold keeps it because it lies below both fold lengths and
  below `common_so_bytes` (`BelowLimit`, `NewFoldCovers`). So the overlong clearing in
  `object_dim_unfold` (section 7) is harmless for soundness: it keeps too much, never too little.
  `FixAxisOfJvar` shows that `fix_all_tp_bitmats` picks the axis of the pattern's one variable.
* `PruneSound!KeepsSafePromise`: `Spec => Promise!Safety`, each step being `Drop`, `GiveUp`
  or a stutter, from `Sound` before and after the step.
* `PruneSound!JoinResultsShrink`: `Spec => JoinresShrinks`. Assumed are complete folds, that a list names a
  pattern once (`DistinctNodes`), that an axis of a pattern belongs to one variable
  (`OneJvarPerAxis`: rows and columns are two positions of the triple, the third one is fixed) and that `NULL` is no set of numbers (`NullIsNoFold`, which TLC cannot evaluate, so it is
  not an `ASSUME` of the module). A join result could regain an id when its pattern is joined again and the fold it lives in
  is recomputed. `FoldsCover` says it cannot: a fold covers what its bitmat holds. That fails
  between the join of the first pattern and its unfold, when the fold is ahead of the bitmat (`Ahead`), and
  only the copy in `_prev` makes the unfold happen (`PrevCovers`).
* `PruneSound!ReloadsSomething`: `Spec => []NeverReloadsNothing`, with exact folds. The invariant `Reload` adds
  that a fold that is not recomputed names no id its bitmat lacks (`FoldsInside`) and that every pattern joined so far
  still has each id of the join result (`NodeAgreed`); an unfold then keeps a cell.
* `PruneSound!FoldsFollow` and `NodesAgree`: `Spec => FoldFollowsJoinres`, `Spec => NodeAgreement`. An unfold is skipped when a
  comparison says "unchanged", and the three join functions compare with three different copies, so that a pattern that
  was left alone agrees with the others has to be carried from its join to the end of its node (`Agree`). The hypothesis is `Loaded`: exact folds,
  bitmats of ids the stored orientation can have (`WellLoaded`), every pattern of a variable in its list (`AllListed`); and
  `CommonTail`: object folds are no longer than subject folds in bytes, or the latter end with the byte of the last common id, or no variable
  is both subject and object. Without it `object_dim_unfold` clears from the wrong byte (section 7) and `FoldFollowsJoinres` is false. What it then
  leaves is exactly the ids of the last bytes, which are no subject's (`Overhang`); the invariant `Agree` says "the join result, or with such ids besides"
  (`IsJoinres`), so that what follows can do without `CommonTail` where it does not matter.
* `PruneReduce!RootIsReduced`, `AllAreReduced`, `SimIsStable`: an acyclic query ends reduced, one pass forward and back for the
  patterns of the first variable, the simulation for all of them; so the simulation is stable whatever its count missed.
  This is an induction over the tree of variables, which is put into two rigid families of sets: `Supported` holds
  the ids of a variable that the patterns *as loaded* support from below, `Settled` those that have a supported way up as well. Each is
  the union of all families of sets that satisfy its equation, so they need no recursion. The reverse pass brings every
  variable it has passed inside `Supported`, leaves first (`BottomUp`); the forward pass of the second try
  brings every one inside `Settled` (`TopDown`); both stay true under every later step, because patterns only shrink (`Within`).
  That a settled id is in a solution is an induction over the order of the variables: a solution of the
  first ones is extended by one (`OneMore`), and a shortest order that cannot be completed is found by the least-number principle
  (`LeastNat`, from `WFMin`). Assumed are `Loaded`, `CommonTail`, a plan in tree order (`Trees`; `OrderProofs` derives it from the query, `sim_branch` checks it as `OrderIsTree`)
  and that the patterns of the variable are cut on it (`CutOn`): one with a free variable on the predicate never is, not even by `fix_all_tp_bitmats`. The plans
  of `chain` and `sim_branch` satisfy these assumptions.
* `MatchJoins!MatchTyped`, `MapsAlwaysRestored`, `NeverVisitedTwice`: the invariant is `TypeOK`, `PhaseOK` (a running
  match has a call), `MapsRestored` and `VisitedOnce` together, none of which is inductive alone. That a row has a triple
  for *each* pattern when the recursion is as deep as there are patterns is a pigeonhole
  argument (`AllOnStack`): the calls are at different patterns.
* `MatchJoins!NoRowTwice`: `Spec => []RowsOnce`. No record is kept of what was written, so the invariant `RowsPast`
  finds the difference in the stack: for each written row there is a call up to which the row agrees
  with the mapping and whose remaining triples it is not among. `PredicateJoinsAlone` (a pattern whose predicate is a
  variable joins on nothing else) is assumed because the code leaves the triple of such a pattern uninitialized
  (`bitmatops.c:1983`), and the same junk may be printed twice.
* `MatchJoins`: over any bitmats the rows are the joins. `RowsOnlyJoins`: what is mapped fits together (`MapsFit`) and so does each
  triple a call has still to try with the mapping of its callers (`Kept`); this needs
  `BackEdgesSeen`, that a mapped neighbour behind an unmapped one is the one the triples were looked up by, which is
  true of some graphs and orders only (finding 5). `NoJoinMissed` needs no such condition: a join that is
  not written yet agrees with the stack up to some call and continues with a triple that this call has still to try (`JoinsAhead`).
  `RowsAreTheJoins` puts both together with `NoRowTwice`. `StarRowsAreTheJoins` shows where `BackEdgesSeen` can be dropped: when all
  patterns join on one variable and are loaded by it; `StarEdgesSeen` is that fact alone: a triple that a call of a star tries was looked up by the
  only variable it shares with anyone, so it agrees with a neighbour nothing compares it with. `AcyclicEdgesSeen` and `AcyclicRowsAreTheJoins` drop it for acyclic queries over consistent bitmats (below). `NoFatalError`: mapped neighbours agree on what they ask for.
  The hypotheses are `EdgesMeet` (an edge is seen from both ends alike; two patterns that share two variables crosswise are
  left out), `SharedOnce` for `NoFatalError` (no two patterns share two variables), `GraphOfQuery` (neighbours are the patterns that share a variable),
  `SingleRowsTidy` (a single row is that of its predicate, its object fold is exact) and, for completeness, that no stray `bitmat2` is searched.
  `AcyclicEdgesSeen`: in an acyclic query (`Acyclic`: a pattern with two variables is a bridge between them) whose bitmats are `Consistent` (each triple has one that agrees in every
  neighbour), nothing goes unchecked, whatever the tree, the order of the walk and what `unvisited` holds. The invariant is `TreeInv`: each call is at a neighbour of an earlier one (`Kin`), and so is what it
  may go to next, the children of its parent (`Parents`) and what waits in `unvisited` (`Near`). So the mapped patterns hang together, and as there is one way between two variables, a pattern shares
  one variable only with those of them that are its neighbours (`OneWayIn`): the one its triples are looked up by (`TreeLooksUp`). By consistency there is always a triple to find (`HasCandidates`) and none that
  is rejected (`TreeAgrees`). Every call thus leads to a row before it returns, and `unvisited` is empty from the first row on (`Fresh`): what is not restored in it is nothing, and the next round refills it with neighbours of mapped patterns.
  `SingleRowsHaveIds` is the `assert(0)` on a single row: it holds if the ids that the neighbours of a single row are left with are in
  its fold (`NeighboursKnown`), since each triple tried is one of the pattern's own (`TriesReal`).
* `QueryProofs!QueryLosesNothing`, `ZeroIsTrue`: every step of `RunSpec` is a step of `Prune` or leaves it alone, so
  `Sound` holds to the end of the query; and "0" is printed only if the answer has no *row*, free variables included.
* `QueryProofs!WalkHasStart`, `AssertionHolds`, `NoFatalInQuery`, `RowsAnswer`, `NothingMissed`, `KeepsSafeResults`, `CountIsAnswer`: the two phases
  together, cyclic queries included, in four parts.
  1. What pruning leaves (`PruneReduce!Stocked`). When it returns true every pattern has a triple (`LeftSome`), each binding a pattern is left with
     is in the fold of every *single row* on the same variable (`FoldsBound`, `LeftInFold`, `SinglesExact`), and an S-O variable is left with common
     ids only, apart from an overhang in object positions (`LeftCommon`), which no subject position can agree with later. In a cyclic query neighbours need not agree at the end, but what was cut on a fold stays inside it.
  2. That is what `MatchJoins` takes as `SingleRowsTidy`, `NeighboursKnown` and nonempty bitmats (`Begins`); from there the
     invariants of `MatchJoins` are carried through an instance `J` of it.
  3. Joins of what is left are rows of the answer (`JoinIsAnswer`): reading each variable off any pattern gives one binding, as triples that agree
     on the edges agree on the variables. Rows of the answer are joins as long as no triple of one is deleted (`AnswerIsJoin`).
  4. So each written row is new and of the answer, and the walk ends with all of them (`Correct`), which are the actions of
     `Results` (`StepKeepsResults`); the number main prints is then the size of the answer.

  `StarIsAnswered` is the same without a condition on the walk, when all patterns join on one variable (`FetchedByJvar`: `init_tp_nodes_new` loads
  them by it); `StarQueryEdgesSeen` says that the walk of such a query sees its back edges.

  `AcyclicQueryEdgesSeen` and `AcyclicIsAnswered` need no condition on the walk either: an acyclic query that `prune_triples_sim` has pruned holds
  only triples of solutions (`AllAreReduced`), and a solution gives each triple one that agrees in every neighbour (`ReducedConsistent`), which is what `AcyclicRowsAreTheJoins` takes.
  With `prune_triples_new` only the patterns of the root are reduced. That is not enough: `back_edge` is an acyclic query pruned so, and writes a wrong row. So `prune_triples_sim`
  does not only save work, matching relies on it. An acyclic query has `SharedOnce` (`AcyclicSharesOnce`).

  The hypotheses are `Handed`: `Loaded` as above, an order of variables that reaches every variable (`AllOrdered`), a variable in one position of a
  pattern (`OnePlace`, so not `?x 1 ?x`), bitmats as `init_tp_nodes_new`
  and `populate_all_tp_bitmats` leave them (`Fetched`) and neighbours as `build_graph_new` makes them (`GraphOfQuery`), and `RowsReach`: the variable of a single row has no overhang
  in a pattern that shares it. `CommonTail` implies it, as does a variable in one position; without it `AssertHolds` is false (section 7). `CommonTail` itself is not
  assumed: ids that were not cleared are no solution, and matching sorts them out. Besides
  them `PredicateJoinsAlone`, `SharedOnce` and, for completeness, `WithoutBitmat2 = {}`. `RowsAnswer` and what follows from it
  take `[]BackEdgesSeen`, since rows are wrong without it (finding 5); `NothingMissed` does not. The instances
  `chain`, `sim_branch` and `sim_triangle` satisfy all of them, and `sim_triangle` checks `BackEdgesSeen`; `predicate`
  has a predicate variable together with another, so there the properties are model-checked only.
* `LoadProofs` removes from these theorems what they assume of bitmats: it starts from a set of triples (`IsStore`) and plans made of it by `PlanOf`, from any root
  and any spanning tree (`PlannedFrom`).
  1. `WhatIsLoaded`: `WellLoaded`, `OneJvarPerAxis` and `Fetched` hold of every such plan. The file a pattern is read from says which of its positions are fixed
     (`DimensionIs`), whatever the order of the variables; then each way to load is taken by itself.
  2. `WhatFoldsAre`: so do `CompleteFolds`, and `ExactFolds`, unless loading misfiles something. There are three ways: a bitmat's first fold bit went to the one before (`FirstBitsKept`
     excludes it), its fold has such a bit of the next one (`FirstBitsOwn`; both are finding 1), or rows were filtered under shifted ids (`RowsFiledRight`, finding 4). The conditions name only the
     bitmats a plan reads, and leave out bits that do no harm because another triple sets them too. The runs `disk_folds` and `filtered` show that the first and the last are needed.
  3. `ExpectedIsAnswer`: the rows `QueryRun` expects, computed from loaded bitmats, are `AnswerOver`, which is stated of the triples: one of them for each pattern, with its
     fixed ids, one id for each variable, a common one where it is a subject and an object. Cells and triples that fit a pattern correspond one to one (`PlanTriples`).
     The query's ids occur in the data (`KnownIds`): the dictionary has no others, and an absent one is taken for the first bitmat (section 7).
  4. `DataLosesNothing`, `ZeroOfData`, `RowsOfData`, `CountOfData`, `StarOverData`: what is said above of bitmats, of the data. `RowsOfData` contains `RowsStored`, whose instance for all stores is the
     property that `filtered` refutes. `WalkedBy` says that the lists are those of `QueryGraph`, that the query hangs together and that its order is that of the code, besides
     `OnePlace` and `RowsReach`; that such lists name each pattern once, show every edge and reach every variable (`DistinctNodes`, `AllListed`, `AllOrdered`, `GraphOfQuery`)
     is proved of them (`GraphWalks`), and that the tree the patterns are walked by is made of edges of the query (`TreeWalksEdges`, from `SpanningTreeIs`). For a star nothing else is assumed but `PartialLastByte`; other queries keep `[]BackEdgesSeen`, `SharedOnce` and `PredicateJoinsAlone`.
  5. `AcyclicOverData`: what is said above of acyclic queries, with neither bitmats nor orders assumed: such a query over data that loading misfiles nothing of is pruned to what is in a solution.
     `AcyclicAnsweredOverData` goes on to the number main prints: pruned by `prune_triples_sim` it has its answer over the data written, all of it, each row once, and counted. Nothing is assumed of the walk.

  The hypotheses are satisfied, for example, by the query of `chain`, and by the star `?a 1 ?x . ?a 2 1 . ?y 1 ?a`, over the filler and the triples `1 1 1`, `2 1 2` and
  the four of predicate 2 between 1 and 2, with 3 subjects, 9 objects and 2 common ids: TLC found all of them true there, and both queries have answers. Those of `AcyclicAnsweredOverData` are
  satisfied by the query of `back_edge` over all triples of 3 ids and 10 predicates. Over the store of `back_edge`, with `prune_triples_sim` in place of `prune_triples_new` and exact folds, TLC finds `RowsAreAnswers` and `BackEdgesSeen` true.

* `OrderProofs`: what planning makes of a query.
  1. `SpanningTreeIs`: the recursion of `spanning_tree` is a function of the number of steps made (`Walk`). Its invariant is that the coloured nodes are a tree
     (`IsTree`), that a coloured node without a call has coloured neighbours only (`Visited`), and that `2 * |black| - 1 - Len(calls)` steps are made, since each node is entered and left once: so
     twice the number of nodes is enough for the last call to return. "Reachable" is said without paths: every set that has the root and is closed under the children contains the tree.
     The code also stops at depth `nodecnt` (`graphops.c:1682`); then all nodes are coloured and a call would find nothing to enter.
  2. `TreeBfsIs`: after `i` turns of `tree_bfs` the queue holds no node twice, each but the root behind its parent, and the children of the first `i` (`IsQueue`). A
     queue whose nodes are all taken is closed under the children and holds the tree.
  3. The lists of `build_graph_new` name exactly the patterns and variables they should (`ListOfJvar`, `ListOfTP`, `NeighboursOfTP`, `NeighboursOfJvar`), so in a
     query that hangs together (`Connected`: no set of variables is cut off from the rest) the tree has all variables (`TreeOfJvars`).
  4. `PassesReach`: `Spec => []PassesReachAll` follows for such queries. `OrderIsOfTree`: `Spec => []OrderIsTree` if each pattern with two variables is a bridge as well
     (`Acyclic`): a second pattern that links a variable to earlier ones, or a child behind a leaf, would be a way around one (`OnlyLink`).

  Both theorems are about all roots, so the choice `RootJvar` makes, and the garbage it may depend on, do not matter. TLC evaluated `Connected`, `Acyclic` and the other
  hypotheses on the queries of the runs: they hold in `sim_branch`, and all but `Acyclic` in `sim_triangle`, which is a cycle.
* `CodecProofs!CountIsBits`, `DgapAndMeets`: `count_triples_in_row` counts the bits of a row, and `dgap_AND` gives the bits both rows have,
  for rows of any length. What a recursive function is, and what it computes, is an induction over its argument, made by the least number of a set
  (`Least`, from the well-foundedness of the numbers) instead of a library theorem. A row is `Straight` if no run is empty and the ends of the runs do not wrap, and
  `Loose` if that may fail for a last run of 0s: that is what `get_and_array` makes of a stale width, and what an AND with it is. The invariant of the loop of
  `dgap_AND` (`AndInv`) says that the result so far has the right value up to where both rows have been read (`Right`). `RowIsCanonical` says
  that a straight row *is* what `dgap_compress_new` gives for its bits, and `Extended` that concatenating a run extends one.
* `LoaderProofs!LoaderInvariant`: the invariant `IInv` relates the state to the set of lines (`LinesOf`) and the line read last.
  `LoadInv`: the rest of the file is what comes after that line (`IsQueue`), the row under construction has the columns of its row up to it, the complete
  rows are the earlier ones of its bitmat, the folds those of what was read, which for the object fold means without the column that went to the
  bitmat before (`FoldedTo`). `FileInv`: each bitmat that was dumped has its record at the offset in the table, one that was
  not has offset 0, where the first one is. `ListInv` is `LoadInv` for the list that becomes `bitmat2`, `ReadInv` says that the rows read are in
  order, none of them empty, and have the cells of `promise`, and the rest (`DataInv`, `RestInv`, `IdleInv`) that what is not at work is cleared.
  `TypeOK`, `RowsCanonical`, `ReadsStored`, `UnfoldsCells` and `TransposesCells` follow from it (`LoaderTypes`, `RowsAreCanonical`, `ReadsWhatIsStored`, `UnfoldsTheCells`,
  `TransposesTheCells`). That a reader finds the record it looks for takes that offsets increase from field to field (no field is empty), so that a field is known by its offset;
  that the rows after it are the right ones takes the subject fold, whose bits in order are the ids. For `filter_and_load_bitmat` an invariant over its loop
  (`IsFiltered`) counts the rows it left out, which is by how much `FilteredLoad` shifts the ids.

  The theorems are about behaviours with `[]Fits`: every offset that is written is less than `256 ^ TABLE_COL_BYTES`. The code does not
  check it, and a longer file has truncated offsets in its table: it is the condition the repository's README (lines 83-88) puts on the option.
  The `loader` run satisfies it. `Fits` and `IInv` were checked by TLC on its instance before the proof.

Only model-checked: `KeepsResults` where these hypotheses fail (`predicate`) and its progress,
and `BackEdgesSeen` for cyclic queries and for acyclic ones that are no stars and are pruned by `prune_triples_new` (it holds of the instances, not of every query: see `back_edge`). That a power of 256 is a positive number is assumed (`TableAssumption`):
the provers know nothing of `^`. Liveness
(`Termination`, the progress of `KeepsPromise` and `KeepsResults`) is left to TLC, as is the root search (`MinTP`, `RootJvar`), which
only the instances evaluate: no theorem depends on which variable is the root.

## 6. Findings

1. `disk_folds`: `map_to_row_wo_dgap_vertical` sets the object-fold bit of a predicate's
   first triple before the previous predicate's folds are dumped and cleared. The bit
   ends up in the wrong fold (`bitmatops.c:1089-1096`, `2843-2877`). A join on such a fold drops answers.
2. `common_ids`: when `NUM_COMMON_SO` is a multiple of 8 the mask of the last common byte is 0 and
   eight common ids never join (`graphops.c:2204, 2233, 2315, 2344`).
3. `sim_unstable`: `count_number_of_triples` never advances `nextTP` (`prune_triples_sim.c:96-99`), so the
   count misses patterns and the simulation can stop before it is stable.
4. `filtered`: `filter_and_load_bitmat` does not count a row it leaves out (`bitmatops.c:3174-3180`), so later predicates
   are filed one id lower and a row of the results is no triple of the data.
5. `back_edge`: `check_back_edges` moves its list pointer only past a mapped neighbour (`bitmatops.c:1928`). Behind an
   unmapped one nothing is compared. The query is acyclic and its first row is right, but `explore_other_nodes` erases patterns from `unvisited` (`bitmatops.c:1864`) that nothing
   puts back when a call returns, so the second row is walked in another order, and the third binds `?d` to two ids.
   On the graph of `match` (a triangle with a tail) the check is complete. `BackEdgesSeen` is the condition that tells
   the two apart, and what is proved of it says which queries are safe: stars, and acyclic queries
   that `prune_triples_sim` has pruned.

## 7. Known behaviour without a run, and what is not modelled

Modelled, but stated by no run of its own:

* an unfold of an SPO or OPS bitmat on its columns reloads its triples; with none
  left `concatenate_comp_arr` gets a row of size 0 and `(size1-1)/GAP_SIZE_BYTES` wraps
  (`bitmatops.c:2809`, `886`). It needs a fold with a foreign bit, which finding 1 provides; with exact
  folds it is proved not to happen. `loaded` has runs that end so.
* `object_dim_unfold` clears the tail of a longer object fold from `common_so_bytes` on
  instead of from `limit_bytes` (`graphops.c:2600, 2659`). If there are more bytes of objects than of subjects and more of these than of common ids, the
  last object ids stay in the fold and in the bitmat. Matching drops them, except where a single row is asked for one: with 9 subjects, 25 objects and 2
  common ids, the patterns `?b 2 1`, `?a 1 ?b`, `?a 2 9` and the triples `1 1 1`, `1 1 2`, `1 1 25`, `1 2 1`, `2 2 1`, `1 2 9` (and others that use every id) the row of `?b 2 1`, two bytes for 9 subjects, is
  asked for subject 25 (`bitmatops.c:2240`): TLC ends in the `assert(0)` (`AssertHolds` is violated), the program reads behind the array, and goes
  on with a row that is no triple if the bit happens to be set. The model has the assertion only. The proofs exclude the case (`CommonTail`, `RowsReach`);
  so do the sizes of the instances.
* `bitmat2.dimension` is never set where there is no `bitmat2` (`bitmatops.c:2447`); with a matching stray value a
  pattern with a free predicate is searched in an empty bitmat and its rows are missing. The instances
  have no such pattern; `Begin` takes every set of them.
* two patterns that share two variables are compared on one (`graphops.c:829`, a TODO of the authors).
* the number of results after an empty pruning is the line count of an earlier file (`main.c:420`).
* `get_offset` returns 0, the first bitmat, for an absent one (`graphops.c:1480`); `Loader` checks that this is what is read.
* the root search takes equal non-variables for a shared variable (`graphops.c:1577`), as in `?x 1 ?a . ?y 2 ?a`, whose free subjects are both 0,
  and runs off the list of variables: `RootJvar` is `NULL` then and no instance plans such a query.
* a row of alternating bits needs `ROW_SIZE_BYTES + 1` bytes more than `grow` has (`bitmatops.c:2724`): `SizeOf` and
  `StoredSize` say how many a row takes, there are no buffers in the model.

Not modelled:

* **RDF bridge**: a line of shell commands (`sort -u`, `sed`, `uniq`) around redis and a cluster written in Go whose
  submodule is not in the repository. What can go wrong is in those programs or in the exit codes `executeCommands`
  ignores; `Loader` takes what they should deliver, sorted lines over ids 1..n.
* **Query interface**: it turns text into patterns by splitting strings, and lines into pages.
* **Legacy operations** nothing on the query path calls, and the bushy-query branches behind a constant `false`.
* Option and configuration parsing, timing and log output, memory allocation
  and the fixed-size buffers (10-character field buffers in the query parser, at most 32
  patterns and 32 variables).
* The steps of planning: which pattern is loaded when is evaluated at once, as operators, and has no actions.

As committed, two stray `address_order` tokens (`graphops.c:22`,
`prune_triples_sim.c:47`) keep the program from compiling; the model is of the code without them.
