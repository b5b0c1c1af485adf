------------------------------- MODULE BitMat -------------------------------
(***************************************************************************)
(* The bit matrix of one triple pattern and the operations the pruning     *)
(* phase performs on it (bitmat.h, bitmatops.c, graphops.c).               *)
(*                                                                         *)
(* A bitmat is the set of its cells <<row, column>>, both numbered from 1. *)
(* Its two folds are sets of ids: subfold names the rows that hold a bit,  *)
(* objfold the columns.  What a row or a column stands for depends on the  *)
(* bitmat's dimension: the rows of an SPO bitmat are subjects, those of an *)
(* OPS bitmat objects, those of PSO and POS bitmats predicates.            *)
(*                                                                         *)
(* Folds are byte arrays in the code and some operations work on whole     *)
(* bytes, so the byte an id lives in is part of the model.                 *)
(***************************************************************************)
EXTENDS Integers, FiniteSets

CONSTANTS
  NumSubs,    \* gnum_subs:  ids of subjects are 1..NumSubs
  NumPreds,   \* gnum_preds
  NumObjs,    \* gnum_objs
  NumCommSO   \* gnum_comm_so: the ids 1..NumCommSO name the same URI as a
              \* subject and as an object

ASSUME SizesAssumption ==
  /\ NumSubs \in Nat \ {0} /\ NumPreds \in Nat \ {0} /\ NumObjs \in Nat \ {0}
  /\ NumCommSO \in Nat \ {0} /\ NumCommSO <= NumSubs /\ NumCommSO <= NumObjs

Dimension == {"SPO", "OPS", "PSO", "POS"}

\* The two fold arrays of a bitmat.
Axis == {"subfold", "objfold"}

Cell == Nat \X Nat

Coord(c, a) == IF a = "subfold" THEN c[1] ELSE c[2]

\* The axis that holds the ids of a join position, which decides the branch the
\* join and unfold functions take.
JoinAxis(dim, position) ==
  IF <<dim, position>> \in
       {<<"SPO", "SUB">>, <<"OPS", "OBJ">>, <<"PSO", "PRED">>, <<"POS", "PRED">>}
  THEN "subfold" ELSE "objfold"

\* The number of ids along an axis: what shallow_init_bitmat is called with.
Width(dim, a) ==
  CASE a = "subfold" /\ dim = "SPO"          -> NumSubs
    [] a = "subfold" /\ dim = "OPS"          -> NumObjs
    [] a = "subfold" /\ dim \in {"PSO","POS"} -> NumPreds
    [] a = "objfold" /\ dim \in {"SPO","PSO"} -> NumObjs
    [] a = "objfold" /\ dim \in {"OPS","POS"} -> NumSubs

\* subject_bytes, object_bytes, common_so_bytes: bytes of a fold over n ids,
\* and the (0-based) byte that holds the bit of an id.
BytesFor(n) == (n + 7) \div 8
ByteOf(id)  == (id - 1) \div 8

\* simple_fold: the ids along axis a that still carry a bit.
SimpleFold(bm, a) == {Coord(c, a) : c \in bm}

\* simple_unfold: the cells whose id along axis a is in the mask.
SimpleUnfold(bm, a, mask) == {c \in bm : Coord(c, a) \in mask}

\* Mutant: the last byte goes unless it is full.
LastFullByteId == NumCommSO - (NumCommSO % 8)

(***************************************************************************)
(* The truncation of a join result to the common subject/object ids.  The  *)
(* code zeroes every byte from common_so_bytes on and ands the last common *)
(* byte with (0xff << (8 - num_comm_so % 8)), kept in an unsigned char:    *)
(* when num_comm_so is a multiple of 8 the shift is by 8, the mask is 0    *)
(* and the whole last byte goes.                                           *)
(***************************************************************************)
LastCommonId ==
  IF NumCommSO % 8 = 0 THEN NumCommSO - 8 ELSE NumCommSO

TruncateToCommonSO(ids) == {i \in ids : i <= LastCommonId}
=============================================================================
