---------------------------- MODULE AffineProgram ----------------------------
(***************************************************************************)
(* The input of the pipeline and its first pass (affinetodhir.h): a        *)
(* function body is a sequence of items, each an affine loop nest that has *)
(* been found parallel or host code that stays serial; at most one time    *)
(* loop wraps a stretch of items (the ConvergeOp).                         *)
(*                                                                         *)
(*   parallel item  [kind, lb, ub, accesses, escapes]                      *)
(*   serial item    [kind, reads, writes]     reads, writes: sets of Cells *)
(*   program        [items, first, last, trip]                             *)
(*                                                                         *)
(* Items first..last form the loop body, run trip times; first > last      *)
(* means there is no loop.  Rows are rows of dimension 0; a column is a    *)
(* position within a row, whatever the number of trailing dimensions.  An  *)
(* access is what the partition analysis sees of a load or store, and the  *)
(* part of the memref it has to do with:                                   *)
(*                                                                         *)
(*   [mem, store, form, dim, off, part]                                    *)
(*     form "exact"       index iv + off in dimension dim, once            *)
(*     form "unsupported" iv inside some larger index expression           *)
(*     form "invariant"   iv does not occur                                *)
(*     part               the cells of mem that trailing indices, inner    *)
(*                        bounds and affine.if let it touch, which no pass *)
(*                        looks at                                         *)
(***************************************************************************)
EXTENDS Integers, Sequences, SequencesExt, FiniteSets

CONSTANTS
  Mems,     \* the memrefs
  RankOf,   \* number of dimensions of each memref
  Extent,   \* rows (dimension 0) of each memref
  Columns,  \* columns of each memref, those that no access tells apart as one
  Dynamic   \* the memrefs of which a trailing dimension is dynamic

(* A vector has one element to a row, and only rank 2 and up has trailing   *)
(* dimensions.                                                             *)
ASSUME ColumnsAssumption ==
  \A m \in Mems : RankOf[m] = 1 => Cardinality(Columns[m]) = 1 /\ m \notin Dynamic

MemCells(m) == {m} \X (0 .. Extent[m] - 1) \X Columns[m]

Cells == UNION {MemCells(m) : m \in Mems}

Accesses ==
  [mem : Mems, store : BOOLEAN, form : {"exact", "unsupported", "invariant"}, dim : Nat,
   off : Int, part : SUBSET Cells]

WellFormedItem(item) ==
  \/ item.kind = "serial" /\ item.reads \subseteq Cells /\ item.writes \subseteq Cells
  \/ /\ item.kind = "parallel"
     /\ {item.lb, item.ub} \subseteq Nat
     /\ item.accesses \in Seq(Accesses)
     /\ \A a \in {item.accesses[n] : n \in 1 .. Len(item.accesses)} : a.part \subseteq MemCells(a.mem)

Items(prog) == 1 .. Len(prog.items)

Parallel(prog) == {k \in Items(prog) : prog.items[k].kind = "parallel"}

InLoop(prog, k) == k \in prog.first .. prog.last

(* The order in which items run, as item numbers.                          *)
Trace(prog) ==
  LET body == prog.first .. prog.last
      upTo(a, b) == [k \in 1 .. b - a + 1 |-> a + k - 1]
  IN  IF body = {}
        THEN upTo(1, Len(prog.items))
        ELSE upTo(1, prog.first - 1)
             \o FlattenSeq([t \in 1 .. prog.trip |-> upTo(prog.first, prog.last)])
             \o upTo(prog.last + 1, Len(prog.items))

AccessSet(item) == {item.accesses[n] : n \in 1 .. Len(item.accesses)}

AddedOnce(mems, a, from) ==
  IF a \in from /\ ~Contains(mems, a.mem) THEN Append(mems, a.mem) ELSE mems

(* The memrefs of these accesses of a parallel item, in the order of their *)
(* first such access.                                                      *)
Collect(item, from) ==
  LET mems[n \in 0 .. Len(item.accesses)] ==
        IF n = 0 THEN <<>> ELSE AddedOnce(mems[n - 1], item.accesses[n], from)
  IN  mems[Len(item.accesses)]

Stores(item) == {a \in AccessSet(item) : a.store}

Writes(item) == Collect(item, Stores(item))

(* A memref that is read and written is listed with the writes only.       *)
Reads(item) ==
  Collect(item, {a \in AccessSet(item) \ Stores(item) : \A b \in Stores(item) : b.mem # a.mem})

(* replicateID: the loops outside are numbered first, then the loops       *)
(* inside the ConvergeOp.                                                  *)
ReplicateId(prog, k) ==
  LET before(j) == \/ InLoop(prog, k) /\ ~InLoop(prog, j)
                   \/ (InLoop(prog, k) = InLoop(prog, j)) /\ j < k
  IN  1 + Cardinality({j \in Parallel(prog) : before(j)})

(* The rows that access a may touch in iteration i of its loop.            *)
RowsOf(a, i) ==
  IF a.form = "exact" /\ a.dim = 0
    THEN {i + a.off}
    ELSE 0 .. Extent[a.mem] - 1

(* The cells iteration i loads and stores: a row need not be stored whole. *)
Touched(a, i) == {c \in a.part : c[2] \in RowsOf(a, i)}

LoadsOf(item, i) == UNION {Touched(a, i) : a \in AccessSet(item) \ Stores(item)}
StoresOf(item, i) == UNION {Touched(a, i) : a \in Stores(item)}

(* isLoopIndependent: no iteration loads what another one stores.          *)
Independent(item) ==
  \A i, j \in item.lb .. item.ub - 1 : i # j => LoadsOf(item, i) \cap StoresOf(item, j) = {}

InRange(item) ==
  \A i \in item.lb .. item.ub - 1 : \A a \in AccessSet(item) :
    RowsOf(a, i) \subseteq 0 .. Extent[a.mem] - 1

WellFormed(prog) ==
  /\ Len(prog.items) \in Nat
  /\ \A k \in Items(prog) : WellFormedItem(prog.items[k])
  /\ \A k \in Parallel(prog) : Independent(prog.items[k]) /\ InRange(prog.items[k])
  /\ {prog.first, prog.last} \subseteq Int /\ prog.trip \in Nat
  /\ prog.first .. prog.last \subseteq Items(prog)

(* Cells an item writes when the program runs as written.                  *)
WrittenBy(item) ==
  IF item.kind = "serial"
    THEN item.writes
    ELSE UNION {StoresOf(item, i) : i \in item.lb .. item.ub - 1}

(* The sequential meaning: the step of the trace that wrote a cell last    *)
(* before step s; 0 when the cell still holds its input.                   *)
VersionBefore(prog, s, cell) ==
  Max({0} \cup {j \in 1 .. s - 1 : cell \in WrittenBy(prog.items[Trace(prog)[j]])})

SequentialResult(prog) ==
  {[cell |-> c, version |-> VersionBefore(prog, Len(Trace(prog)) + 1, c)] : c \in Cells}
=============================================================================
