------------------------------ MODULE Transfers ------------------------------
(***************************************************************************)
(* Which memrefs become an MPI transfer, and what is transferred.          *)
(*                                                                         *)
(* A transfer is a raw pointer and a count (getRawPtrAndSize in            *)
(* MPIToLLVM.cc), so it is right only for contiguous memrefs.  Two walks   *)
(* over the dimensions of a type decide, in two passes of the compiler:    *)
(* supportsContiguousRowTransfer (lowerReplicateOp.h) sees the type of an  *)
(* output, isProvablyContiguous (MPIToLLVM.cc) the type of the row slab    *)
(* that the schedule lowering cuts out of it.                              *)
(*                                                                         *)
(* A behaviour is one memref.  Its type is built from the innermost        *)
(* dimension outwards, the order of both walks; each dimension has an      *)
(* extent and a stride in the type, either of which may be kDynamic, and a *)
(* size and a step in memory.  The memref is then sent whole (an MPI       *)
(* operation of the input) or as a slab of its rows (a gather).            *)
(***************************************************************************)
EXTENDS Integers

CONSTANTS
  Sizes,     \* sizes of a dimension
  Steps,     \* distances in memory between neighbours along a dimension
  MaxRank,
  Int64Max,  \* std::numeric_limits<int64_t>::max()
  MaxCount   \* std::numeric_limits<int32_t>::max(), the largest MPI count

ASSUME TransferAssumption ==
  /\ Sizes \subseteq Nat /\ Steps \subseteq Nat
  /\ MaxRank \in Nat \ {0}
  /\ Int64Max \in Nat /\ MaxCount \in 0 .. Int64Max

kDynamic == (0 - Int64Max) - 1

VARIABLES
  stage,
  identity,        \* the layout of the type is the identity
  slab,            \* the memref is a row slab of an output
  rank,            \* dimensions so far
  static,          \* every extent so far is known
  empty,           \* the type has an extent 0
  rowsOK,          \* the walk of supportsContiguousRowTransfer ...
  rowStride,       \* ... and its expectedStride
  verdict,         \* the walk of isProvablyContiguous
  expectedStride,
  elements,        \* cells of the memref
  reached,         \* their distances in memory from the first
  count            \* the count of the MPI call

early == <<rowsOK, rowStride>>
late == <<verdict, expectedStride>>
memory == <<elements, reached>>
transferVars == <<stage, identity, slab, rank, static, empty, early, late, memory, count>>

TransferInit ==
  /\ stage = "typing"
  /\ identity \in BOOLEAN
  /\ slab = FALSE
  /\ rank = 0
  /\ static = TRUE
  /\ empty = FALSE
  /\ rowsOK = TRUE /\ rowStride = 1
  /\ verdict = "walking" /\ expectedStride = 1
  /\ elements = 1 /\ reached = {0}
  /\ count = 0

(* The extent and stride a type may state of a dimension; in the identity   *)
(* layout rows follow each other, and the stride is known if the extents    *)
(* inside are.                                                              *)
Stated(size, step, extent, stride) ==
  /\ extent \in {size, kDynamic}
  /\ stride \in {step, kDynamic}
  /\ identity => step = elements /\ (stride = kDynamic <=> ~static)

Along(cells, size, step) == {c + step * j : c \in cells, j \in 0 .. size - 1}

Occupy(size, step) ==
  /\ elements' = elements * size
  /\ reached' = Along(reached, size, step)

TooLarge(product, extent) == extent > 0 /\ product > Int64Max \div extent

Follows(extent, stride, expected) ==
  extent = 1 \/ (stride # kDynamic /\ expected # kDynamic /\ stride = expected)

RowWalk(extent, stride) ==
  /\ rowsOK' = (/\ rowsOK
                /\ Follows(extent, stride, rowStride)
                /\ extent > 0
                /\ ~TooLarge(rowStride, extent))
  /\ rowStride' = IF rowsOK' THEN rowStride * extent ELSE rowStride

(* Mutant of ContiguousWalk: an unknown stride is taken to be the right one.*)
Extend(extent) ==
  \/ /\ kDynamic \in {extent, expectedStride}
     /\ expectedStride' = kDynamic /\ UNCHANGED verdict
  \/ /\ kDynamic \notin {extent, expectedStride}
     /\ TooLarge(expectedStride, extent)
     /\ verdict' = "strided" /\ UNCHANGED expectedStride
  \/ /\ kDynamic \notin {extent, expectedStride}
     /\ ~TooLarge(expectedStride, extent)
     /\ expectedStride' = expectedStride * extent /\ UNCHANGED verdict

ContiguousWalkTrusting(extent, stride) ==
  \/ verdict # "walking" /\ UNCHANGED late
  \/ /\ verdict = "walking" /\ extent = 0
     /\ verdict' = "contiguous" /\ UNCHANGED expectedStride
  \/ /\ verdict = "walking" /\ extent # 0
     /\ ~(Follows(extent, stride, expectedStride) \/ stride = kDynamic)
     /\ verdict' = "strided" /\ UNCHANGED expectedStride
  \/ /\ verdict = "walking" /\ extent # 0
     /\ Follows(extent, stride, expectedStride) \/ stride = kDynamic
     /\ Extend(extent)

ContiguousWalk(extent, stride) ==
  \/ verdict # "walking" /\ UNCHANGED late
  \/ /\ verdict = "walking" /\ extent = 0
     /\ verdict' = "contiguous" /\ UNCHANGED expectedStride
  \/ /\ verdict = "walking" /\ extent # 0
     /\ ~Follows(extent, stride, expectedStride)
     /\ verdict' = "strided" /\ UNCHANGED expectedStride
  \/ /\ verdict = "walking" /\ extent # 0
     /\ Follows(extent, stride, expectedStride)
     /\ Extend(extent)

TrailingDimension ==
  /\ stage = "typing" /\ rank < MaxRank - 1
  /\ \E size \in Sizes, step \in Steps \cup {elements} :
       \E extent \in {size, kDynamic}, stride \in {step, kDynamic} :
         /\ Stated(size, step, extent, stride)
         /\ RowWalk(extent, stride)
         /\ ContiguousWalk(extent, stride)
         /\ static' = (static /\ extent # kDynamic)
         /\ empty' = (empty \/ extent = 0)
         /\ Occupy(size, step)
  /\ rank' = rank + 1
  /\ UNCHANGED <<stage, identity, slab, count>>

(* Dimension 0 of a memref sent whole.                                      *)
WholeMemref ==
  /\ stage = "typing"
  /\ \E size \in Sizes, step \in Steps \cup {elements} :
       \E extent \in {size, kDynamic}, stride \in {step, kDynamic} :
         /\ Stated(size, step, extent, stride)
         /\ elements * size <= Int64Max
         /\ ContiguousWalk(extent, stride)
         /\ static' = (static /\ extent # kDynamic)
         /\ empty' = (empty \/ extent = 0)
         /\ Occupy(size, step)
  /\ rank' = rank + 1
  /\ stage' = "walked"
  /\ UNCHANGED <<identity, slab, early, count>>

(* Mutant of supportsContiguousRowTransfer: unknown trailing extents are    *)
(* left to the identity layout.                                             *)
supportsAnyIdentity(extent, stride) ==
  \/ empty \/ extent = 0
  \/ identity
  \/ static /\ rowsOK /\ Follows(extent, stride, rowStride)

supportsContiguousRowTransfer(extent, stride) ==
  /\ static
  /\ \/ empty \/ extent = 0
     \/ identity
     \/ rowsOK /\ Follows(extent, stride, rowStride)

(* Dimension 0 of an output: the check of the replicate lowering on the     *)
(* whole, then the slab of some of its rows.  A row fits in memory even of  *)
(* an output that has none.                                                 *)
RowSlab ==
  /\ stage = "typing"
  /\ slab' = TRUE
  /\ rank' = rank + 1
  /\ \E size \in Sizes, step \in Steps \cup {elements} :
       \E extent \in {size, kDynamic}, stride \in {step, kDynamic}, rows \in 0 .. size :
         /\ Stated(size, step, extent, stride)
         /\ elements <= Int64Max /\ elements * size <= Int64Max
         /\ empty' = (empty \/ extent = 0)
         /\ \/ /\ ~supportsContiguousRowTransfer(extent, stride)
               /\ stage' = "refused"
               /\ UNCHANGED <<late, memory>>
            \/ /\ supportsContiguousRowTransfer(extent, stride)
               /\ rank' > 3
               /\ stage' = "failed"
               /\ UNCHANGED <<late, memory>>
            \/ /\ supportsContiguousRowTransfer(extent, stride)
               /\ rank' <= 3
               /\ stage' = "walked"
               /\ ContiguousWalk(rows, stride)
               /\ Occupy(rows, step)
  /\ UNCHANGED <<identity, static, early, count>>

isProvablyContiguous == (identity /\ ~slab) \/ verdict # "strided"

(* arith.trunci to 32 bits.                                                 *)
Truncated(n) ==
  LET half == MaxCount + 1 IN ((n + half) % (2 * half)) - half

getRawPtrAndSize ==
  /\ stage = "walked"
  /\ \/ /\ ~isProvablyContiguous \/ (static /\ elements > MaxCount)
        /\ stage' = "failed"
        /\ UNCHANGED count
     \/ /\ isProvablyContiguous /\ static /\ elements <= MaxCount
        /\ stage' = "sent"
        /\ count' = elements
     \/ /\ isProvablyContiguous /\ ~static
        /\ stage' = "sent"
        /\ count' = Truncated(elements)
  /\ UNCHANGED <<identity, slab, rank, static, empty, early, late, memory>>

TransferNext ==
  TrailingDimension \/ WholeMemref \/ RowSlab \/ getRawPtrAndSize

TransferSpec == TransferInit /\ [][TransferNext]_transferVars

-----------------------------------------------------------------------------
(* A transfer moves the cells of its memref and no others: pointer and      *)
(* count never stand for a memref with gaps, whatever is left dynamic in    *)
(* its type (MPIToLLVM.cc 58-60).  The count of a memref with a dynamic     *)
(* extent is right up to the limit of MPI's counts and truncated beyond.    *)
SentCells ==
  stage = "sent" =>
    reached = 0 .. count - 1 \/ (~static /\ elements > MaxCount)

(* An output that the replicate lowering accepts does not fail two passes   *)
(* later: all its slabs can be sent, unless they exceed the limit of the    *)
(* count or the output has more than three dimensions or no cells at all.   *)
AcceptedSlabsAreSent ==
  stage = "failed" /\ slab /\ ~empty => rank > 3 \/ elements > MaxCount
=============================================================================
