------------------------------ MODULE Kernels ------------------------------
(***************************************************************************)
(* The affine kernels of tests/polybench as programs of AffineProgram,     *)
(* one definition per file, with the rows cut down to a few and inputs of  *)
(* the same access pattern merged.  Six rows make uneven shards on three   *)
(* devices; jacobi needs ten, for a last shard of two rows.                *)
(***************************************************************************)
EXTENDS AffineProgram

Matrices == {"A", "B", "C", "D", "E", "G"}
Vectors == {"x", "y", "z", "w", "p", "q"}
Cubes == {"S", "T"}
KernelMems == Matrices \cup Vectors \cup Cubes

KernelRankOf ==
  [m \in KernelMems |-> IF m \in Vectors THEN 1 ELSE IF m \in Matrices THEN 2 ELSE 3]

KernelRows == [m \in KernelMems |-> IF m \in Vectors THEN 10 ELSE 6]

(* Column 0 stands for the first and last columns of a row, 1 for the inner *)
(* ones: jacobi2d alone tells them apart.                                  *)
KernelColumns == [m \in KernelMems |-> IF m \in {"A", "B"} THEN {0, 1} ELSE {0}]

Access(m, store, form, dim, off) ==
  [mem |-> m, store |-> store, form |-> form, dim |-> dim, off |-> off, part |-> MemCells(m)]

Within(columns, a) == [a EXCEPT !.part = {c \in @ : c[3] \in columns}]

Store(m) == Access(m, TRUE, "exact", 0, 0)
Load(m) == Access(m, FALSE, "exact", 0, 0)
LoadAt(m, off) == Access(m, FALSE, "exact", 0, off)
LoadColumn(m) == Access(m, FALSE, "exact", 1, 0)
LoadAll(m) == Access(m, FALSE, "invariant", 0, 0)

Loop(lb, ub, accesses) ==
  [kind |-> "parallel", lb |-> lb, ub |-> ub, accesses |-> accesses, escapes |-> FALSE]

Serial(reads, writes) ==
  [kind |-> "serial", reads |-> UNION {MemCells(m) : m \in reads},
   writes |-> UNION {MemCells(m) : m \in writes}]

Straight(items) == [items |-> items, first |-> 1, last |-> 0, trip |-> 0]

Repeat(trip, items) ==
  [items |-> items, first |-> 1, last |-> Len(items), trip |-> trip]

two_mm == Straight(<<
  Loop(0, 6, <<Store("C"), Load("A"), LoadAll("B"), Load("C")>>),
  Loop(0, 6, <<Load("D"), Store("D"), Load("C"), LoadAll("E")>>)>>)

three_mm == Straight(<<
  Loop(0, 6, <<Store("C"), Load("A"), LoadAll("B"), Load("C")>>),
  Loop(0, 6, <<Store("E"), Load("A"), LoadAll("D"), Load("E")>>),
  Loop(0, 6, <<Store("G"), Load("C"), LoadAll("E"), Load("G")>>)>>)

gemver == Straight(<<
  Loop(0, 6, <<Load("A"), Load("p"), LoadAll("q"), Store("A")>>),
  Loop(0, 6, <<Load("x"), LoadColumn("A"), LoadAll("y"), Store("x")>>),
  Loop(0, 6, <<Load("x"), Load("z"), Store("x")>>),
  Loop(0, 6, <<Load("w"), Load("A"), LoadAll("x"), Store("w")>>)>>)

mvt == Straight(<<
  Loop(0, 6, <<Load("x"), Load("A"), LoadAll("z"), Store("x")>>),
  Loop(0, 6, <<Load("y"), LoadColumn("A"), LoadAll("z"), Store("y")>>)>>)

gesummv == Straight(<<
  Loop(0, 6, <<Store("x"), Store("y"), Load("A"), LoadAll("z"), Load("B"),
               Load("x"), Load("y")>>)>>)

doitgen == Straight(<<
  Loop(0, 6, <<Store("T"), Load("T"), Load("S"), LoadAll("B"), Store("S")>>)>>)

atax == Repeat(2, <<
  Serial({"x", "A", "z"}, {"z"}),
  Loop(0, 6, <<Load("y"), LoadColumn("A"), LoadAll("z"), Store("y")>>)>>)

jacobi2d == Repeat(2, <<
  Loop(1, 5, <<Load("A"), Within({1}, LoadAt("A", 1)), Within({1}, LoadAt("A", -1)),
               Within({1}, Store("B"))>>),
  Loop(1, 5, <<Within({1}, Load("B")), Within({1}, Store("A"))>>)>>)

jacobi == Repeat(2, <<
  Loop(1, 9, <<LoadAt("x", -1), Load("x"), LoadAt("x", 1), Store("y")>>),
  Loop(1, 9, <<Load("y"), Store("x")>>)>>)
=============================================================================
