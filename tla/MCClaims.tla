------------------------------ MODULE MCClaims ------------------------------
(* One small program for each claim of Claims.                               *)
EXTENDS ScheduleEmission, Claims, Kernels

ThreeRows == [m \in Mems |-> 3]
FiveRows == [m \in Mems |-> 5]
FourRows == [m \in Mems |-> 4]
SameCost == [n \in Nodes |-> 1]
Identity == [n \in Nodes |-> n]

(* jacobi.mlir over the inner rows of a vector of five.                      *)
jacobi_inner == Repeat(2, <<
  Loop(1, 4, <<LoadAt("x", -1), Load("x"), LoadAt("x", 1), Store("y")>>),
  Loop(1, 4, <<Load("y"), Store("x")>>)>>)
JacobiText == {EmittedProgram(jacobi_inner)}

(* A row-partitioned consumer that runs over fewer rows than its producer.   *)
narrow_consumer == Straight(<<
  Loop(0, 4, <<Load("A"), Store("C")>>),
  Loop(2, 4, <<Load("C"), Store("D")>>)>>)

(* A time loop whose first loop reads what its second has written the turn   *)
(* before; only the third, the last of the body, is broadcast.               *)
loop_carried == Repeat(2, <<
  Loop(0, 3, <<LoadAll("C"), Store("D")>>),
  Loop(0, 3, <<Load("A"), Store("C")>>),
  Loop(0, 3, <<Load("B"), Store("E")>>)>>)

MissedTexts == {EmittedProgram(narrow_consumer), EmittedProgram(loop_carried)}

(* A loop over fewer rows than the one before it that stores one column only *)
(* of a matrix of two.                                                       *)
partial_rows == Straight(<<
  Loop(0, 4, <<Load("A"), Store("B")>>),
  Loop(2, 4, <<Load("x"), Within({0}, Store("B"))>>)>>)
PartialText == {EmittedProgram(partial_rows)}
=============================================================================
