----------------------------- MODULE MCKernels -----------------------------
(* The kernels of the benchmark suite, compiled for and run on three ranks.  *)
EXTENDS Coverage, ScheduleRun, Kernels

(* Device 0 is twice as fast as the others and is found on rank 1.           *)
FastFirst == [n \in Nodes |-> IF n = 0 THEN 2 ELSE 1]
Shifted == [n \in Nodes |-> (n + 1) % NumNodes]

Suite == <<two_mm, three_mm, gemver, mvt, gesummv, doitgen, atax,
           jacobi, jacobi2d>>

(* All of them are accepted; jacobi alone is not covered: its vectors start *)
(* at row 1, see BroadcastCoversBuffers.                                    *)
ASSUME SuiteAssumption ==
  \A p \in DOMAIN Suite :
    /\ WellFormed(Suite[p]) /\ Accepted(Suite[p])
    /\ Covered(Suite[p]) <=> Suite[p] # jacobi

CompiledCode == {EmittedProgram(Suite[p]) : p \in DOMAIN Suite}
=============================================================================
