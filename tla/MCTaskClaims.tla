---------------------------- MODULE MCTaskClaims ----------------------------
(* Loop bodies that add a constant to the induction variable, load once, and *)
(* store in the end.                                                         *)
EXTENDS TaskBody

CONSTANT MaxAdds  \* additions in a body

SmallRankOf == [m \in {"x", "A"} |-> IF m = "x" THEN 1 ELSE 2]
VectorsOnly == [m \in Memrefs |-> 1]
NoUnknowns == {[i \in Iterations |-> 0]}

ConstantFirst == Len(values) = 1 /\ Constant

(* Of additions that differ in order only, one order will do.                *)
AddConstant ==
  /\ Len(values) \in 2 .. MaxAdds + 1
  /\ accesses = {}
  /\ AddI
  /\ \E v \in Values \ {2} :
       /\ values'[Len(values')].from = {v, 2}
       /\ \A w \in values[Len(values)].from \ {2} : w <= v

LoadOnce == accesses = {} /\ Load

StoreLast == ~(\E a \in accesses : a.store) /\ Store

ClaimSpec ==
  Init /\ ~isStencil /\ [][ConstantFirst \/ AddConstant \/ LoadOnce \/ StoreLast]_vars
=============================================================================
