----------------------------- MODULE MCTaskBody -----------------------------
(* Loop bodies of a few operations over a vector and a matrix.               *)
EXTENDS TaskBody, FiniteSetsExt

CONSTANTS
  MaxOps,     \* operations in a body, the last of which stores
  MaxAccesses \* different accesses in a body

SmallRankOf == [m \in {"x", "A"} |-> IF m = "x" THEN 1 ELSE 2]

(* One value that changes from iteration to iteration.                       *)
SmallUnknowns == {[i \in Iterations |-> i % 2]}

VARIABLE ops

(* Of bodies that differ in order only, one will do: what is not computed    *)
(* comes first, stores come last, and of two neighbours neither of which     *)
(* uses the other the one with the smaller operands does.                    *)
Rank(v) == CASE v.op \in {"iv", "constant"} -> 0 [] v.op = "unknown" -> 1 [] OTHER -> 2

Largest(n) == Max({0} \cup values[n].from)

Count(op) == Cardinality({n \in Values : values[n].op = op})

Ordered ==
  /\ \A n \in 2 .. Len(values) :
       /\ Rank(values[n - 1]) <= Rank(values[n])
       /\ n - 1 \in values[n].from \/ Largest(n - 1) <= Largest(n)
  /\ Count("constant") <= 1 /\ Count("unknown") <= 1 /\ Count("other") <= 1

Canonical ==
  /\ Ordered'
  /\ (\E a \in accesses : a.store) => UNCHANGED values
  /\ \A a \in accesses' : a.stored \in {Datum, IV}
  /\ Cardinality(accesses') <= MaxAccesses
  /\ ops' = MaxOps => UNCHANGED values

MCInit == Init /\ ops = 0

MCNext ==
  /\ ops < MaxOps - (IF isStencil THEN 1 ELSE 0)
  /\ Next
  /\ ops' = ops + 1
  /\ Canonical

MCSpec == MCInit /\ [][MCNext]_<<vars, ops>>
=============================================================================
