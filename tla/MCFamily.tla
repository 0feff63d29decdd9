------------------------------ MODULE MCFamily ------------------------------
(* Programs of two or three items over a matrix A of two columns and a vector *)
(* x, straight or repeated twice: those that are accepted and covered.       *)
EXTENDS Coverage, Lockstep, Kernels

ThreeRows == [m \in Mems |-> 3]
SameCost == [n \in Nodes |-> 1]
Shifted == [n \in Nodes |-> (n + 1) % NumNodes]
SmallMems == {"A", "x", "D"}

Bounds == {<<0, 3>>, <<1, 3>>}
StoreChoices == {Store("A"), Within({0}, Store("A")), Store("x")}
LoadLists ==
  {<<>>} \cup {<<l>> : l \in {Load("A"), Load("x"), LoadAll("A"), LoadAll("x"),
                             Within({1}, Load("A"))}}

Loops == {Loop(b[1], b[2], <<st>> \o l) : b \in Bounds, st \in StoreChoices, l \in LoadLists}
Hosts ==
  {Serial({r}, {w}) : r \in {"A", "x"}, w \in {"A", "x"}}
  \cup {[Serial({"x"}, {"A"}) EXCEPT !.writes = {c \in @ : c[3] = 0}]}

(* D has a dynamic trailing dimension: loaded by loops, written by the host.  *)
WithDynamic ==
  {<<Serial({"x"}, {"D"}), Loop(0, 3, <<Store("A"), l>>), Loop(0, 3, <<st, l>>)>> :
     l \in {Load("D"), LoadAll("D")}, st \in StoreChoices}

(* Of three items: loops over all rows with one load, host code between.     *)
Plain == {Loop(0, 3, <<st, l>>) : st \in StoreChoices, l \in {Load("x"), LoadAll("A")}}
Bodies ==
  {<<i, j>> : i \in Loops \cup Hosts, j \in Loops \cup Hosts}
  \cup {<<i, j, k>> : i \in Plain, j \in Plain \cup Hosts, k \in Plain}
  \cup WithDynamic
Shapes == {Straight(b) : b \in Bodies} \cup {Repeat(2, b) : b \in Bodies}

Family == {prog \in Shapes : WellFormed(prog) /\ Accepted(prog) /\ Covered(prog)}

CompiledCode == {EmittedProgram(prog) : prog \in Family}
=============================================================================
