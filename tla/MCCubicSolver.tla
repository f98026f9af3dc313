--------------------------- MODULE MCCubicSolver ---------------------------
(***************************************************************************)
(* Instances of CubicSolver for TLC.  Flows holds every flow between two   *)
(* different program points, so it is closed under renaming and all orders *)
(* of the nodes' addresses are covered.                                    *)
(***************************************************************************)
EXTENDS CubicSolver

Flows == {r \in Subset : r.from # r.to}

(* A function is found at the point with the highest address, so that a     *)
(* merge may move what flows from there to a lower one.                     *)
Elements == {r \in ElementOf : r.in = 4}

(* A call through point 2 that passes 3 to a formal 1 and returns 1 as the  *)
(* value 4 of the call, for each function that 2 may be.                    *)
CallSite ==
    {r \in Conditional : r.in = 2 /\ <<r.from, r.to>> \in {<<3, 1>>, <<1, 4>>}}

CallRequests == Flows \union Elements \union CallSite

(* d = p; x = n; y = n; y = p; z = x(y); n = g in a function g(p): the      *)
(* points are 1 for p, 2 for x, 3 for y and 4 for n.                        *)
CallOfOneself ==
    {[op |-> "subset", from |-> 4, to |-> 2],
     [op |-> "subset", from |-> 4, to |-> 3],
     [op |-> "subset", from |-> 1, to |-> 3],
     [op |-> "conditional", fn |-> 1, in |-> 2, from |-> 3, to |-> 1],
     [op |-> "element", fn |-> 1, in |-> 4]}
=============================================================================
