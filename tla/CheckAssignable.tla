-------------------------- MODULE CheckAssignable --------------------------
(***************************************************************************)
(* The weeding pass that must accept a program before code is generated.   *)
(* It keeps no state, and the first check that fails ends the compilation. *)
(***************************************************************************)
EXTENDS Assignable

\* The node and all its descendants: what accept() visits.
RECURSIVE Subtrees(_)
Subtrees(n) == {n} \cup UNION {Subtrees(n.kids[i]) : i \in 1..Len(n.kids)}

check(p) == \A n \in Subtrees(p) : endVisit(n)
=============================================================================
