----------------------------- MODULE MCUnifier -----------------------------
(***************************************************************************)
(* Instances of Unifier for TLC.  The terms are the variables x and y of   *)
(* two declarations; the pointers &x and &&x (x = &x is a recursive type,  *)
(* and so is what makes the two of them equal); functions of two arities;  *)
(* and two records of a program with the fields f and g, both of which     *)
(* lack the g.  Where only the records are mentioned, x is an argument of  *)
(* an argument and no seed.                                                *)
(***************************************************************************)
EXTENDS Unifier, TLC, SequencesExt

MCKind ==
    "x" :> "Var" @@ "y" :> "Var" @@ "&x" :> "Ref" @@ "&&x" :> "Ref" @@
    "()->x" :> "Function" @@ "(x)->y" :> "Function" @@ "absent" :> "AbsentField" @@
    "{f:&x}" :> "Record" @@ "{f:&&x}" :> "Record"

MCTerm == DOMAIN MCKind

MCArgs ==
    "x" :> << >> @@ "y" :> << >> @@ "&x" :> <<"x">> @@ "&&x" :> <<"&x">> @@
    "()->x" :> <<"x">> @@ "(x)->y" :> <<"x", "y">> @@ "absent" :> << >> @@
    "{f:&x}" :> <<"&x", "absent">> @@ "{f:&&x}" :> <<"&&x", "absent">>

(* Every list of at most MaxConstraints of the equations between different  *)
(* terms that start with one of the sides in Left.                          *)
CONSTANTS MaxConstraints, Left

Equations == {c \in TypeConstraint : c.lhs \in Left /\ c.lhs # c.rhs}

MCConstraintLists == BoundedSeq(Equations, MaxConstraints)
=============================================================================
