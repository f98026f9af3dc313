------------------------------ MODULE TipTypes ------------------------------
(***************************************************************************)
(* The types as trees: variables stand for nodes of the program, given by  *)
(* their paths, a free variable (TipAlpha) also has a name; a mu type has  *)
(* its variable and its body; the other classes are constructors.  Two     *)
(* records are equal when their fields are, whatever the names.            *)
(***************************************************************************)
EXTENDS Naturals, Sequences

Term(kind, at, name, args) == [kind |-> kind, at |-> at, name |-> name, args |-> args]
TipCons(kind, args) == Term(kind, << >>, "", args)

TipVar(path) == Term("Var", path, "", << >>)
TipAlpha(path, name) == Term("Alpha", path, name, << >>)
TipMu(v, t) == TipCons("Mu", <<v, t>>)
TipInt == TipCons("Int", << >>)
TipBool == TipCons("Bool", << >>)
TipAbsentField == TipCons("AbsentField", << >>)
TipRef(t) == TipCons("Ref", <<t>>)
TipArray(t) == TipCons("Array", <<t>>)
TipFunction(params, ret) == TipCons("Function", Append(params, ret))
TipRecord(inits) == TipCons("Record", inits)

isAlpha(t) == t.kind = "Alpha"
isVar(t) == t.kind \in {"Var", "Alpha"}
isMu(t) == t.kind = "Mu"
isCons(t) == ~isVar(t) /\ ~isMu(t)

doMatch(t, u) ==
    t.kind = u.kind /\ t.kind # "AbsentField" /\ Len(t.args) = Len(u.args)

Equation(l, r) == [lhs |-> l, rhs |-> r]
=============================================================================
