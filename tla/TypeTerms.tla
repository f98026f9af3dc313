----------------------------- MODULE TypeTerms -----------------------------
(***************************************************************************)
(* The type terms of src/src/semantic/types/concrete.                      *)
(*                                                                         *)
(* The solver compares TipType objects by value (operator==), never by     *)
(* address, so a term here is one equivalence class of operator==.  In     *)
(* particular two TipRecord objects that differ only in their field names  *)
(* are one term: TipRecord::operator== compares the arguments alone.       *)
(***************************************************************************)
EXTENDS Naturals, Sequences

CONSTANTS
    Term,   \* every term the constraints mention, and their subterms
    Kind,   \* the dynamic class of a term
    Args    \* TipCons::arguments; empty for the other classes

Kinds == {"Var", "Alpha", "Function", "Int", "Bool", "Ref", "Record",
          "Array", "AbsentField", "Mu"}

ASSUME KindAssumption == Kind \in [Term -> Kinds]
ASSUME ArgsAssumption == Args \in [Term -> Seq(Term)]

-----------------------------------------------------------------------------
(* The dynamic casts of Unifier.cpp.  TipAlpha is a subclass of TipVar.     *)

isVar(t) == Kind[t] \in {"Var", "Alpha"}
isProperType(t) == ~isVar(t)
isCons(t) == Kind[t] \notin {"Var", "Alpha", "Mu"}

arity(t) == Len(Args[t])

(* TipCons::doMatch lists the subclasses it knows; TipAbsentField is a      *)
(* TipCons it does not list, so an absent field matches nothing.            *)
Matchable == {"Function", "Int", "Record", "Array", "Bool", "Ref"}

doMatch(t, u) ==
    /\ Kind[t] = Kind[u]
    /\ Kind[t] \in Matchable
    /\ arity(t) = arity(u)

Agree(f, g) == isCons(f) /\ isCons(g) /\ doMatch(f, g)

(* A type constraint.                                                       *)
TypeConstraint == [lhs : Term, rhs : Term]
=============================================================================
