--------------------------- MODULE TypeSolutions ---------------------------
(***************************************************************************)
(* What a list of type constraints means: the reference the solver is held *)
(* against.  An assignment R of a representative to every term respects    *)
(* the terms' structure when equal constructors agree and have equal       *)
(* arguments; a congruence is the relation "has the same representative"   *)
(* of one.                                                                 *)
(***************************************************************************)
EXTENDS TypeTerms

Respects(R) ==
    /\ \A t \in Term : R[R[t]] = R[t]
    /\ \A f, g \in Term :
          f # g /\ isProperType(f) /\ isProperType(g) /\ R[f] = R[g] =>
              /\ Agree(f, g)
              /\ \A i \in 1..arity(f) : R[Args[f][i]] = R[Args[g][i]]

Kernel(R) == {e \in Term \X Term : R[e[1]] = R[e[2]]}

(* A choice of the representatives, among them one that agrees with every   *)
(* constructor, and of a representative for each of the other terms.        *)
Represents(reps) ==
    \A t \in Term : isProperType(t) =>
        \E r \in reps : isProperType(r) /\ (r = t \/ Agree(t, r))

Choosing(reps) ==
    {[t \in Term |-> IF t \in reps THEN t ELSE Q[t]] : Q \in [Term \ reps -> reps]}

Congruences ==
    UNION {{Kernel(R) : R \in {Q \in Choosing(reps) : Respects(Q)}} :
              reps \in {S \in SUBSET Term : Represents(S)}}

Solves(E, cs) == \A i \in DOMAIN cs : <<cs[i].lhs, cs[i].rhs>> \in E

Solvable(cs) == \E E \in Congruences : Solves(E, cs)
=============================================================================
