---------------------------- MODULE Unification ----------------------------
(***************************************************************************)
(* What the solver of the type constraints promises, with no forest, no    *)
(* stack and no order: starting from equality, merge the classes of the    *)
(* two sides of any entailed equation, in any order, until either all of   *)
(* them hold or one of them equates two constructors that do not agree.    *)
(***************************************************************************)
EXTENDS TypeTerms

CONSTANT Problems           \* the constraint lists to be solved

VARIABLES problem, equal, verdict

specVars == <<problem, equal, verdict>>

ClassOf(eq, t) == {u \in Term : <<t, u>> \in eq}

(* The constraints, and the arguments of agreeing constructors of a class.  *)
Entailed(eq) ==
    {<<problem[i].lhs, problem[i].rhs>> : i \in DOMAIN problem}
    \union
    UNION {{<<Args[e[1]][i], Args[e[2]][i]>> : i \in 1..arity(e[1])} :
              e \in {d \in eq : Agree(d[1], d[2])}}

Clash(C, D) ==
    \E f \in C, g \in D :
        f # g /\ isProperType(f) /\ isProperType(g) /\ ~Agree(f, g)

\* A new equation that can hold, and one that cannot.
Possible(eq, e) == e \notin eq /\ ~Clash(ClassOf(eq, e[1]), ClassOf(eq, e[2]))
Impossible(eq, e) == Clash(ClassOf(eq, e[1]), ClassOf(eq, e[2]))

Join(eq, C, D) == eq \union (C \X D) \union (D \X C)

Start ==
    /\ problem \in Problems
    /\ equal = {<<t, t>> : t \in Term}
    /\ verdict = "running"

Merge ==
    /\ verdict = "running" /\ UNCHANGED <<problem, verdict>>
    /\ LET eq == equal
       IN equal' \in {Join(eq, ClassOf(eq, e[1]), ClassOf(eq, e[2])) :
                         e \in {d \in Entailed(eq) : Possible(eq, d)}}

Accept ==
    /\ verdict = "running"
    /\ verdict' = "ok"
    /\ LET eq == equal IN Entailed(eq) \subseteq eq
    /\ UNCHANGED <<problem, equal>>

Refuse ==
    /\ verdict = "running"
    /\ verdict' = "error"
    /\ LET eq == equal IN \E e \in Entailed(eq) : Impossible(eq, e)
    /\ UNCHANGED <<problem, equal>>

Step == Merge \/ Accept \/ Refuse

AbstractSpec == Start /\ [][Step]_specVars
=============================================================================
