------------------------------ MODULE Unifier ------------------------------
(***************************************************************************)
(* The solver of src/src/semantic/types/solver/Unifier.cpp on the          *)
(* union-find forest of UnionFind.cpp.                                     *)
(*                                                                         *)
(* solve() calls unify on one constraint after the other, and unify calls  *)
(* itself on the arguments of two matching constructors.  The recursion is *)
(* the stack `calls' of calls still to be made, the next one first.  The   *)
(* loop of UnionFind::find is one step per parent followed, so that a      *)
(* forest with a cycle would make the model climb for ever, as the code    *)
(* would.                                                                  *)
(***************************************************************************)
EXTENDS UnionFind, TypeSolutions

CONSTANTS
    ConstraintLists,    \* the lists TypeInference::check may collect
    NoTerm              \* a local outside of its call

ASSUME ConstraintListsAssumption == ConstraintLists \subseteq Seq(TypeConstraint)
ASSUME NoTermAssumption == NoTerm \notin Term

VARIABLES
    constraints,    \* Unifier::constraints
    next,           \* the loop of solve(): the constraint it takes next
    calls,          \* pending calls unify(lhs, rhs), the current one first
    pc,             \* where the current call is
    rep1, rep2,     \* its locals; during a find, the term the climb is at
    status

solverVars == <<constraints, next, calls>>
callVars == <<pc, rep1, rep2>>
vars == <<edges, solverVars, callVars, status>>

-----------------------------------------------------------------------------
(* The constructor seeds both sides of every constraint and the arguments   *)
(* of the sides that are constructors.                                      *)
SideAndArgs(t) == {t} \union {Args[t][i] : i \in DOMAIN Args[t]}

Seed(cs) == UNION {SideAndArgs(cs[i].lhs) \union SideAndArgs(cs[i].rhs) :
                      i \in DOMAIN cs}

Init ==
    /\ constraints \in ConstraintLists
    /\ edges = Seeded(Seed(constraints))
    /\ next = 1
    /\ calls = << >>
    /\ pc = "idle"
    /\ rep1 = NoTerm
    /\ rep2 = NoTerm
    /\ status = "running"

(* solve(): the next iteration of its loop, and its end. *)
SolveNext ==
    /\ status = "running" /\ pc = "idle" /\ calls = << >>
    /\ next <= Len(constraints)
    /\ calls' = <<constraints[next]>>
    /\ next' = next + 1
    /\ UNCHANGED <<edges, constraints, callVars, status>>

SolveDone ==
    /\ status = "running" /\ pc = "idle" /\ calls = << >>
    /\ next > Len(constraints)
    /\ status' = "ok"
    /\ UNCHANGED <<edges, solverVars, callVars>>

(* unify(t1, t2): rep1 = find(t1), then rep2 = find(t2). *)
Find1 ==
    /\ status = "running" /\ pc = "idle" /\ calls # << >>
    /\ edges' = smart_insert(edges, Head(calls).lhs)
    /\ rep1' = Head(calls).lhs
    /\ pc' = "find1"
    /\ UNCHANGED <<solverVars, rep2, status>>

Climb1 ==
    /\ pc = "find1" /\ ~IsRoot(edges, rep1)
    /\ rep1' = get_parent(edges, rep1)
    /\ UNCHANGED <<edges, solverVars, pc, rep2, status>>

Find2_NotInserted ==       \* mutated form: the term is not inserted
    /\ pc = "find1" /\ IsRoot(edges, rep1)
    /\ rep2' = Head(calls).rhs
    /\ pc' = "find2"
    /\ UNCHANGED <<edges, solverVars, rep1, status>>

Find2 ==
    /\ pc = "find1" /\ IsRoot(edges, rep1)
    /\ edges' = smart_insert(edges, Head(calls).rhs)
    /\ rep2' = Head(calls).rhs
    /\ pc' = "find2"
    /\ UNCHANGED <<solverVars, rep1, status>>

Climb2 ==
    /\ pc = "find2" /\ ~IsRoot(edges, rep2)
    /\ rep2' = get_parent(edges, rep2)
    /\ UNCHANGED <<edges, solverVars, pc, rep1, status>>

FoundBoth_NoClimb ==       \* mutated form: the loop is not run to a root
    /\ pc = "find2"
    /\ pc' = "reps"
    /\ UNCHANGED <<edges, solverVars, rep1, rep2, status>>

FoundBoth ==
    /\ pc = "find2" /\ IsRoot(edges, rep2)
    /\ pc' = "reps"
    /\ UNCHANGED <<edges, solverVars, rep1, rep2, status>>

(* The current call returns after it has made the calls in more. *)
Return(more) ==
    /\ calls' = more \o Tail(calls)
    /\ pc' = "idle"
    /\ rep1' = NoTerm
    /\ rep2' = NoTerm
    /\ UNCHANGED <<constraints, next, status>>

(* Equal representatives: nothing to do. *)
Same ==
    /\ pc = "reps" /\ rep1 = rep2
    /\ Return(<< >>)
    /\ UNCHANGED edges

(* A variable representative is re-linked to the other one. *)
BindLeft ==
    /\ pc = "reps" /\ rep1 # rep2
    /\ isVar(rep1)
    /\ edges' = quick_union(edges, rep1, rep2)
    /\ Return(<< >>)

BindRight_Swapped ==       \* mutated form: the arguments are not exchanged
    /\ pc = "reps" /\ rep1 # rep2
    /\ isProperType(rep1) /\ isVar(rep2)
    /\ edges' = quick_union(edges, rep1, rep2)
    /\ Return(<< >>)

BindRight ==
    /\ pc = "reps" /\ rep1 # rep2
    /\ isProperType(rep1) /\ isVar(rep2)
    /\ edges' = quick_union(edges, rep2, rep1)
    /\ Return(<< >>)

ArgumentCalls_FirstOnly(f, g) ==    \* mutated form: a2 is always at(0)
    [i \in 1..arity(f) |-> [lhs |-> Args[f][i], rhs |-> Args[g][1]]]

(* The calls of the loop over the arguments, in its order. *)
ArgumentCalls(f, g) ==
    [i \in 1..arity(f) |-> [lhs |-> Args[f][i], rhs |-> Args[g][i]]]

Decompose_NoArguments ==   \* mutated form: the loop is missing
    /\ pc = "reps" /\ rep1 # rep2
    /\ Agree(rep1, rep2)
    /\ edges' = quick_union(edges, rep1, rep2)
    /\ Return(<< >>)

Decompose_NoUnion ==       \* mutated form: the quick_union is missing
    /\ pc = "reps" /\ rep1 # rep2
    /\ Agree(rep1, rep2)
    /\ Return(ArgumentCalls(rep1, rep2))
    /\ UNCHANGED edges

Decompose ==
    /\ pc = "reps" /\ rep1 # rep2
    /\ Agree(rep1, rep2)
    /\ edges' = quick_union(edges, rep1, rep2)
    /\ Return(ArgumentCalls(rep1, rep2))

Reject_Different ==        \* mutated form: constructors must be equal
    /\ pc = "reps" /\ rep1 # rep2
    /\ isProperType(rep1) /\ isProperType(rep2)
    /\ status' = "error"
    /\ pc' = "idle"
    /\ UNCHANGED <<edges, solverVars, rep1, rep2>>

(* throwUnifyException: the UnificationError leaves solve(). *)
Reject ==
    /\ pc = "reps" /\ rep1 # rep2
    /\ isProperType(rep1) /\ isProperType(rep2)
    /\ ~Agree(rep1, rep2)
    /\ status' = "error"
    /\ pc' = "idle"
    /\ UNCHANGED <<edges, solverVars, rep1, rep2>>

Next ==
    \/ SolveNext \/ SolveDone
    \/ Find1 \/ Climb1 \/ Find2 \/ Climb2 \/ FoundBoth
    \/ Same \/ BindLeft \/ BindRight \/ Decompose \/ Reject

Spec == Init /\ [][Next]_vars

(* solve() is sequential code that nothing suspends. *)
FairSpec == Spec /\ WF_vars(Next)

-----------------------------------------------------------------------------
(* Every variable has its type: the forest is a map from terms to terms     *)
(* that its keys close, and the locals of unify are set exactly while the   *)
(* call that owns them is running.                                          *)
TypeOK ==
    /\ constraints \in ConstraintLists
    /\ next \in 1..Len(constraints) + 1
    /\ DOMAIN edges \subseteq Term
    /\ edges \in [DOMAIN edges -> DOMAIN edges]
    /\ calls \in Seq(TypeConstraint)
    /\ pc \in {"idle", "find1", "find2", "reps"}
    /\ status \in {"running", "ok", "error"}
    /\ pc # "idle" => status = "running" /\ calls # << >>
    /\ pc \in {"find1", "find2", "reps"} => rep1 \in DOMAIN edges
    /\ pc \in {"find2", "reps"} => rep2 \in DOMAIN edges

(* "Given a proper type and a type variable, the proper type always becomes *)
(* the canonical representative" (comment of unify): the parents of a       *)
(* constructor are constructors, whatever the order of the constraints, so  *)
(* a class that holds a constructor is never represented by a variable.     *)
ProperTypeIsCanonical ==
    \A t \in DOMAIN edges : isProperType(t) => isProperType(edges[t])

(* The forest equates no more than the constraints force: every edge, and   *)
(* every pair unify has still to make equal, holds in every congruence that *)
(* solves the constraints.  An inferred type is thus a most general one.    *)
OnlyForced ==
    \A E \in Congruences : Solves(E, constraints) =>
        /\ \A t \in DOMAIN edges : <<t, edges[t]>> \in E
        /\ Solves(E, calls)

(* A UnificationError is raised only for constraints no assignment solves,  *)
(* whatever their order: a typable program is never rejected.               *)
RejectedOnlyIfUnsolvable == status = "error" => ~Solvable(constraints)

(* When solve() returns, the classes of the forest are themselves a         *)
(* solution: each constraint's sides are connected, two constructors in a   *)
(* class agree and their arguments are pairwise connected, although unify   *)
(* decomposed only the representatives it met and in the order it met them. *)
SolvedForm ==
    status = "ok" =>
        /\ Classes \in Congruences
        /\ Solves(Classes, constraints)

(* The solver implements Unification: seen through the classes of its      *)
(* forest, every step of the climbs and of the stack is a step of the       *)
(* abstract solver or changes nothing it can see.                           *)
Abstract == INSTANCE Unification WITH
    Problems <- ConstraintLists, problem <- constraints,
    equal <- {e \in Term \X Term : connected(e[1], e[2])}, verdict <- status

ImplementsUnification == Abstract!AbstractSpec

(* solve() ends, on cyclic constraint systems (recursive types) too.        *)
Termination == <>(status # "running")
=============================================================================
