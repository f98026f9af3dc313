--------------------------- MODULE UnifierProofs ---------------------------
(***************************************************************************)
(* Proofs about the solver of the type constraints, for every set of       *)
(* terms, every list of constraints and so every program.                  *)
(***************************************************************************)
EXTENDS Unifier, SequenceTheorems, TLAPS

(* What the constants of TypeTerms are, in the form the proofs use.         *)
LEMMA ArgTyping ==
    ASSUME NEW t \in Term
    PROVE  /\ Args[t] \in Seq(Term)
           /\ arity(t) \in Nat
           /\ DOMAIN Args[t] = 1..arity(t)
           /\ \A i \in 1..arity(t) : Args[t][i] \in Term
<1>1. Args[t] \in Seq(Term)
  BY ArgsAssumption
<1> QED
  BY <1>1 DEF arity

LEMMA SeedTyping ==
    ASSUME NEW cs \in Seq(TypeConstraint)
    PROVE  Seed(cs) \subseteq Term
<1> SUFFICES ASSUME NEW i \in DOMAIN cs
             PROVE  SideAndArgs(cs[i].lhs) \union SideAndArgs(cs[i].rhs) \subseteq Term
  BY DEF Seed
<1>1. cs[i] \in TypeConstraint
  OBVIOUS
<1>2. cs[i].lhs \in Term /\ cs[i].rhs \in Term
  BY <1>1 DEF TypeConstraint
<1> QED
  BY <1>2, ArgTyping DEF SideAndArgs

(* Inserting a term keeps a closed map closed, and keeps every parent.      *)
LEMMA InsertTyping ==
    ASSUME NEW t \in Term, TypeOK
    PROVE  LET e == smart_insert(edges, t)
           IN  /\ DOMAIN e = DOMAIN edges \union {t}
               /\ DOMAIN e \subseteq Term
               /\ e \in [DOMAIN e -> DOMAIN e]
               /\ \A u \in DOMAIN edges : e[u] = edges[u]
               /\ t \notin DOMAIN edges => e[t] = t
BY DEF TypeOK, smart_insert, get_parent

LEMMA UnionTyping ==
    ASSUME NEW r \in DOMAIN edges, NEW s \in DOMAIN edges, TypeOK
    PROVE  LET e == quick_union(edges, r, s)
           IN  /\ DOMAIN e = DOMAIN edges
               /\ e \in [DOMAIN e -> DOMAIN e]
               /\ \A u \in DOMAIN edges : e[u] = IF u = r THEN s ELSE edges[u]
BY DEF TypeOK, quick_union

LEMMA ConstraintTyping ==
    ASSUME TypeOK
    PROVE  /\ constraints \in Seq(TypeConstraint)
           /\ calls # << >> => /\ Head(calls) \in TypeConstraint
                               /\ Head(calls).lhs \in Term
                               /\ Head(calls).rhs \in Term
                               /\ Tail(calls) \in Seq(TypeConstraint)
<1>1. constraints \in Seq(TypeConstraint)
  BY ConstraintListsAssumption DEF TypeOK
<1>2. ASSUME calls # << >>
      PROVE  Head(calls) \in TypeConstraint /\ Tail(calls) \in Seq(TypeConstraint)
  BY <1>2, HeadTailProperties DEF TypeOK
<1> QED
  BY <1>1, <1>2 DEF TypeConstraint

LEMMA ArgumentCallsTyping ==
    ASSUME NEW f \in Term, NEW g \in Term, Agree(f, g)
    PROVE  /\ ArgumentCalls(f, g) \in Seq(TypeConstraint)
           /\ Len(ArgumentCalls(f, g)) = arity(f)
           /\ \A i \in 1..arity(f) :
                 ArgumentCalls(f, g)[i] = [lhs |-> Args[f][i], rhs |-> Args[g][i]]
<1>1. arity(f) = arity(g) /\ arity(f) \in Nat
  BY ArgTyping DEF Agree, doMatch
<1>2. \A i \in 1..arity(f) :
         [lhs |-> Args[f][i], rhs |-> Args[g][i]] \in TypeConstraint
  BY <1>1, ArgTyping DEF TypeConstraint
<1> QED
  BY <1>1, <1>2 DEF ArgumentCalls
-----------------------------------------------------------------------------
LEMMA InitTyping == Init => TypeOK
<1> SUFFICES ASSUME Init PROVE TypeOK
  OBVIOUS
<1>1. constraints \in Seq(TypeConstraint)
  BY ConstraintListsAssumption DEF Init
<1>2. Seed(constraints) \subseteq Term
  BY <1>1, SeedTyping
<1>3. Len(constraints) \in Nat
  BY <1>1
<1> QED
  BY <1>1, <1>2, <1>3 DEF Init, TypeOK, Seeded

LEMMA NextTyping == TypeOK /\ [Next]_vars => TypeOK'
<1> SUFFICES ASSUME TypeOK, [Next]_vars PROVE TypeOK'
  OBVIOUS
<1> USE ConstraintTyping
<1>1. CASE SolveNext
  <2>1. constraints[next] \in TypeConstraint
    BY <1>1 DEF SolveNext, TypeOK
  <2> QED
    BY <1>1, <2>1 DEF SolveNext, TypeOK, callVars
<1>2. CASE SolveDone
  BY <1>2 DEF SolveDone, TypeOK, solverVars, callVars
<1>3. CASE Find1
  BY <1>3, InsertTyping DEF Find1, TypeOK, solverVars
<1>4. CASE Climb1
  BY <1>4 DEF Climb1, TypeOK, solverVars, get_parent
<1>5. CASE Find2
  BY <1>5, InsertTyping DEF Find2, TypeOK, solverVars
<1>6. CASE Climb2
  BY <1>6 DEF Climb2, TypeOK, solverVars, get_parent
<1>7. CASE FoundBoth
  BY <1>7 DEF FoundBoth, TypeOK, solverVars
<1>8. ASSUME NEW more \in Seq(TypeConstraint), Return(more), pc = "reps",
             DOMAIN edges' = DOMAIN edges,
             edges' \in [DOMAIN edges -> DOMAIN edges]
      PROVE  TypeOK'
  <2>1. more \o Tail(calls) \in Seq(TypeConstraint)
    BY <1>8, ConcatProperties DEF TypeOK
  <2> QED
    BY <1>8, <2>1 DEF Return, TypeOK
<1>9. << >> \in Seq(TypeConstraint)
  OBVIOUS
<1>10. CASE Same
  BY <1>8, <1>9, <1>10 DEF Same, TypeOK
<1>11. CASE BindLeft
  <2>1. rep1 \in DOMAIN edges /\ rep2 \in DOMAIN edges
    BY <1>11 DEF BindLeft, TypeOK
  <2> QED
    BY <1>8, <1>9, <1>11, <2>1, UnionTyping DEF BindLeft
<1>12. CASE BindRight
  <2>1. rep1 \in DOMAIN edges /\ rep2 \in DOMAIN edges
    BY <1>12 DEF BindRight, TypeOK
  <2> QED
    BY <1>8, <1>9, <1>12, <2>1, UnionTyping DEF BindRight
<1>13. CASE Decompose
  <2>1. rep1 \in DOMAIN edges /\ rep2 \in DOMAIN edges
    BY <1>13 DEF Decompose, TypeOK
  <2>2. ArgumentCalls(rep1, rep2) \in Seq(TypeConstraint)
    BY <1>13, <2>1, ArgumentCallsTyping DEF Decompose, TypeOK
  <2> QED
    BY <1>8, <1>13, <2>1, <2>2, UnionTyping DEF Decompose
<1>14. CASE Reject
  BY <1>14 DEF Reject, TypeOK, solverVars
<1>15. CASE UNCHANGED vars
  BY <1>15 DEF vars, TypeOK, solverVars, callVars
<1> QED
  BY <1>1, <1>2, <1>3, <1>4, <1>5, <1>6, <1>7, <1>10, <1>11, <1>12, <1>13,
     <1>14, <1>15 DEF Next

(* The forest is always a map from terms to terms, and the locals of unify  *)
(* hold terms of it while a call runs.                                      *)
THEOREM Typing == Spec => []TypeOK
BY InitTyping, NextTyping, PTL DEF Spec
-----------------------------------------------------------------------------
(* A find that has ended has found a root, and inserting the other term     *)
(* before the second find does not unseat the first root.                   *)
RepsAreRoots ==
    /\ pc \in {"find2", "reps"} => edges[rep1] = rep1
    /\ pc = "reps" => edges[rep2] = rep2

LEMMA InitForest == Init => RepsAreRoots /\ Forest
BY DEF Init, RepsAreRoots, Forest, Seeded

LEMMA NextReps == TypeOK /\ RepsAreRoots /\ [Next]_vars => RepsAreRoots'
<1> SUFFICES ASSUME TypeOK, RepsAreRoots, [Next]_vars PROVE RepsAreRoots'
  OBVIOUS
<1>1. CASE SolveNext \/ SolveDone \/ UNCHANGED vars
  BY <1>1 DEF SolveNext, SolveDone, vars, callVars, solverVars, RepsAreRoots
<1>2. CASE Find1 \/ Climb1
  BY <1>2 DEF Find1, Climb1, RepsAreRoots
<1>3. CASE Find2
  BY <1>3, ConstraintTyping, InsertTyping DEF Find2, RepsAreRoots, TypeOK, IsRoot, get_parent
<1>4. CASE Climb2 \/ FoundBoth
  BY <1>4 DEF Climb2, FoundBoth, RepsAreRoots, TypeOK, IsRoot, get_parent
<1>5. CASE Same \/ BindLeft \/ BindRight \/ Decompose \/ Reject
  BY <1>5 DEF Same, BindLeft, BindRight, Decompose, Reject, Return, RepsAreRoots
<1> QED
  BY <1>1, <1>2, <1>3, <1>4, <1>5 DEF Next

(* Inserting a singleton tree, or making one root the parent of another,    *)
(* closes no cycle.                                                         *)
LEMMA InsertForest ==
    ASSUME NEW t \in Term, TypeOK, Forest, edges' = smart_insert(edges, t)
    PROVE  Forest'
<1> SUFFICES ASSUME NEW S \in SUBSET DOMAIN edges', S # {}
             PROVE  \E u \in S : edges'[u] = u \/ edges'[u] \notin S
  BY DEF Forest
<1>1. /\ DOMAIN edges' = DOMAIN edges \union {t}
      /\ \A u \in DOMAIN edges : edges'[u] = edges[u]
      /\ t \notin DOMAIN edges => edges'[t] = t
  BY InsertTyping
<1>2. CASE S \subseteq DOMAIN edges
  BY <1>1, <1>2 DEF Forest
<1>3. CASE ~(S \subseteq DOMAIN edges)
  BY <1>1, <1>3
<1> QED
  BY <1>2, <1>3

LEMMA UnionForest ==
    ASSUME NEW r \in DOMAIN edges, NEW s \in DOMAIN edges, TypeOK, Forest,
           r # s, edges[s] = s, edges' = quick_union(edges, r, s)
    PROVE  Forest'
<1> SUFFICES ASSUME NEW S \in SUBSET DOMAIN edges', S # {}
             PROVE  \E u \in S : edges'[u] = u \/ edges'[u] \notin S
  BY DEF Forest
<1>1. /\ DOMAIN edges' = DOMAIN edges
      /\ \A u \in DOMAIN edges : edges'[u] = IF u = r THEN s ELSE edges[u]
  BY UnionTyping
<1>2. CASE r \in S
  BY <1>1, <1>2
<1>3. CASE r \notin S
  <2>1. PICK u \in S : edges[u] = u \/ edges[u] \notin S
    BY <1>1 DEF Forest
  <2> QED
    BY <1>1, <1>3, <2>1
<1> QED
  BY <1>2, <1>3

LEMMA NextForest ==
    TypeOK /\ RepsAreRoots /\ Forest /\ [Next]_vars => Forest'
<1> SUFFICES ASSUME TypeOK, RepsAreRoots, Forest, [Next]_vars PROVE Forest'
  OBVIOUS
<1>1. CASE UNCHANGED edges
  BY <1>1 DEF Forest
<1>2. CASE Find1
  BY <1>2, ConstraintTyping, InsertForest DEF Find1
<1>3. CASE Find2
  <2>1. calls # << >>
    BY <1>3 DEF Find2, TypeOK
  <2> QED
    BY <1>3, <2>1, ConstraintTyping, InsertForest DEF Find2
<1>4. CASE BindLeft \/ Decompose
  <2>1. /\ pc = "reps" /\ rep1 # rep2
        /\ edges' = quick_union(edges, rep1, rep2)
    BY <1>4 DEF BindLeft, Decompose
  <2>2. /\ rep1 \in DOMAIN edges /\ rep2 \in DOMAIN edges
        /\ edges[rep2] = rep2
    BY <2>1 DEF TypeOK, RepsAreRoots
  <2> QED
    BY <2>1, <2>2, UnionForest
<1>5. CASE BindRight
  <2>1. /\ pc = "reps" /\ rep1 # rep2
        /\ edges' = quick_union(edges, rep2, rep1)
    BY <1>5 DEF BindRight
  <2>2. /\ rep1 \in DOMAIN edges /\ rep2 \in DOMAIN edges
        /\ edges[rep1] = rep1
    BY <2>1 DEF TypeOK, RepsAreRoots
  <2> QED
    BY <2>1, <2>2, UnionForest
<1>6. CASE SolveNext \/ SolveDone \/ Climb1 \/ Climb2 \/ FoundBoth \/ Same \/ Reject
  BY <1>1, <1>6 DEF SolveNext, SolveDone, Climb1, Climb2, FoundBoth, Same, Reject
<1> QED
  BY <1>1, <1>2, <1>3, <1>4, <1>5, <1>6 DEF Next, vars

(* The union-find graph never has a cycle, so the while loop of             *)
(* UnionFind::find ends in every state of the solver.                       *)
THEOREM AlwaysForest == Spec => []Forest
<1>1. Init => TypeOK /\ RepsAreRoots /\ Forest
  BY InitTyping, InitForest
<1>2. TypeOK /\ RepsAreRoots /\ Forest /\ [Next]_vars
         => (TypeOK /\ RepsAreRoots /\ Forest)'
  BY NextTyping, NextReps, NextForest
<1> QED
  BY <1>1, <1>2, PTL DEF Spec

(* No step gives a constructor a variable for a parent: one that adds a     *)
(* term makes it a root, and one that links two roots does not link a       *)
(* constructor to a variable.                                               *)
LEMMA InsertCanonical ==
    ASSUME NEW t \in Term, TypeOK, ProperTypeIsCanonical, edges' = smart_insert(edges, t)
    PROVE  ProperTypeIsCanonical'
<1>1. /\ DOMAIN edges' = DOMAIN edges \union {t}
      /\ \A u \in DOMAIN edges : edges'[u] = edges[u]
      /\ t \notin DOMAIN edges => edges'[t] = t
  BY InsertTyping
<1> SUFFICES ASSUME NEW u \in DOMAIN edges', isProperType(u)
             PROVE  isProperType(edges'[u])
  BY DEF ProperTypeIsCanonical, isProperType, isVar
<1>2. CASE u \in DOMAIN edges
  <2>1. isProperType(edges[u])
    BY <1>2 DEF ProperTypeIsCanonical
  <2> QED
    BY <1>1, <1>2, <2>1
<1>3. CASE u \notin DOMAIN edges
  BY <1>1, <1>3
<1> QED
  BY <1>2, <1>3

LEMMA UnionCanonical ==
    ASSUME NEW r \in DOMAIN edges, NEW s \in DOMAIN edges, TypeOK, ProperTypeIsCanonical,
           isVar(r) \/ isProperType(s), edges' = quick_union(edges, r, s)
    PROVE  ProperTypeIsCanonical'
<1>1. /\ DOMAIN edges' = DOMAIN edges
      /\ \A u \in DOMAIN edges : edges'[u] = IF u = r THEN s ELSE edges[u]
  BY UnionTyping
<1> SUFFICES ASSUME NEW u \in DOMAIN edges', isProperType(u)
             PROVE  isProperType(edges'[u])
  BY DEF ProperTypeIsCanonical, isProperType, isVar
<1>2. CASE u = r
  BY <1>1, <1>2 DEF isProperType
<1>3. CASE u # r
  <2>1. isProperType(edges[u])
    BY <1>1 DEF ProperTypeIsCanonical
  <2> QED
    BY <1>1, <1>3, <2>1
<1> QED
  BY <1>2, <1>3

LEMMA NextCanonical ==
    TypeOK /\ ProperTypeIsCanonical /\ [Next]_vars => ProperTypeIsCanonical'
<1> SUFFICES ASSUME TypeOK, ProperTypeIsCanonical, [Next]_vars
             PROVE  ProperTypeIsCanonical'
  OBVIOUS
<1>1. CASE UNCHANGED edges
  BY <1>1 DEF ProperTypeIsCanonical
<1>2. CASE Find1
  BY <1>2, ConstraintTyping, InsertCanonical DEF Find1
<1>3. CASE Find2
  <2>1. calls # << >>
    BY <1>3 DEF Find2, TypeOK
  <2> QED
    BY <1>3, <2>1, ConstraintTyping, InsertCanonical DEF Find2
<1>4. CASE BindLeft \/ Decompose
  <2>1. /\ edges' = quick_union(edges, rep1, rep2)
        /\ rep1 \in DOMAIN edges /\ rep2 \in DOMAIN edges
    BY <1>4 DEF BindLeft, Decompose, TypeOK
  <2>2. isVar(rep1) \/ isProperType(rep2)
    BY <1>4 DEF BindLeft, Decompose, Agree, isCons, isProperType, isVar
  <2> QED
    BY <2>1, <2>2, UnionCanonical
<1>5. CASE BindRight
  <2>1. /\ edges' = quick_union(edges, rep2, rep1)
        /\ rep1 \in DOMAIN edges /\ rep2 \in DOMAIN edges
        /\ isVar(rep2)
    BY <1>5 DEF BindRight, TypeOK
  <2> QED
    BY <2>1, UnionCanonical
<1>6. CASE SolveNext \/ SolveDone \/ Climb1 \/ Climb2 \/ FoundBoth \/ Same \/ Reject
  BY <1>1, <1>6 DEF SolveNext, SolveDone, Climb1, Climb2, FoundBoth, Same, Reject
<1> QED
  BY <1>1, <1>2, <1>3, <1>4, <1>5, <1>6 DEF Next, vars

(* A class that holds a constructor is never represented by a variable,     *)
(* what the comment of unify promises and close() relies on.                *)
THEOREM ProperRepresentatives == Spec => []ProperTypeIsCanonical
<1>1. Init => TypeOK /\ ProperTypeIsCanonical
  BY InitTyping DEF Init, Seeded, ProperTypeIsCanonical, isProperType, isVar
<1>2. TypeOK /\ ProperTypeIsCanonical /\ [Next]_vars => (TypeOK /\ ProperTypeIsCanonical)'
  BY NextTyping, NextCanonical
<1> QED
  BY <1>1, <1>2, PTL DEF Spec
-----------------------------------------------------------------------------
(* A congruence is an equivalence that decomposes constructors.             *)
LEMMA CongruenceFacts ==
    ASSUME NEW E \in Congruences
    PROVE  /\ \A t \in Term : <<t, t>> \in E
           /\ \A t, u \in Term : <<t, u>> \in E => <<u, t>> \in E
           /\ \A t, u, v \in Term :
                 <<t, u>> \in E /\ <<u, v>> \in E => <<t, v>> \in E
           /\ \A f, g \in Term :
                 f # g /\ isProperType(f) /\ isProperType(g) /\ <<f, g>> \in E =>
                     /\ Agree(f, g)
                     /\ \A i \in 1..arity(f) : <<Args[f][i], Args[g][i]>> \in E
<1>1. PICK R \in [Term -> Term] : Respects(R) /\ E = Kernel(R)
  <2>1. PICK reps \in SUBSET Term : E \in {Kernel(R) : R \in {Q \in Choosing(reps) : Respects(Q)}}
    BY DEF Congruences
  <2>2. PICK R \in Choosing(reps) : Respects(R) /\ E = Kernel(R)
    BY <2>1
  <2>3. R \in [Term -> Term]
    BY <2>2 DEF Choosing
  <2> QED
    BY <2>2, <2>3
<1>2. \A t, u \in Term : <<t, u>> \in E <=> R[t] = R[u]
  BY <1>1 DEF Kernel
<1>3. ASSUME NEW f \in Term, NEW g \in Term, f # g,
             isProperType(f), isProperType(g), <<f, g>> \in E
      PROVE  /\ Agree(f, g)
             /\ \A i \in 1..arity(f) : <<Args[f][i], Args[g][i]>> \in E
  <2>1. /\ Agree(f, g)
        /\ \A i \in 1..arity(f) : R[Args[f][i]] = R[Args[g][i]]
    BY <1>1, <1>2, <1>3 DEF Respects
  <2>2. arity(g) = arity(f)
    BY <2>1 DEF Agree, doMatch
  <2> QED
    BY <1>2, <2>1, <2>2, ArgTyping
<1> QED
  BY <1>2, <1>3

LEMMA SolvesByIndex ==
    ASSUME NEW E, NEW s \in Seq(TypeConstraint)
    PROVE  Solves(E, s) <=> \A i \in 1..Len(s) : <<s[i].lhs, s[i].rhs>> \in E
BY DEF Solves

(* What the calls of Return's argument and of the rest of the stack say,    *)
(* the new stack says.                                                      *)
LEMMA SolvesConcat ==
    ASSUME NEW E, NEW p \in Seq(TypeConstraint), NEW q \in Seq(TypeConstraint)
    PROVE  Solves(E, p \o q) <=> Solves(E, p) /\ Solves(E, q)
<1> DEFINE all == p \o q
           Says(c) == <<c.lhs, c.rhs>> \in E
<1>1. /\ all \in Seq(TypeConstraint)
      /\ Len(p) \in Nat /\ Len(q) \in Nat
      /\ Len(all) = Len(p) + Len(q)
      /\ \A i \in 1..Len(p) : all[i] = p[i]
      /\ \A i \in 1..Len(q) : all[Len(p) + i] = q[i]
  BY ConcatProperties
<1>2. /\ Solves(E, all) <=> \A i \in 1..Len(all) : Says(all[i])
      /\ Solves(E, p) <=> \A i \in 1..Len(p) : Says(p[i])
      /\ Solves(E, q) <=> \A i \in 1..Len(q) : Says(q[i])
  BY <1>1, SolvesByIndex
<1> HIDE DEF all, Says
<1>3. ASSUME \A i \in 1..Len(all) : Says(all[i])
      PROVE  /\ \A i \in 1..Len(p) : Says(p[i])
             /\ \A i \in 1..Len(q) : Says(q[i])
  <2>1. \A i \in 1..Len(p) : i \in 1..Len(all)
    BY <1>1
  <2>2. \A i \in 1..Len(q) : Len(p) + i \in 1..Len(all)
    BY <1>1
  <2>3. \A i \in 1..Len(p) : Says(p[i])
    <3> TAKE i \in 1..Len(p)
    <3>1. Says(all[i]) /\ all[i] = p[i]
      BY <1>1, <1>3, <2>1
    <3> QED
      BY <3>1
  <2>4. \A i \in 1..Len(q) : Says(q[i])
    <3> TAKE i \in 1..Len(q)
    <3>1. Says(all[Len(p) + i]) /\ all[Len(p) + i] = q[i]
      BY <1>1, <1>3, <2>2
    <3> QED
      BY <3>1
  <2> QED
    BY <2>3, <2>4
<1>4. ASSUME \A i \in 1..Len(p) : Says(p[i]), \A i \in 1..Len(q) : Says(q[i]),
             NEW i \in 1..Len(all)
      PROVE  Says(all[i])
  <2>1. CASE i \in 1..Len(p)
    <3>1. all[i] = p[i] /\ Says(p[i])
      BY <1>1, <1>4, <2>1
    <3> QED
      BY <3>1
  <2>2. CASE i \notin 1..Len(p)
    <3>1. i - Len(p) \in 1..Len(q)
      BY <1>1, <2>2
    <3>2. Len(p) + (i - Len(p)) = i
      BY <1>1
    <3>3. all[Len(p) + (i - Len(p))] = q[i - Len(p)] /\ Says(q[i - Len(p)])
      BY <1>1, <1>4, <3>1
    <3> QED
      BY <3>2, <3>3
  <2> QED
    BY <2>1, <2>2
<1> QED
  BY <1>2, <1>3, <1>4 DEF all

LEMMA SolvesHeadTail ==
    ASSUME NEW E, NEW s \in Seq(TypeConstraint), s # << >>
    PROVE  /\ Tail(s) \in Seq(TypeConstraint)
           /\ Solves(E, s) <=> <<Head(s).lhs, Head(s).rhs>> \in E /\ Solves(E, Tail(s))
<1>1. /\ Tail(s) \in Seq(TypeConstraint)
      /\ <<Head(s)>> \in Seq(TypeConstraint)
      /\ s = <<Head(s)>> \o Tail(s)
  BY HeadTailProperties
<1>2. Solves(E, <<Head(s)>>) <=> <<Head(s).lhs, Head(s).rhs>> \in E
  BY DEF Solves
<1>3. Solves(E, <<Head(s)>> \o Tail(s)) <=> Solves(E, <<Head(s)>>) /\ Solves(E, Tail(s))
  BY <1>1, SolvesConcat
<1> QED
  BY <1>1, <1>2, <1>3
-----------------------------------------------------------------------------
(* The step invariant behind OnlyForced and RejectedOnlyIfUnsolvable: in    *)
(* every solution, the term a find is at equals the term it started from.   *)
RepsForced ==
    \A E \in Congruences : Solves(E, constraints) =>
        /\ pc # "idle" => <<Head(calls).lhs, rep1>> \in E
        /\ pc \in {"find2", "reps"} => <<Head(calls).rhs, rep2>> \in E

Forced == OnlyForced /\ RepsForced /\ RejectedOnlyIfUnsolvable

LEMMA InsertForced ==
    ASSUME NEW t \in Term, TypeOK, edges' = smart_insert(edges, t),
           NEW E \in Congruences, \A u \in DOMAIN edges : <<u, edges[u]>> \in E
    PROVE  \A u \in DOMAIN edges' : <<u, edges'[u]>> \in E
<1>1. /\ DOMAIN edges' = DOMAIN edges \union {t}
      /\ \A u \in DOMAIN edges : edges'[u] = edges[u]
      /\ t \notin DOMAIN edges => edges'[t] = t
  BY InsertTyping
<1>2. <<t, t>> \in E
  BY CongruenceFacts
<1> QED
  BY <1>1, <1>2

LEMMA UnionForced ==
    ASSUME NEW r \in DOMAIN edges, NEW s \in DOMAIN edges, TypeOK,
           edges' = quick_union(edges, r, s),
           NEW E, \A u \in DOMAIN edges : <<u, edges[u]>> \in E, <<r, s>> \in E
    PROVE  \A u \in DOMAIN edges' : <<u, edges'[u]>> \in E
<1>1. /\ DOMAIN edges' = DOMAIN edges
      /\ \A u \in DOMAIN edges : edges'[u] = IF u = r THEN s ELSE edges[u]
  BY UnionTyping
<1> QED
  BY <1>1

LEMMA InitForced == Init => Forced
<1> SUFFICES ASSUME Init PROVE Forced
  OBVIOUS
<1>1. TypeOK
  BY InitTyping
<1>2. ASSUME NEW E \in Congruences
      PROVE  /\ \A t \in DOMAIN edges : <<t, edges[t]>> \in E
             /\ Solves(E, calls)
  <2>1. DOMAIN edges \subseteq Term /\ \A t \in DOMAIN edges : edges[t] = t
    BY <1>1 DEF Init, Seeded, TypeOK
  <2>2. Solves(E, << >>)
    BY DEF Solves
  <2> QED
    BY <2>1, <2>2, CongruenceFacts DEF Init
<1> QED
  BY <1>2 DEF Init, Forced, OnlyForced, RepsForced, RejectedOnlyIfUnsolvable

(* In a state where unify has both representatives, a solution equates them. *)
LEMMA RepsEqual ==
    ASSUME TypeOK, Forced, pc = "reps",
           NEW E \in Congruences, Solves(E, constraints)
    PROVE  /\ rep1 \in Term /\ rep2 \in Term
           /\ <<rep1, rep2>> \in E /\ <<rep2, rep1>> \in E
<1>1. /\ rep1 \in Term /\ rep2 \in Term
      /\ calls # << >> /\ calls \in Seq(TypeConstraint)
      /\ Head(calls).lhs \in Term /\ Head(calls).rhs \in Term
  BY ConstraintTyping DEF TypeOK
<1>2. /\ <<Head(calls).lhs, rep1>> \in E
      /\ <<Head(calls).rhs, rep2>> \in E
  BY DEF Forced, RepsForced
<1>3. <<Head(calls).lhs, Head(calls).rhs>> \in E
  BY <1>1, SolvesHeadTail DEF Forced, OnlyForced
<1>4. /\ <<rep1, Head(calls).lhs>> \in E
      /\ <<rep1, Head(calls).rhs>> \in E
      /\ <<rep1, rep2>> \in E
  BY <1>1, <1>2, <1>3, CongruenceFacts
<1> QED
  BY <1>1, <1>4, CongruenceFacts

(* A call that returns leaves calls that every solution solves.             *)
LEMMA ReturnForced ==
    ASSUME TypeOK, Forced, pc = "reps", NEW more \in Seq(TypeConstraint), Return(more),
           NEW E \in Congruences, Solves(E, constraints), Solves(E, more)
    PROVE  Solves(E, calls')
<1>1. calls # << >> /\ calls \in Seq(TypeConstraint)
  BY DEF TypeOK
<1>2. Tail(calls) \in Seq(TypeConstraint) /\ Solves(E, Tail(calls))
  BY <1>1, SolvesHeadTail DEF Forced, OnlyForced
<1> QED
  BY <1>2, SolvesConcat DEF Return

LEMMA NextForced == TypeOK /\ Forced /\ [Next]_vars => Forced'
<1> SUFFICES ASSUME TypeOK, Forced, [Next]_vars PROVE Forced'
  OBVIOUS
<1> USE ConstraintTyping
<1>1. constraints' = constraints
  BY DEF Next, vars, SolveNext, SolveDone, Find1, Climb1, Find2, Climb2, FoundBoth,
         Same, BindLeft, BindRight, Decompose, Reject, Return, solverVars
<1>2. RejectedOnlyIfUnsolvable'
  <2>1. CASE Reject
    <3> SUFFICES ASSUME NEW E \in Congruences, Solves(E, constraints) PROVE FALSE
      BY <1>1 DEF RejectedOnlyIfUnsolvable, Solvable
    <3>1. /\ rep1 \in Term /\ rep2 \in Term
          /\ <<rep1, rep2>> \in E
      BY <2>1, RepsEqual DEF Reject
    <3> QED
      BY <2>1, <3>1, CongruenceFacts DEF Reject
  <2>2. CASE status' = status \/ status' = "ok"
    BY <1>1, <2>2 DEF Forced, RejectedOnlyIfUnsolvable
  <2> QED
    BY <2>1, <2>2 DEF Next, vars, SolveNext, SolveDone, Find1, Climb1, Find2,
       Climb2, FoundBoth, Same, BindLeft, BindRight, Decompose, Return
<1>3. ASSUME NEW E \in Congruences, Solves(E, constraints)
      PROVE  /\ \A t \in DOMAIN edges' : <<t, edges'[t]>> \in E
             /\ Solves(E, calls')
             /\ pc' # "idle" => <<Head(calls').lhs, rep1'>> \in E
             /\ pc' \in {"find2", "reps"} => <<Head(calls').rhs, rep2'>> \in E
  <2>1. /\ \A t \in DOMAIN edges : <<t, edges[t]>> \in E
        /\ Solves(E, calls)
        /\ pc # "idle" => <<Head(calls).lhs, rep1>> \in E
        /\ pc \in {"find2", "reps"} => <<Head(calls).rhs, rep2>> \in E
    BY <1>3 DEF Forced, OnlyForced, RepsForced
  <2>2. CASE SolveNext
    <3>1. Solves(E, <<constraints[next]>>)
      BY <1>3, <2>2 DEF SolveNext, Solves, TypeOK
    <3> QED
      BY <2>1, <2>2, <3>1 DEF SolveNext, callVars
  <2>3. CASE SolveDone \/ Reject \/ UNCHANGED vars
    BY <2>1, <2>3 DEF SolveDone, Reject, vars, solverVars, callVars
  <2>4. CASE Find1
    <3>1. Head(calls).lhs \in Term
      BY <2>4 DEF Find1
    <3>2. \A t \in DOMAIN edges' : <<t, edges'[t]>> \in E
      BY <1>3, <2>1, <2>4, <3>1, InsertForced DEF Find1
    <3> QED
      BY <1>3, <2>1, <2>4, <3>1, <3>2, CongruenceFacts DEF Find1, solverVars
  <2>5. CASE Climb1
    <3>1. /\ rep1 \in DOMAIN edges /\ rep1 \in Term /\ edges[rep1] \in Term
          /\ Head(calls).lhs \in Term
          /\ pc = "find1" /\ pc' = pc /\ rep1' = edges[rep1]
      BY <2>5 DEF Climb1, TypeOK, get_parent
    <3>2. <<Head(calls).lhs, edges[rep1]>> \in E
      BY <2>1, <3>1, CongruenceFacts
    <3> QED
      BY <2>1, <2>5, <3>1, <3>2 DEF Climb1, solverVars
  <2>6. CASE Find2
    <3>1. Head(calls).rhs \in Term /\ pc = "find1"
      BY <2>6 DEF Find2, TypeOK
    <3>2. \A t \in DOMAIN edges' : <<t, edges'[t]>> \in E
      BY <1>3, <2>1, <2>6, <3>1, InsertForced DEF Find2
    <3> QED
      BY <2>1, <2>6, <3>1, <3>2, CongruenceFacts DEF Find2, solverVars
  <2>7. CASE Climb2
    <3>1. /\ rep2 \in DOMAIN edges /\ rep2 \in Term /\ edges[rep2] \in Term
          /\ Head(calls).rhs \in Term
          /\ pc = "find2" /\ pc' = pc /\ rep2' = edges[rep2]
      BY <2>7 DEF Climb2, TypeOK, get_parent
    <3>2. <<Head(calls).rhs, edges[rep2]>> \in E
      BY <2>1, <3>1, CongruenceFacts
    <3> QED
      BY <2>1, <2>7, <3>1, <3>2 DEF Climb2, solverVars
  <2>8. CASE FoundBoth
    BY <2>1, <2>8 DEF FoundBoth, solverVars
  <2>9. Solves(E, << >>) /\ << >> \in Seq(TypeConstraint)
    BY DEF Solves
  <2>10. CASE Same
    <3>1. Solves(E, calls')
      BY <1>3, <2>9, <2>10, ReturnForced DEF Same
    <3> QED
      BY <2>1, <2>10, <3>1 DEF Same, Return
  <2>11. CASE BindLeft \/ BindRight
    <3>1. Solves(E, calls') /\ pc = "reps" /\ pc' = "idle"
      BY <1>3, <2>9, <2>11, ReturnForced DEF BindLeft, BindRight, Return
    <3>2. <<rep1, rep2>> \in E /\ <<rep2, rep1>> \in E
      BY <1>3, <3>1, RepsEqual
    <3>3. rep1 \in DOMAIN edges /\ rep2 \in DOMAIN edges
      BY <3>1 DEF TypeOK
    <3>4. \A t \in DOMAIN edges' : <<t, edges'[t]>> \in E
      BY <1>3, <2>1, <2>11, <3>2, <3>3, UnionForced DEF BindLeft, BindRight
    <3> QED
      BY <3>1, <3>4
  <2>12. CASE Decompose
    <3>1. /\ rep1 \in DOMAIN edges /\ rep2 \in DOMAIN edges
          /\ rep1 \in Term /\ rep2 \in Term
          /\ pc = "reps" /\ pc' = "idle" /\ rep1 # rep2 /\ Agree(rep1, rep2)
      BY <2>12 DEF Decompose, Return, TypeOK
    <3>2. <<rep1, rep2>> \in E
      BY <1>3, <3>1, RepsEqual
    <3>3. \A i \in 1..arity(rep1) : <<Args[rep1][i], Args[rep2][i]>> \in E
      BY <3>1, <3>2, CongruenceFacts DEF Agree, isCons, isProperType, isVar
    <3>4. /\ ArgumentCalls(rep1, rep2) \in Seq(TypeConstraint)
          /\ Solves(E, ArgumentCalls(rep1, rep2))
      <4> DEFINE more == ArgumentCalls(rep1, rep2)
      <4>1. /\ more \in Seq(TypeConstraint)
            /\ Len(more) = arity(rep1)
            /\ \A i \in 1..arity(rep1) :
                  more[i] = [lhs |-> Args[rep1][i], rhs |-> Args[rep2][i]]
        BY <3>1, ArgumentCallsTyping
      <4> HIDE DEF more
      <4>2. Solves(E, more)
        BY <3>3, <4>1, SolvesByIndex
      <4> QED
        BY <4>1, <4>2 DEF more
    <3>5. Solves(E, calls')
      BY <1>3, <2>12, <3>1, <3>4, ReturnForced DEF Decompose
    <3>6. \A t \in DOMAIN edges' : <<t, edges'[t]>> \in E
      BY <1>3, <2>1, <2>12, <3>1, <3>2, UnionForced DEF Decompose
    <3> QED
      BY <3>1, <3>5, <3>6
  <2> QED
    BY <2>2, <2>3, <2>4, <2>5, <2>6, <2>7, <2>8, <2>10, <2>11, <2>12 DEF Next
<1> QED
  BY <1>1, <1>2, <1>3 DEF Forced, OnlyForced, RepsForced

(* The forest never equates more than the constraints force.                *)
THEOREM ForestIsForced == Spec => []OnlyForced
<1>1. Init => TypeOK /\ Forced
  BY InitTyping, InitForced
<1>2. TypeOK /\ Forced /\ [Next]_vars => (TypeOK /\ Forced)'
  BY NextTyping, NextForced
<1>3. Forced => OnlyForced
  BY DEF Forced
<1> QED
  BY <1>1, <1>2, <1>3, PTL DEF Spec

(* A typable program is never rejected by the solver.                       *)
THEOREM NeverRejectsTypable == Spec => []RejectedOnlyIfUnsolvable
<1>1. Init => TypeOK /\ Forced
  BY InitTyping, InitForced
<1>2. TypeOK /\ Forced /\ [Next]_vars => (TypeOK /\ Forced)'
  BY NextTyping, NextForced
<1>3. Forced => RejectedOnlyIfUnsolvable
  BY DEF Forced
<1> QED
  BY <1>1, <1>2, <1>3, PTL DEF Spec
-----------------------------------------------------------------------------
(***************************************************************************)
(* When solve() returns, the classes of the forest are a solution.  The    *)
(* invariant says that a map R from each term to its root exists, and that *)
(* whatever equates the classes of R and the sides of the pending calls    *)
(* equates the arguments of the constructors of a class and the sides of   *)
(* the constraints already taken: the stack holds everything that is owed. *)
(* Seen through that map the solver implements Unification: the last part  *)
(* of the module.                                                          *)
(***************************************************************************)

RootMap(R) ==
    /\ R \in [Term -> Term]
    /\ \A t \in Term : R[R[t]] = R[t]
    /\ \A t \in DOMAIN edges :
          /\ R[t] \in DOMAIN edges
          /\ R[edges[t]] = R[t]
          /\ edges[R[t]] = R[t]
          /\ edges[t] = t => R[t] = t
    /\ \A t \in Term \ DOMAIN edges : R[t] = t
    /\ \A t \in Term : isProperType(t) => isProperType(R[t])

Together(R) ==
    {e \in Term \X Term :
        e[1] # e[2] /\ isProperType(e[1]) /\ isProperType(e[2]) /\ R[e[1]] = R[e[2]]}

Factors(Q, R) == \A t \in Term : Q[R[t]] = Q[t]

Owed(Q, R) ==
    /\ \A e \in Together(R) :
          \A i \in 1..arity(e[1]) : Q[Args[e[1]][i]] = Q[Args[e[2]][i]]
    /\ \A i \in 1..(next - 1) : Q[constraints[i].lhs] = Q[constraints[i].rhs]

Accounted(R) ==
    /\ \A e \in Together(R) : Agree(e[1], e[2])
    /\ pc # "idle" => R[Head(calls).lhs] = R[rep1]
    /\ pc \in {"find2", "reps"} => R[Head(calls).rhs] = R[rep2]
    /\ \A Q \in [Term -> Term] :
          Factors(Q, R) /\ Solves(Kernel(Q), calls) => Owed(Q, R)

Solution ==
    /\ \E R : RootMap(R) /\ Accounted(R)
    /\ status = "ok" => calls = << >> /\ pc = "idle" /\ next > Len(constraints)

Relinked(R, r, s) == [t \in Term |-> IF R[t] = r THEN s ELSE R[t]]
-----------------------------------------------------------------------------
LEMMA KernelMember ==
    ASSUME NEW Q, NEW t \in Term, NEW u \in Term
    PROVE  <<t, u>> \in Kernel(Q) <=> Q[t] = Q[u]
BY DEF Kernel

LEMMA TogetherMember ==
    ASSUME NEW R, NEW f \in Term, NEW g \in Term, f # g,
           isProperType(f), isProperType(g), R[f] = R[g]
    PROVE  <<f, g>> \in Together(R)
BY DEF Together

LEMMA InsertRootMap ==
    ASSUME NEW t \in Term, TypeOK, edges' = smart_insert(edges, t),
           NEW R, RootMap(R)
    PROVE  RootMap(R)'
<1>1. /\ DOMAIN edges' = DOMAIN edges \union {t}
      /\ \A u \in DOMAIN edges : edges'[u] = edges[u]
      /\ t \notin DOMAIN edges => edges'[t] = t
  BY InsertTyping
<1> QED
  BY <1>1 DEF RootMap

LEMMA UnionRootMap ==
    ASSUME NEW r \in DOMAIN edges, NEW s \in DOMAIN edges, TypeOK, r # s,
           edges[r] = r, edges[s] = s, isVar(r) \/ isProperType(s),
           edges' = quick_union(edges, r, s), NEW R, RootMap(R)
    PROVE  RootMap(Relinked(R, r, s))'
<1> DEFINE L == Relinked(R, r, s)
<1>1. /\ DOMAIN edges' = DOMAIN edges
      /\ \A u \in DOMAIN edges : edges'[u] = IF u = r THEN s ELSE edges[u]
  BY UnionTyping
<1>2. R[r] = r /\ R[s] = s /\ r \in Term /\ s \in Term
  BY DEF RootMap, TypeOK
<1>3. /\ R \in [Term -> Term]
      /\ \A t \in Term : L[t] = IF R[t] = r THEN s ELSE R[t]
      /\ L \in [Term -> Term]
  BY <1>2 DEF RootMap, Relinked
<1>4. L[r] = s /\ L[s] = s
  BY <1>2, <1>3
<1> HIDE DEF L
<1>5. \A t \in Term : L[L[t]] = L[t]
  BY <1>2, <1>3, <1>4 DEF RootMap
<1>6. ASSUME NEW t \in DOMAIN edges'
      PROVE  /\ L[t] \in DOMAIN edges'
             /\ L[edges'[t]] = L[t]
             /\ edges'[L[t]] = L[t]
             /\ edges'[t] = t => L[t] = t
  <2>1. /\ t \in DOMAIN edges /\ t \in Term /\ edges[t] \in Term
        /\ R[t] \in DOMAIN edges /\ R[edges[t]] = R[t] /\ edges[R[t]] = R[t]
        /\ edges[t] = t => R[t] = t
    BY <1>1, <1>6 DEF RootMap, TypeOK
  <2>2. CASE t = r
    BY <1>1, <1>2, <1>4, <2>1, <2>2
  <2>3. CASE t # r
    BY <1>1, <1>2, <1>3, <2>1, <2>3
  <2> QED
    BY <2>2, <2>3
<1>7. \A t \in Term \ DOMAIN edges' : L[t] = t
  BY <1>1, <1>2, <1>3 DEF RootMap
<1>8. \A t \in Term : isProperType(t) => isProperType(L[t])
  BY <1>2, <1>3 DEF RootMap, isProperType
<1> QED
  BY <1>3, <1>5, <1>6, <1>7, <1>8 DEF RootMap, L
-----------------------------------------------------------------------------
LEMMA InitSolution == Init => Solution
<1> SUFFICES ASSUME Init PROVE Solution
  OBVIOUS
<1> DEFINE R == [t \in Term |-> t]
<1>1. TypeOK
  BY InitTyping
<1>2. RootMap(R)
  BY <1>1 DEF Init, Seeded, RootMap, TypeOK
<1>3. Together(R) = {}
  BY DEF Together
<1>4. 1..(next - 1) = {}
  BY DEF Init
<1>5. Accounted(R)
  BY <1>3, <1>4 DEF Accounted, Owed, Init
<1> QED
  BY <1>2, <1>5 DEF Solution, Init

(* A step that leaves the forest, the stack and the constraints alone.      *)
LEMMA ReturnSolution ==
    ASSUME TypeOK, NEW R, RootMap(R), Accounted(R), pc = "reps", rep1 = rep2,
           Return(<< >>), edges' = edges
    PROVE  RootMap(R)' /\ Accounted(R)'
<1>1. RootMap(R)'
  BY DEF RootMap
<1>2. /\ calls \in Seq(TypeConstraint) /\ calls # << >>
      /\ Head(calls).lhs \in Term /\ Head(calls).rhs \in Term
      /\ Tail(calls) \in Seq(TypeConstraint)
      /\ rep1 \in Term
  BY ConstraintTyping DEF TypeOK
<1>3. calls' = Tail(calls) /\ next' = next /\ constraints' = constraints /\ pc' = "idle"
  BY <1>2 DEF Return
<1>4. ASSUME NEW Q \in [Term -> Term], Factors(Q, R), Solves(Kernel(Q), Tail(calls))
      PROVE  Solves(Kernel(Q), calls)
  <2>1. R[Head(calls).lhs] = R[Head(calls).rhs]
    BY DEF Accounted
  <2>2. Q[Head(calls).lhs] = Q[Head(calls).rhs]
    BY <1>2, <1>4, <2>1 DEF Factors
  <2>3. <<Head(calls).lhs, Head(calls).rhs>> \in Kernel(Q)
    BY <1>2, <2>2, KernelMember
  <2> QED
    BY <1>2, <1>4, <2>3, SolvesHeadTail
<1>5. Accounted(R)'
  BY <1>3, <1>4 DEF Accounted, Owed
<1> QED
  BY <1>1, <1>5
-----------------------------------------------------------------------------
(* The step that matters: the root r becomes a child of the root s.  r is   *)
(* a variable, or agrees with s and the calls on their arguments are pushed.*)
Linked(r, s, more) ==
    /\ pc = "reps"
    /\ {r, s} = {rep1, rep2} /\ r # s
    /\ more \in Seq(TypeConstraint)
    /\ \/ isVar(r)
       \/ Agree(r, s) /\ more = ArgumentCalls(r, s)
    /\ edges' = quick_union(edges, r, s)
    /\ Return(more)

LEMMA LinkedFacts ==
    ASSUME TypeOK, RepsAreRoots, NEW R, RootMap(R), NEW r, NEW s, NEW more,
           Linked(r, s, more)
    PROVE  /\ r \in DOMAIN edges /\ s \in DOMAIN edges
           /\ r \in Term /\ s \in Term
           /\ edges[r] = r /\ edges[s] = s
           /\ R[r] = r /\ R[s] = s
           /\ isVar(r) \/ isProperType(s)
<1>1. /\ r \in DOMAIN edges /\ s \in DOMAIN edges
      /\ edges[r] = r /\ edges[s] = s
  BY DEF Linked, TypeOK, RepsAreRoots
<1>2. isVar(r) \/ isProperType(s)
  BY DEF Linked, Agree, isCons, isProperType, isVar
<1> QED
  BY <1>1, <1>2 DEF RootMap, TypeOK

(* What factors through the new map and solves the new stack factors        *)
(* through the old one and solves the old stack.                            *)
LEMMA LinkedFactors ==
    ASSUME TypeOK, RepsAreRoots, NEW R, RootMap(R), Accounted(R),
           NEW r, NEW s, NEW more, Linked(r, s, more),
           NEW Q \in [Term -> Term], Factors(Q, Relinked(R, r, s)),
           Solves(Kernel(Q), calls')
    PROVE  /\ Factors(Q, R) /\ Q[r] = Q[s]
           /\ Solves(Kernel(Q), calls) /\ Solves(Kernel(Q), more)
<1>1. /\ r \in Term /\ s \in Term /\ R[r] = r /\ R[s] = s
  BY LinkedFacts
<1>2. R \in [Term -> Term] /\ \A t \in Term : R[R[t]] = R[t]
  BY DEF RootMap
<1>3. \A t \in Term : Q[IF R[t] = r THEN s ELSE R[t]] = Q[t]
  BY DEF Factors, Relinked
<1>4. Q[r] = Q[s]
  BY <1>1, <1>3
<1>5. Factors(Q, R)
  BY <1>3, <1>4 DEF Factors
<1>6. /\ calls \in Seq(TypeConstraint) /\ calls # << >>
      /\ Head(calls).lhs \in Term /\ Head(calls).rhs \in Term
      /\ Tail(calls) \in Seq(TypeConstraint)
      /\ rep1 \in Term /\ rep2 \in Term
  BY ConstraintTyping DEF TypeOK, Linked
<1>7. Solves(Kernel(Q), more) /\ Solves(Kernel(Q), Tail(calls))
  BY <1>6, SolvesConcat DEF Linked, Return
<1>8. R[Head(calls).lhs] = R[rep1] /\ R[Head(calls).rhs] = R[rep2]
  BY DEF Accounted, Linked
<1>9. Q[rep1] = Q[rep2]
  BY <1>4 DEF Linked
<1>10. Q[Head(calls).lhs] = Q[Head(calls).rhs]
  BY <1>5, <1>6, <1>8, <1>9 DEF Factors
<1>11. <<Head(calls).lhs, Head(calls).rhs>> \in Kernel(Q)
  BY <1>6, <1>10, KernelMember
<1>12. Solves(Kernel(Q), calls)
  BY <1>6, <1>7, <1>11, SolvesHeadTail
<1> QED
  BY <1>4, <1>5, <1>7, <1>12

(* Two constructors that only the new map puts together: r is then a        *)
(* constructor, one of the two is in its class and the other in that of s.  *)
LEMMA NewlyTogether ==
    ASSUME TypeOK, RepsAreRoots, NEW R, RootMap(R),
           NEW r, NEW s, NEW more, Linked(r, s, more),
           NEW e \in Together(Relinked(R, r, s)), e \notin Together(R)
    PROVE  /\ e[1] \in Term /\ e[2] \in Term
           /\ isProperType(e[1]) /\ isProperType(e[2])
           /\ isProperType(r) /\ isProperType(s)
           /\ Agree(r, s) /\ more = ArgumentCalls(r, s)
           /\ \/ R[e[1]] = r /\ R[e[2]] = s
              \/ R[e[1]] = s /\ R[e[2]] = r
<1>1. /\ e \in Term \X Term /\ e[1] \in Term /\ e[2] \in Term
      /\ e[1] # e[2] /\ isProperType(e[1]) /\ isProperType(e[2])
      /\ Relinked(R, r, s)[e[1]] = Relinked(R, r, s)[e[2]]
  BY DEF Together
<1>2. R[e[1]] # R[e[2]]
  BY <1>1 DEF Together
<1>3. \/ R[e[1]] = r /\ R[e[2]] = s
      \/ R[e[1]] = s /\ R[e[2]] = r
  BY <1>1, <1>2 DEF Relinked
<1>4. isProperType(r) /\ isProperType(s)
  BY <1>1, <1>3 DEF RootMap
<1> QED
  BY <1>1, <1>3, <1>4 DEF Linked, isProperType

(* Agreement and equal arguments carry over from a constructor of a class   *)
(* to the root of the class.                                                *)
LEMMA ToRoot ==
    ASSUME NEW R, RootMap(R), NEW f \in Term, isProperType(f), isProperType(R[f]),
           \A e \in Together(R) : Agree(e[1], e[2]), Agree(R[f], R[f])
    PROVE  /\ Agree(f, R[f]) /\ Agree(R[f], f) /\ arity(f) = arity(R[f])
           /\ \A Q : (\A e \in Together(R) : \A i \in 1..arity(e[1]) :
                        Q[Args[e[1]][i]] = Q[Args[e[2]][i]])
                 => \A i \in 1..arity(f) : Q[Args[f][i]] = Q[Args[R[f]][i]]
<1>1. CASE f = R[f]
  BY <1>1
<1>2. CASE f # R[f]
  <2>1. R[f] \in Term /\ R[f] = R[R[f]]
    BY DEF RootMap
  <2>2. <<f, R[f]>> \in Together(R)
    BY <1>2, <2>1, TogetherMember
  <2>3. Agree(f, R[f])
    BY <2>2
  <2>4. Agree(R[f], f) /\ arity(f) = arity(R[f])
    BY <2>3 DEF Agree, doMatch
  <2> QED
    BY <2>2, <2>3, <2>4
<1> QED
  BY <1>1, <1>2

LEMMA LinkedAgree ==
    ASSUME TypeOK, RepsAreRoots, NEW R, RootMap(R), Accounted(R),
           NEW r, NEW s, NEW more, Linked(r, s, more),
           NEW e \in Together(Relinked(R, r, s))
    PROVE  /\ Agree(e[1], e[2])
           /\ \A Q \in [Term -> Term] :
                 Factors(Q, Relinked(R, r, s)) /\ Solves(Kernel(Q), calls') =>
                    \A i \in 1..arity(e[1]) : Q[Args[e[1]][i]] = Q[Args[e[2]][i]]
<1>1. \A d \in Together(R) : Agree(d[1], d[2])
  BY DEF Accounted
<1>2. ASSUME NEW Q \in [Term -> Term], Factors(Q, Relinked(R, r, s)),
             Solves(Kernel(Q), calls')
      PROVE  /\ \A d \in Together(R) : \A i \in 1..arity(d[1]) :
                    Q[Args[d[1]][i]] = Q[Args[d[2]][i]]
             /\ Solves(Kernel(Q), more)
  BY <1>2, LinkedFactors DEF Accounted, Owed
<1>3. CASE e \in Together(R)
  BY <1>1, <1>2, <1>3
<1>4. CASE e \notin Together(R)
  <2>1. /\ e[1] \in Term /\ e[2] \in Term
        /\ isProperType(e[1]) /\ isProperType(e[2])
        /\ isProperType(r) /\ isProperType(s)
        /\ Agree(r, s) /\ more = ArgumentCalls(r, s)
        /\ \/ R[e[1]] = r /\ R[e[2]] = s
           \/ R[e[1]] = s /\ R[e[2]] = r
    BY <1>4, NewlyTogether
  <2>2. r \in Term /\ s \in Term
    BY LinkedFacts
  <2>3. Agree(r, r) /\ Agree(s, s) /\ Agree(s, r) /\ arity(r) = arity(s)
    BY <2>1 DEF Agree, doMatch
  <2>4. /\ Agree(e[1], R[e[1]]) /\ Agree(R[e[2]], e[2])
        /\ arity(e[1]) = arity(r) /\ arity(e[2]) = arity(r)
    BY <1>1, <2>1, <2>2, <2>3, ToRoot
  <2>5. Agree(e[1], e[2])
    BY <2>1, <2>3, <2>4 DEF Agree, doMatch
  <2>6. ASSUME NEW Q \in [Term -> Term], Factors(Q, Relinked(R, r, s)),
               Solves(Kernel(Q), calls'), NEW i \in 1..arity(e[1])
        PROVE  Q[Args[e[1]][i]] = Q[Args[e[2]][i]]
    <3>1. /\ Q[Args[e[1]][i]] = Q[Args[R[e[1]]][i]]
          /\ Q[Args[e[2]][i]] = Q[Args[R[e[2]]][i]]
      BY <1>1, <1>2, <2>1, <2>2, <2>3, <2>4, <2>6, ToRoot
    <3>2. Q[Args[r][i]] = Q[Args[s][i]]
      <4>1. /\ ArgumentCalls(r, s) \in Seq(TypeConstraint)
            /\ Len(ArgumentCalls(r, s)) = arity(r)
            /\ ArgumentCalls(r, s)[i] = [lhs |-> Args[r][i], rhs |-> Args[s][i]]
        BY <2>1, <2>2, <2>4, <2>6, ArgumentCallsTyping
      <4>2. Solves(Kernel(Q), ArgumentCalls(r, s))
        BY <1>2, <2>1, <2>6
      <4>3. <<ArgumentCalls(r, s)[i].lhs, ArgumentCalls(r, s)[i].rhs>> \in Kernel(Q)
        BY <2>4, <2>6, <4>1, <4>2, SolvesByIndex
      <4>4. <<Args[r][i], Args[s][i]>> \in Kernel(Q)
        BY <4>1, <4>3
      <4> QED
        BY <4>4 DEF Kernel
    <3> QED
      BY <2>1, <3>1, <3>2
  <2> QED
    BY <2>5, <2>6
<1> QED
  BY <1>3, <1>4

LEMMA LinkedSolution ==
    ASSUME TypeOK, RepsAreRoots, NEW R, RootMap(R), Accounted(R),
           NEW r, NEW s, NEW more, Linked(r, s, more)
    PROVE  \E L : RootMap(L)' /\ Accounted(L)'
<1> DEFINE L == Relinked(R, r, s)
<1>1. RootMap(L)'
  BY LinkedFacts, UnionRootMap DEF Linked
<1>2. pc' = "idle" /\ next' = next /\ constraints' = constraints
  BY DEF Linked, Return
<1>3. \A e \in Together(L) : Agree(e[1], e[2])
  BY LinkedAgree
<1>4. ASSUME NEW Q \in [Term -> Term], Factors(Q, L), Solves(Kernel(Q), calls')
      PROVE  Owed(Q, L)'
  <2>1. Factors(Q, R) /\ Solves(Kernel(Q), calls)
    BY <1>4, LinkedFactors
  <2>2. \A i \in 1..(next - 1) : Q[constraints[i].lhs] = Q[constraints[i].rhs]
    BY <2>1 DEF Accounted, Owed
  <2>3. \A e \in Together(L) :
           \A i \in 1..arity(e[1]) : Q[Args[e[1]][i]] = Q[Args[e[2]][i]]
    BY <1>4, LinkedAgree
  <2> QED
    BY <1>2, <2>2, <2>3 DEF Owed
<1> HIDE DEF L
<1>5. Accounted(L)'
  BY <1>2, <1>3, <1>4 DEF Accounted
<1> QED
  BY <1>1, <1>5
-----------------------------------------------------------------------------
LEMMA NextSolution ==
    TypeOK /\ RepsAreRoots /\ Solution /\ [Next]_vars => Solution'
<1> SUFFICES ASSUME TypeOK, RepsAreRoots, Solution, [Next]_vars PROVE Solution'
  OBVIOUS
<1> USE ConstraintTyping
<1>1. (status = "ok" => calls = << >> /\ pc = "idle" /\ next > Len(constraints))'
  BY DEF Solution, TypeOK, Next, vars, SolveNext, SolveDone, Find1, Climb1, Find2,
     Climb2, FoundBoth, Same, BindLeft, BindRight, Decompose, Reject, Return,
     solverVars, callVars
<1>2. PICK R : RootMap(R) /\ Accounted(R)
  BY DEF Solution
<1>3. CASE SolveNext
  <2>1. /\ edges' = edges /\ constraints' = constraints /\ next' = next + 1
        /\ calls = << >> /\ calls' = <<constraints[next]>>
        /\ pc' = "idle" /\ next \in Nat \ {0}
        /\ constraints[next] \in TypeConstraint
    BY <1>3 DEF SolveNext, callVars, TypeOK
  <2>2. ASSUME NEW Q \in [Term -> Term], Factors(Q, R), Solves(Kernel(Q), calls')
        PROVE  Owed(Q, R)'
    <3>1. Solves(Kernel(Q), calls)
      BY <2>1 DEF Solves
    <3>2. <<constraints[next].lhs, constraints[next].rhs>> \in Kernel(Q)
      BY <2>1, <2>2 DEF Solves
    <3>3. Q[constraints[next].lhs] = Q[constraints[next].rhs]
      BY <3>2 DEF Kernel
    <3>4. Owed(Q, R)
      BY <1>2, <2>2, <3>1 DEF Accounted
    <3>5. next' = next + 1 /\ constraints' = constraints
      BY <2>1
    <3> QED
      BY <2>1, <3>3, <3>4, <3>5 DEF Owed
  <2> QED
    BY <1>1, <1>2, <2>1, <2>2 DEF Solution, RootMap, Accounted
<1>4. CASE SolveDone \/ Reject \/ UNCHANGED vars
  <2>1. /\ edges' = edges /\ constraints' = constraints /\ next' = next
        /\ calls' = calls /\ rep1' = rep1 /\ rep2' = rep2
        /\ pc' \in {pc, "idle"}
    BY <1>4 DEF SolveDone, Reject, vars, solverVars, callVars
  <2>2. RootMap(R)'
    BY <1>2, <2>1 DEF RootMap
  <2>3. Accounted(R)'
    BY <1>2, <2>1 DEF Accounted, Owed
  <2> QED
    BY <1>1, <2>2, <2>3 DEF Solution
<1>5. CASE Find1
  <2>1. RootMap(R)'
    BY <1>2, <1>5, InsertRootMap DEF Find1
  <2>2. /\ pc' = "find1" /\ rep1' = Head(calls).lhs
        /\ calls' = calls /\ next' = next /\ constraints' = constraints
    BY <1>5 DEF Find1, solverVars
  <2>3. Accounted(R)'
    BY <1>2, <2>2 DEF Accounted, Owed
  <2> QED
    BY <1>1, <2>1, <2>3 DEF Solution
<1>6. CASE Find2
  <2>1. Head(calls).rhs \in Term
    BY <1>6 DEF Find2, TypeOK
  <2>2. RootMap(R)'
    BY <1>2, <1>6, <2>1, InsertRootMap DEF Find2
  <2> QED
    BY <1>1, <1>2, <1>6, <2>2 DEF Find2, solverVars, Solution, Accounted, Owed
<1>7. CASE Climb1
  <2>1. rep1' = edges[rep1] /\ R[edges[rep1]] = R[rep1]
    BY <1>2, <1>7 DEF Climb1, TypeOK, get_parent, RootMap
  <2>2. /\ pc = "find1" /\ pc' = pc /\ rep2' = rep2 /\ edges' = edges
        /\ calls' = calls /\ next' = next /\ constraints' = constraints
    BY <1>7 DEF Climb1, solverVars
  <2>3. RootMap(R)' /\ Accounted(R)'
    BY <1>2, <2>1, <2>2 DEF RootMap, Accounted, Owed
  <2> QED
    BY <1>1, <2>3 DEF Solution
<1>8. CASE Climb2
  <2>1. rep2' = edges[rep2] /\ R[edges[rep2]] = R[rep2]
    BY <1>2, <1>8 DEF Climb2, TypeOK, get_parent, RootMap
  <2>2. /\ pc = "find2" /\ pc' = pc /\ rep1' = rep1 /\ edges' = edges
        /\ calls' = calls /\ next' = next /\ constraints' = constraints
    BY <1>8 DEF Climb2, solverVars
  <2>3. RootMap(R)' /\ Accounted(R)'
    BY <1>2, <2>1, <2>2 DEF RootMap, Accounted, Owed
  <2> QED
    BY <1>1, <2>3 DEF Solution
<1>9. CASE FoundBoth
  <2>1. /\ pc = "find2" /\ pc' = "reps" /\ rep1' = rep1 /\ rep2' = rep2
        /\ edges' = edges /\ calls' = calls /\ next' = next /\ constraints' = constraints
    BY <1>9 DEF FoundBoth, solverVars
  <2>2. RootMap(R)'
    BY <1>2, <2>1 DEF RootMap
  <2>3. Accounted(R)'
    BY <1>2, <2>1 DEF Accounted, Owed
  <2> QED
    BY <1>1, <2>2, <2>3 DEF Solution
<1>10. CASE Same
  BY <1>1, <1>2, <1>10, ReturnSolution DEF Same, Solution
<1>11. << >> \in Seq(TypeConstraint)
  OBVIOUS
<1>12. CASE BindLeft
  <2>1. Linked(rep1, rep2, << >>)
    BY <1>11, <1>12 DEF BindLeft, Linked
  <2> QED
    BY <1>1, <1>2, <2>1, LinkedSolution DEF Solution
<1>13. CASE BindRight
  <2>1. Linked(rep2, rep1, << >>)
    BY <1>11, <1>13 DEF BindRight, Linked
  <2> QED
    BY <1>1, <1>2, <2>1, LinkedSolution DEF Solution
<1>14. CASE Decompose
  <2>1. rep1 \in Term /\ rep2 \in Term
    BY <1>14 DEF Decompose, TypeOK
  <2>2. Linked(rep1, rep2, ArgumentCalls(rep1, rep2))
    BY <1>14, <2>1, ArgumentCallsTyping DEF Decompose, Linked
  <2> QED
    BY <1>1, <1>2, <2>2, LinkedSolution DEF Solution
<1> QED
  BY <1>3, <1>4, <1>5, <1>6, <1>7, <1>8, <1>9, <1>10, <1>12, <1>13, <1>14 DEF Next
-----------------------------------------------------------------------------
(* The classes of the forest are the kernel of the root map: no set that    *)
(* edges do not cross separates a term from its root.                       *)
LEMMA RootInSet ==
    ASSUME TypeOK, Forest, NEW R, RootMap(R), NEW t \in Term, NEW S \in Closed
    PROVE  t \in S <=> R[t] \in S
<1>1. CASE t \notin DOMAIN edges
  BY <1>1 DEF RootMap
<1>2. CASE t \in DOMAIN edges
  <2> DEFINE U == {u \in DOMAIN edges : R[u] = R[t] /\ (u \in S <=> t \in S)}
  <2>1. U \in SUBSET DOMAIN edges /\ U # {}
    BY <1>2
  <2>2. PICK u \in U : edges[u] = u \/ edges[u] \notin U
    BY <2>1 DEF Forest
  <2>3. edges[u] \in DOMAIN edges /\ R[edges[u]] = R[t] /\ (edges[u] \in S <=> t \in S)
    BY <2>2 DEF TypeOK, RootMap, Closed
  <2>4. edges[u] = u
    BY <2>2, <2>3
  <2> QED
    BY <2>2, <2>4 DEF RootMap
<1> QED
  BY <1>1, <1>2

LEMMA ClassesAreKernel ==
    ASSUME TypeOK, Forest, NEW R, RootMap(R)
    PROVE  Classes = Kernel(R)
<1>1. ASSUME NEW t \in Term, NEW u \in Term, R[t] = R[u], NEW S \in Closed, t \in S
      PROVE  u \in S
  BY <1>1, RootInSet
<1>2. ASSUME NEW t \in Term, NEW u \in Term, <<t, u>> \in Classes
      PROVE  R[t] = R[u]
  <2> DEFINE S == {v \in Term : R[v] = R[t]}
  <2>1. S \in Closed
    BY DEF Closed, RootMap, TypeOK
  <2>2. t \in S
    OBVIOUS
  <2>3. u \in S
    BY <1>2, <2>1, <2>2 DEF Classes
  <2> QED
    BY <2>3
<1> QED
  BY <1>1, <1>2 DEF Classes, Kernel

(* A map that leaves the terms it maps to alone, and sends constructors to  *)
(* constructors, chooses representatives.                                   *)
LEMMA IdempotentMap ==
    ASSUME NEW R \in [Term -> Term], Respects(R),
           \A t \in Term : isProperType(t) => isProperType(R[t])
    PROVE  \E reps \in {S \in SUBSET Term : Represents(S)} : R \in Choosing(reps)
<1> DEFINE reps == {t \in Term : R[t] = t}
           Q == [t \in Term \ reps |-> R[t]]
<1>1. \A t \in Term : R[t] \in reps
  BY DEF Respects
<1>2. R \in Choosing(reps)
  <2>1. Q \in [Term \ reps -> reps]
    BY <1>1
  <2>2. \A t \in Term : R[t] = IF t \in reps THEN t ELSE Q[t]
    OBVIOUS
  <2> HIDE DEF reps, Q
  <2>3. R = [t \in Term |-> IF t \in reps THEN t ELSE Q[t]]
    BY <2>2
  <2> QED
    BY <2>1, <2>3 DEF Choosing
<1>3. ASSUME NEW t \in Term, isProperType(t), R[t] # t
      PROVE  Agree(t, R[t])
  BY <1>1, <1>3 DEF Respects
<1>4. Represents(reps)
  BY <1>1, <1>3 DEF Represents
<1> QED
  BY <1>2, <1>4

LEMMA SolutionSolves == TypeOK /\ Forest /\ Solution => SolvedForm
<1> SUFFICES ASSUME TypeOK, Forest, Solution, status = "ok"
             PROVE  Classes \in Congruences /\ Solves(Classes, constraints)
  BY DEF SolvedForm
<1>1. PICK R : RootMap(R) /\ Accounted(R)
  BY DEF Solution
<1>2. calls = << >> /\ next > Len(constraints) /\ constraints \in Seq(TypeConstraint)
  BY ConstraintTyping DEF Solution
<1>3. R \in [Term -> Term] /\ Factors(R, R) /\ Solves(Kernel(R), calls)
  BY <1>1, <1>2 DEF RootMap, Factors, Solves
<1>4. Owed(R, R) /\ \A e \in Together(R) : Agree(e[1], e[2])
  BY <1>1, <1>3 DEF Accounted
<1>5. Respects(R)
  <2>1. ASSUME NEW f \in Term, NEW g \in Term, f # g,
               isProperType(f), isProperType(g), R[f] = R[g]
        PROVE  /\ Agree(f, g)
               /\ \A i \in 1..arity(f) : R[Args[f][i]] = R[Args[g][i]]
    <3> DEFINE e == <<f, g>>
    <3>1. e \in Together(R) /\ e[1] = f /\ e[2] = g
      BY <2>1, TogetherMember
    <3> HIDE DEF e
    <3> QED
      BY <1>4, <3>1 DEF Owed
  <2> QED
    BY <1>1, <2>1 DEF Respects, RootMap
<1>6. Classes = Kernel(R)
  BY <1>1, ClassesAreKernel
<1>7. Classes \in Congruences
  BY <1>1, <1>3, <1>5, <1>6, IdempotentMap DEF Congruences, RootMap
<1>8. ASSUME NEW i \in 1..Len(constraints)
      PROVE  <<constraints[i].lhs, constraints[i].rhs>> \in Classes
  <2>1. constraints[i].lhs \in Term /\ constraints[i].rhs \in Term
    <3>1. constraints[i] \in TypeConstraint
      BY <1>2
    <3> QED
      BY <3>1 DEF TypeConstraint
  <2>2. i \in 1..(next - 1)
    BY <1>2 DEF TypeOK
  <2> QED
    BY <1>4, <1>6, <2>1, <2>2, KernelMember DEF Owed
<1> QED
  BY <1>2, <1>7, <1>8, SolvesByIndex

(* When solve() returns normally, the classes of the union-find forest are  *)
(* a congruence that satisfies every constraint.                            *)
THEOREM SolvesConstraints == Spec => []SolvedForm
<1>1. Init => TypeOK /\ RepsAreRoots /\ Forest /\ Solution
  BY InitTyping, InitForest, InitSolution
<1>2. TypeOK /\ RepsAreRoots /\ Forest /\ Solution /\ [Next]_vars
         => (TypeOK /\ RepsAreRoots /\ Forest /\ Solution)'
  BY NextTyping, NextReps, NextForest, NextSolution
<1>3. TypeOK /\ RepsAreRoots /\ Forest /\ Solution => SolvedForm
  BY SolutionSolves
<1> QED
  BY <1>1, <1>2, <1>3, PTL DEF Spec

-----------------------------------------------------------------------------
(* The solver implements Unification.  Its forest is seen through the      *)
(* kernel of the root map; a pending call is an equation that the classes  *)
(* entail, and the step that links two roots joins the two classes of the  *)
(* equation it was called for.                                             *)
Equal == {e \in Term \X Term : connected(e[1], e[2])}

-----------------------------------------------------------------------------
(* Root, which the model defines by a recursion on the forest, is the map   *)
(* the invariant speaks of: a forest leaves only one solution of its        *)
(* equation.                                                                *)
ClimbsTo(R) == R = [t \in Term |-> IF IsRoot(edges, t) THEN t ELSE R[get_parent(edges, t)]]

LEMMA RootMapClimbs ==
    ASSUME TypeOK, NEW R, RootMap(R)
    PROVE  ClimbsTo(R)
<1>1. ASSUME NEW t \in Term
      PROVE  R[t] = IF IsRoot(edges, t) THEN t ELSE R[get_parent(edges, t)]
  BY DEF RootMap, IsRoot, get_parent
<1>2. R \in [Term -> Term]
  BY DEF RootMap
<1> QED
  BY <1>1, <1>2 DEF ClimbsTo

LEMMA ClimbIsUnique ==
    ASSUME TypeOK, Forest, NEW Q, NEW R, ClimbsTo(Q), ClimbsTo(R)
    PROVE  Q = R
<1> DEFINE S == {t \in Term : Q[t] # R[t]}
<1>1. /\ \A t \in Term : Q[t] = IF IsRoot(edges, t) THEN t ELSE Q[get_parent(edges, t)]
      /\ \A t \in Term : R[t] = IF IsRoot(edges, t) THEN t ELSE R[get_parent(edges, t)]
  BY DEF ClimbsTo
<1>2. S \subseteq DOMAIN edges
  BY <1>1 DEF IsRoot, get_parent
<1>3. ASSUME S # {} PROVE FALSE
  <2>1. PICK t \in S : edges[t] = t \/ edges[t] \notin S
    BY <1>2, <1>3 DEF Forest
  <2>2. t \in DOMAIN edges /\ edges[t] \in Term
    BY <1>2, <2>1 DEF TypeOK
  <2>3. CASE edges[t] = t
    BY <1>1, <2>1, <2>2, <2>3 DEF IsRoot, get_parent
  <2>4. CASE edges[t] # t
    <3>1. Q[edges[t]] = R[edges[t]]
      BY <2>1, <2>2, <2>4
    <3>2. Q[t] = Q[edges[t]] /\ R[t] = R[edges[t]]
      BY <1>1, <2>2, <2>4 DEF IsRoot, get_parent
    <3> QED
      BY <2>1, <3>1, <3>2
  <2> QED
    BY <2>3, <2>4
<1>4. \A t \in Term : Q[t] = R[t]
  BY <1>3
<1>5. Q = [t \in Term |-> Q[t]] /\ R = [t \in Term |-> R[t]]
  BY DEF ClimbsTo
<1> QED
  BY <1>4, <1>5

LEMMA EqualIsKernel ==
    \A R : TypeOK /\ Forest /\ RootMap(R) => Equal = Kernel(R)
<1> SUFFICES ASSUME NEW R, TypeOK, Forest, RootMap(R)
             PROVE  Equal = Kernel(R)
  OBVIOUS
<1>1. ClimbsTo(R)
  BY RootMapClimbs
<1>2. ClimbsTo(Root)
  BY <1>1, Zenon DEF ClimbsTo, Root
<1>3. Root = R
  BY <1>1, <1>2, ClimbIsUnique
<1> QED
  BY <1>3 DEF Equal, Kernel, connected

LEMMA EqualIsKernelNext ==
    (\A R : TypeOK /\ Forest /\ RootMap(R) => Equal = Kernel(R))'
BY EqualIsKernel, PTL
-----------------------------------------------------------------------------
(* The equations that the abstract solver may take.                         *)
Entails(e) == e \in Abstract!Entailed(Equal)

LEMMA EntailedSet ==
    Abstract!Entailed(Equal) =
        {<<constraints[i].lhs, constraints[i].rhs>> : i \in DOMAIN constraints}
        \union UNION {{<<Args[e[1]][i], Args[e[2]][i]>> : i \in 1..arity(e[1])} :
                         e \in {d \in Equal : Agree(d[1], d[2])}}
BY DEF Abstract!Entailed, Abstract!arity, arity, Abstract!Agree, Agree, Abstract!isCons, isCons,
   Abstract!doMatch, doMatch, Abstract!Matchable, Matchable

(* Every pending call is one of them.                                       *)
Pending == \A i \in DOMAIN calls : Entails(<<calls[i].lhs, calls[i].rhs>>)

LEMMA EntailedArguments ==
    \A f, g : <<f, g>> \in Equal /\ Agree(f, g) =>
        \A i \in 1..arity(f) : Entails(<<Args[f][i], Args[g][i]>>)
<1> SUFFICES ASSUME NEW f, NEW g, <<f, g>> \in Equal, Agree(f, g), NEW i \in 1..arity(f)
             PROVE  Entails(<<Args[f][i], Args[g][i]>>)
  OBVIOUS
<1> DEFINE d == <<f, g>>
<1>1. d \in {c \in Equal : Agree(c[1], c[2])}
  OBVIOUS
<1>2. <<Args[f][i], Args[g][i]>> \in {<<Args[d[1]][j], Args[d[2]][j]>> : j \in 1..arity(d[1])}
  OBVIOUS
<1> HIDE DEF d
<1> QED
  BY <1>1, <1>2, EntailedSet DEF Entails

LEMMA EntailedArgumentsNext ==
    (\A f, g : <<f, g>> \in Equal /\ Agree(f, g) =>
        \A i \in 1..arity(f) : Entails(<<Args[f][i], Args[g][i]>>))'
BY EntailedArguments, PTL

LEMMA EntailedConstraints ==
    ASSUME NEW i \in DOMAIN constraints
    PROVE  Entails(<<constraints[i].lhs, constraints[i].rhs>>)
BY EntailedSet DEF Entails

LEMMA EntailedStays ==
    ASSUME constraints' = constraints, Equal \subseteq Equal', NEW e, Entails(e)
    PROVE  Entails(e)'
BY DEF Entails, Abstract!Entailed

(* What an equation may be. *)
LEMMA EntailedCases ==
    ASSUME NEW e, Entails(e)
    PROVE  \/ \E i \in DOMAIN constraints : e = <<constraints[i].lhs, constraints[i].rhs>>
           \/ \E f, g \in Term : /\ <<f, g>> \in Equal /\ Agree(f, g)
                                 /\ \E i \in 1..arity(f) : e = <<Args[f][i], Args[g][i]>>
<1> SUFFICES ASSUME \A i \in DOMAIN constraints : e # <<constraints[i].lhs, constraints[i].rhs>>
             PROVE  \E f, g \in Term : /\ <<f, g>> \in Equal /\ Agree(f, g)
                                       /\ \E i \in 1..arity(f) : e = <<Args[f][i], Args[g][i]>>
  OBVIOUS
<1>1. PICK d \in {c \in Equal : Agree(c[1], c[2])} :
         e \in {<<Args[d[1]][i], Args[d[2]][i]>> : i \in 1..arity(d[1])}
  BY EntailedSet DEF Entails
<1>2. d \in Term \X Term /\ d = <<d[1], d[2]>>
  BY <1>1 DEF Equal
<1> QED
  BY <1>1, <1>2

-----------------------------------------------------------------------------
(* The classes, when the forest and its root map are as the invariant says. *)
Sound == TypeOK /\ Forest /\ RepsAreRoots /\ Solution

LEMMA NextSound == Sound /\ [Next]_vars => Sound'
BY NextTyping, NextForest, NextReps, NextSolution DEF Sound

LEMMA EqualStays ==
    ASSUME Sound, Sound', NEW R, RootMap(R), RootMap(R)'
    PROVE  Equal' = Equal
<1>1. Equal = Kernel(R)
  BY EqualIsKernel DEF Sound
<1>2. Equal' = Kernel(R)
  BY EqualIsKernelNext DEF Sound
<1> QED
  BY <1>1, <1>2

LEMMA RelinkedJoins ==
    ASSUME NEW R \in [Term -> Term], NEW r \in Term, NEW s \in Term,
           NEW C, C = {t \in Term : R[t] = r}, NEW D, D = {t \in Term : R[t] = s}
    PROVE  Kernel(Relinked(R, r, s)) = Abstract!Join(Kernel(R), C, D)
<1> DEFINE L == Relinked(R, r, s)
<1>1. \A t \in Term : L[t] = IF R[t] = r THEN s ELSE R[t]
  BY DEF Relinked
<1>2. \A t, u \in Term : L[t] = L[u] <=> \/ R[t] = R[u]
                                         \/ R[t] = r /\ R[u] = s
                                         \/ R[t] = s /\ R[u] = r
  BY <1>1
<1> HIDE DEF L
<1>3. Abstract!Join(Kernel(R), C, D) \subseteq Term \X Term
  BY DEF Abstract!Join, Kernel
<1>4. ASSUME NEW t \in Term, NEW u \in Term
      PROVE  <<t, u>> \in Kernel(L) <=> <<t, u>> \in Abstract!Join(Kernel(R), C, D)
  BY <1>2 DEF Abstract!Join, Kernel
<1>5. Kernel(L) \subseteq Term \X Term
  BY DEF Kernel
<1>6. Kernel(L) = Abstract!Join(Kernel(R), C, D)
  <2>1. \A e \in Term \X Term : e = <<e[1], e[2]>> /\ e[1] \in Term /\ e[2] \in Term
    OBVIOUS
  <2>2. \A e \in Term \X Term : e \in Kernel(L) <=> e \in Abstract!Join(Kernel(R), C, D)
    BY <1>4, <2>1
  <2> QED
    BY <1>3, <1>5, <2>2
<1> QED
  BY <1>6 DEF L

(* The call that unify works on, as an equation. *)
Current == <<Head(calls).lhs, Head(calls).rhs>>
Side(t) == Abstract!ClassOf(Equal, t)

LEMMA CurrentFacts ==
    ASSUME Sound, pc = "reps", NEW R, RootMap(R), Accounted(R)
    PROVE  /\ Equal = Kernel(R)
           /\ R \in [Term -> Term]
           /\ rep1 \in Term /\ rep2 \in Term
           /\ R[rep1] = rep1 /\ R[rep2] = rep2
           /\ Head(calls).lhs \in Term /\ Head(calls).rhs \in Term
           /\ R[Head(calls).lhs] = rep1 /\ R[Head(calls).rhs] = rep2
           /\ Side(Current[1]) = {t \in Term : R[t] = rep1}
           /\ Side(Current[2]) = {t \in Term : R[t] = rep2}
<1>1. Equal = Kernel(R)
  BY EqualIsKernel DEF Sound
<1>2. /\ rep1 \in DOMAIN edges /\ rep2 \in DOMAIN edges
      /\ edges[rep1] = rep1 /\ edges[rep2] = rep2
      /\ DOMAIN edges \subseteq Term /\ calls # << >>
  BY DEF Sound, TypeOK, RepsAreRoots
<1>3. R \in [Term -> Term] /\ R[rep1] = rep1 /\ R[rep2] = rep2
  BY <1>2 DEF RootMap
<1>4. Head(calls).lhs \in Term /\ Head(calls).rhs \in Term
  BY <1>2, ConstraintTyping DEF Sound
<1>5. R[Head(calls).lhs] = rep1 /\ R[Head(calls).rhs] = rep2
  BY <1>3 DEF Accounted
<1>6. ASSUME NEW t \in Term PROVE Side(t) = {u \in Term : R[u] = R[t]}
  BY <1>1, <1>6, KernelMember DEF Side, Abstract!ClassOf
<1> QED
  BY <1>1, <1>2, <1>3, <1>4, <1>5, <1>6 DEF Current

LEMMA AbstractAgree ==
    ASSUME NEW f, NEW g
    PROVE  /\ Abstract!Agree(f, g) <=> Agree(f, g)
           /\ Abstract!isProperType(f) <=> isProperType(f)
BY DEF Abstract!Agree, Agree, Abstract!isCons, isCons, Abstract!doMatch, doMatch, Abstract!arity,
   arity, Abstract!Matchable, Matchable, Abstract!isProperType, isProperType, Abstract!isVar, isVar

(* Two roots that unify links have classes that may be joined.              *)
LEMMA LinkedNoClash ==
    ASSUME Sound, NEW R, RootMap(R), Accounted(R), NEW r, NEW s, NEW more, Linked(r, s, more)
    PROVE  Abstract!Possible(Equal, Current)
<1>1. pc = "reps" /\ {r, s} = {rep1, rep2} /\ r # s
  BY DEF Linked
<1> DEFINE C == {t \in Term : R[t] = rep1}
           D == {t \in Term : R[t] = rep2}
<1>2. Side(Current[1]) = C /\ Side(Current[2]) = D
  BY <1>1, CurrentFacts
<1>3. Current \notin Equal
  <2>1. /\ Equal = Kernel(R)
        /\ Head(calls).lhs \in Term /\ Head(calls).rhs \in Term
        /\ R[Head(calls).lhs] = rep1 /\ R[Head(calls).rhs] = rep2
    BY <1>1, CurrentFacts
  <2>2. R[Head(calls).lhs] # R[Head(calls).rhs]
    BY <1>1, <2>1
  <2> QED
    BY <2>1, <2>2, KernelMember DEF Current
<1>4. ASSUME NEW f \in Term, NEW g \in Term, isProperType(f), isProperType(g),
             {R[f], R[g]} = {r, s}
      PROVE  Agree(f, g)
  <2>1. \A e \in Together(R) : Agree(e[1], e[2])
    BY DEF Accounted
  <2>2. isProperType(r) /\ isProperType(s)
    BY <1>1, <1>4 DEF RootMap
  <2>3. Agree(r, s)
    BY <2>2 DEF Linked, isProperType
  <2>4. Agree(r, r) /\ Agree(s, s) /\ Agree(s, r)
    BY <2>3 DEF Agree, doMatch
  <2>5. Agree(R[f], R[f]) /\ Agree(R[g], R[g]) /\ isProperType(R[f]) /\ isProperType(R[g])
    BY <1>4, <2>2, <2>4
  <2>6. Agree(f, R[f]) /\ Agree(R[g], g)
    BY <1>4, <2>1, <2>5, ToRoot
  <2>7. Agree(R[f], R[g])
    BY <1>1, <1>4, <2>3, <2>4
  <2> QED
    BY <2>6, <2>7 DEF Agree, doMatch
<1>5. ASSUME NEW f \in C, NEW g \in D, Abstract!isProperType(f), Abstract!isProperType(g)
      PROVE  Abstract!Agree(f, g)
  BY <1>1, <1>4, <1>5, AbstractAgree
<1>6. ~Abstract!Clash(C, D)
  BY <1>5 DEF Abstract!Clash
<1> HIDE DEF C, D
<1> QED
  BY <1>2, <1>3, <1>6 DEF Abstract!Possible, Side

LEMMA LinkedJoins ==
    ASSUME Sound, Sound', NEW R, RootMap(R), Accounted(R),
           NEW r, NEW s, NEW more, Linked(r, s, more)
    PROVE  /\ Equal' = Abstract!Join(Equal, Side(Current[1]), Side(Current[2]))
           /\ Equal \subseteq Equal'
           /\ <<rep1, rep2>> \in Equal'
<1> DEFINE L == Relinked(R, r, s)
           C == {t \in Term : R[t] = rep1}
           D == {t \in Term : R[t] = rep2}
<1>1. pc = "reps" /\ {r, s} = {rep1, rep2} /\ r # s
  BY DEF Linked
<1>2. /\ Equal = Kernel(R) /\ R \in [Term -> Term]
      /\ rep1 \in Term /\ rep2 \in Term
      /\ R[rep1] = rep1 /\ R[rep2] = rep2
      /\ Side(Current[1]) = C /\ Side(Current[2]) = D
  BY <1>1, CurrentFacts
<1>3. RootMap(L)'
  BY LinkedFacts, UnionRootMap DEF Linked, Sound
<1>4. Equal' = Kernel(L)
  BY <1>3, EqualIsKernelNext DEF Sound
<1>5. Kernel(L) = Abstract!Join(Kernel(R), C, D)
  <2>1. CASE r = rep1 /\ s = rep2
    BY <1>2, <2>1, RelinkedJoins
  <2>2. CASE r = rep2 /\ s = rep1
    <3>1. Kernel(L) = Abstract!Join(Kernel(R), D, C)
      BY <1>2, <2>2, RelinkedJoins
    <3> QED
      BY <3>1 DEF Abstract!Join
  <2> QED
    BY <1>1, <2>1, <2>2
<1>6. rep1 \in C /\ rep2 \in D
  BY <1>2
<1> HIDE DEF L, C, D
<1> QED
  BY <1>2, <1>4, <1>5, <1>6 DEF Abstract!Join
-----------------------------------------------------------------------------
LEMMA InitPending == Init => Pending
BY DEF Init, Pending

(* A call that returns leaves pending the calls it makes and those that     *)
(* were pending before it.                                                  *)
LEMMA ReturnPending ==
    ASSUME TypeOK, Pending, pc = "reps", NEW more \in Seq(TypeConstraint), Return(more),
           Equal \subseteq Equal',
           \A i \in DOMAIN more : Entails(<<more[i].lhs, more[i].rhs>>)'
    PROVE  Pending'
<1>1. calls # << >> /\ calls \in Seq(TypeConstraint)
  BY DEF TypeOK
<1>2. /\ Tail(calls) \in Seq(TypeConstraint) /\ Len(Tail(calls)) = Len(calls) - 1
      /\ \A i \in 1..Len(Tail(calls)) : Tail(calls)[i] = calls[i + 1]
  BY <1>1, HeadTailProperties
<1>3. calls' = more \o Tail(calls) /\ constraints' = constraints
  BY DEF Return
<1>4. ASSUME NEW c \in TypeConstraint, NEW j \in 1..Len(Tail(calls)), c = Tail(calls)[j]
      PROVE  Entails(<<c.lhs, c.rhs>>)'
  <2>1. j + 1 \in DOMAIN calls /\ c = calls[j + 1]
    BY <1>1, <1>2, <1>4
  <2>2. Entails(<<c.lhs, c.rhs>>)
    BY <2>1 DEF Pending
  <2> QED
    BY <1>3, <2>2, EntailedStays
<1>5. ASSUME NEW c \in TypeConstraint, NEW i \in DOMAIN calls', c = calls'[i]
      PROVE  Entails(<<c.lhs, c.rhs>>)'
  <2>1. \/ i \in DOMAIN more /\ c = more[i]
        \/ i - Len(more) \in 1..Len(Tail(calls)) /\ c = Tail(calls)[i - Len(more)]
    BY <1>2, <1>3, <1>5, ConcatProperties
  <2> QED
    BY <1>4, <2>1
<1>6. calls' \in Seq(TypeConstraint)
  BY <1>2, <1>3, ConcatProperties
<1>7. \A i \in DOMAIN calls' : Entails(<<calls[i].lhs, calls[i].rhs>>)'
  BY <1>5, <1>6 DEF Entails
<1> QED
  BY <1>7 DEF Pending

(* The three ways in which a link comes about.                              *)
LEMMA LinkCases ==
    ASSUME TypeOK, BindLeft \/ BindRight \/ Decompose
    PROVE  \E r, s, more : /\ Linked(r, s, more)
                           /\ \A i \in DOMAIN more :
                                 /\ Agree(rep1, rep2)
                                 /\ i \in 1..arity(rep1)
                                 /\ more[i].lhs = Args[rep1][i]
                                 /\ more[i].rhs = Args[rep2][i]
<1>1. << >> \in Seq(TypeConstraint) /\ DOMAIN << >> = {}
  OBVIOUS
<1>2. CASE BindLeft
  <2>1. Linked(rep1, rep2, << >>)
    BY <1>1, <1>2 DEF BindLeft, Linked
  <2> QED
    BY <1>1, <2>1
<1>3. CASE BindRight
  <2>1. Linked(rep2, rep1, << >>)
    BY <1>1, <1>3 DEF BindRight, Linked
  <2> QED
    BY <1>1, <2>1
<1>4. CASE Decompose
  <2> DEFINE more == ArgumentCalls(rep1, rep2)
  <2>1. rep1 \in Term /\ rep2 \in Term /\ Agree(rep1, rep2)
    BY <1>4 DEF Decompose, TypeOK
  <2>2. /\ more \in Seq(TypeConstraint)
        /\ \A i \in DOMAIN more : /\ i \in 1..arity(rep1)
                                  /\ more[i] = [lhs |-> Args[rep1][i], rhs |-> Args[rep2][i]]
    <3>1. /\ more \in Seq(TypeConstraint) /\ Len(more) = arity(rep1)
          /\ \A i \in 1..arity(rep1) :
                more[i] = [lhs |-> Args[rep1][i], rhs |-> Args[rep2][i]]
      BY <2>1, ArgumentCallsTyping
    <3>2. DOMAIN more = 1..arity(rep1)
      BY <3>1
    <3> QED
      BY <3>1, <3>2
  <2>3. Linked(rep1, rep2, more)
    BY <1>4, <2>2 DEF Decompose, Linked
  <2> HIDE DEF more
  <2> QED
    BY <2>1, <2>2, <2>3
<1> QED
  BY <1>2, <1>3, <1>4

(* The other steps do not change the classes.                               *)
LEMMA QuietStep ==
    ASSUME Sound, Sound', edges' = edges \/ Find1 \/ Find2
    PROVE  Equal' = Equal
<1>1. PICK R : RootMap(R)
  BY DEF Sound, Solution
<1>2. RootMap(R)'
  <2>1. CASE edges' = edges
    BY <1>1, <2>1 DEF RootMap
  <2>2. CASE Find1
    BY <1>1, <2>2, ConstraintTyping, InsertRootMap DEF Find1, Sound
  <2>3. CASE Find2
    <3>1. Head(calls).rhs \in Term
      BY <2>3, ConstraintTyping DEF Find2, Sound, TypeOK
    <3> QED
      BY <1>1, <2>3, <3>1, InsertRootMap DEF Find2, Sound
  <2> QED
    BY <2>1, <2>2, <2>3
<1> QED
  BY <1>1, <1>2, EqualStays

LEMMA LinkStep ==
    ASSUME Sound, Sound', Pending, BindLeft \/ BindRight \/ Decompose
    PROVE  Pending' /\ Abstract!Merge
<1>1. PICK R : RootMap(R) /\ Accounted(R)
  BY DEF Sound, Solution
<1>2. PICK r, s, more : /\ Linked(r, s, more)
                        /\ \A i \in DOMAIN more : /\ Agree(rep1, rep2)
                                                  /\ i \in 1..arity(rep1)
                                                  /\ more[i].lhs = Args[rep1][i]
                                                  /\ more[i].rhs = Args[rep2][i]
  BY LinkCases DEF Sound
<1>3. /\ Equal' = Abstract!Join(Equal, Side(Current[1]), Side(Current[2]))
      /\ Equal \subseteq Equal'
      /\ <<rep1, rep2>> \in Equal'
  BY <1>1, <1>2, LinkedJoins
<1>4. /\ TypeOK /\ pc = "reps" /\ status = "running" /\ Return(more)
      /\ more \in Seq(TypeConstraint)
  BY <1>2 DEF Linked, Sound, TypeOK
<1>5. \A i \in DOMAIN more : Entails(<<more[i].lhs, more[i].rhs>>)'
  <2>1. ASSUME NEW f, NEW g, f = rep1, g = rep2, NEW i \in DOMAIN more
        PROVE  Entails(<<more[i].lhs, more[i].rhs>>)'
    <3>1. Entails(<<Args[f][i], Args[g][i]>>)'
      BY <1>2, <1>3, <2>1, EntailedArgumentsNext
    <3> QED
      BY <1>2, <2>1, <3>1
  <2> QED
    BY <2>1
<1>6. Pending'
  BY <1>3, <1>4, <1>5, ReturnPending
<1>7. Entails(Current)
  BY <1>4 DEF Pending, Current, TypeOK
<1>8. Abstract!Possible(Equal, Current)
  BY <1>1, <1>2, LinkedNoClash
<1>9. Abstract!Merge
  BY <1>3, <1>4, <1>7, <1>8 DEF Abstract!Merge, Entails, Side, Return, Equal
<1> QED
  BY <1>6, <1>9

(* The climbs, the ends of the finds and the bookkeeping of solve().        *)
LEMMA SilentStep ==
    ASSUME Sound, Sound', Pending,
           SolveNext \/ Find1 \/ Climb1 \/ Find2 \/ Climb2 \/ FoundBoth \/ Same \/ UNCHANGED vars
    PROVE  /\ Pending'
           /\ constraints' = constraints /\ Equal' = Equal /\ status' = status
<1>1. edges' = edges \/ Find1 \/ Find2
  BY DEF SolveNext, Climb1, Climb2, FoundBoth, Same, vars
<1>2. Equal' = Equal
  BY <1>1, QuietStep
<1>3. constraints' = constraints /\ status' = status
  BY DEF SolveNext, Find1, Climb1, Find2, Climb2, FoundBoth, Same, Return, vars, solverVars
<1>4. CASE SolveNext
  <2>1. /\ constraints \in Seq(TypeConstraint) /\ next \in 1..Len(constraints)
        /\ calls' = <<constraints[next]>>
    BY <1>4, ConstraintTyping DEF SolveNext, Sound, TypeOK
  <2>2. Entails(<<constraints[next].lhs, constraints[next].rhs>>)
    BY <2>1, EntailedConstraints
  <2>3. ASSUME NEW c, c = constraints[next]
        PROVE  Entails(<<c.lhs, c.rhs>>)'
    BY <1>2, <1>3, <2>2, <2>3, EntailedStays
  <2>4. \A i \in DOMAIN calls' : calls'[i] = constraints[next]
    BY <2>1
  <2>5. \A i \in DOMAIN calls' : Entails(<<calls[i].lhs, calls[i].rhs>>)'
    BY <2>3, <2>4 DEF Entails
  <2> QED
    BY <1>2, <1>3, <2>5 DEF Pending
<1>5. CASE Same
  <2>1. << >> \in Seq(TypeConstraint) /\ DOMAIN << >> = {}
    OBVIOUS
  <2> QED
    BY <1>2, <1>3, <1>5, <2>1, ReturnPending DEF Same, Sound
<1>6. CASE Find1 \/ Climb1 \/ Find2 \/ Climb2 \/ FoundBoth \/ UNCHANGED vars
  <2>1. calls' = calls
    BY <1>6 DEF Find1, Climb1, Find2, Climb2, FoundBoth, vars, solverVars
  <2>2. ASSUME NEW c, NEW i \in DOMAIN calls, c = calls[i]
        PROVE  Entails(<<c.lhs, c.rhs>>)'
    BY <1>2, <1>3, <2>2, EntailedStays DEF Pending
  <2>3. \A i \in DOMAIN calls' : Entails(<<calls[i].lhs, calls[i].rhs>>)'
    BY <2>1, <2>2 DEF Entails
  <2> QED
    BY <1>2, <1>3, <2>3 DEF Pending
<1> QED
  BY <1>4, <1>5, <1>6

(* solve() returns when nothing that is entailed is left to join.           *)
LEMMA DoneStep ==
    ASSUME Sound, Sound', Pending, SolveDone
    PROVE  Pending' /\ Abstract!Accept
<1>1. /\ constraints' = constraints /\ calls' = calls /\ edges' = edges
      /\ pc = "idle" /\ calls = << >> /\ next > Len(constraints)
      /\ status = "running" /\ status' = "ok"
      /\ constraints \in Seq(TypeConstraint) /\ next \in Nat
  BY ConstraintTyping DEF SolveDone, solverVars, Sound, TypeOK
<1>2. Equal' = Equal
  BY <1>1, QuietStep
<1>3. PICK R : RootMap(R) /\ Accounted(R)
  BY DEF Sound, Solution
<1>4. Equal = Kernel(R) /\ R \in [Term -> Term]
  BY <1>3, EqualIsKernel DEF Sound, RootMap
<1>5. Owed(R, R)
  <2>1. Factors(R, R) /\ Solves(Kernel(R), calls)
    BY <1>1, <1>3 DEF RootMap, Factors, Solves
  <2> QED
    BY <1>3, <1>4, <2>1 DEF Accounted
<1>6. ASSUME NEW i \in DOMAIN constraints
      PROVE  <<constraints[i].lhs, constraints[i].rhs>> \in Equal
  <2>1. constraints[i].lhs \in Term /\ constraints[i].rhs \in Term
    <3>1. constraints[i] \in TypeConstraint
      BY <1>1
    <3> QED
      BY <3>1 DEF TypeConstraint
  <2>2. i \in 1..(next - 1)
    BY <1>1
  <2> QED
    BY <1>4, <1>5, <2>1, <2>2, KernelMember DEF Owed
<1>7. ASSUME NEW f \in Term, NEW g \in Term, <<f, g>> \in Equal, Agree(f, g), NEW i \in 1..arity(f)
      PROVE  <<Args[f][i], Args[g][i]>> \in Equal
  <2>1. arity(g) = arity(f) /\ isProperType(f) /\ isProperType(g)
    BY <1>7 DEF Agree, doMatch, isCons, isProperType, isVar
  <2>2. Args[f][i] \in Term /\ Args[g][i] \in Term
    BY <1>7, <2>1, ArgTyping
  <2>3. R[Args[f][i]] = R[Args[g][i]]
    <3>1. CASE f = g
      BY <3>1
    <3>2. CASE f # g
      <4> DEFINE e == <<f, g>>
      <4>1. R[f] = R[g]
        BY <1>4, <1>7, KernelMember
      <4>2. e \in Together(R) /\ e[1] = f /\ e[2] = g
        BY <2>1, <3>2, <4>1, TogetherMember
      <4> HIDE DEF e
      <4> QED
        BY <1>5, <4>2 DEF Owed
    <3> QED
      BY <3>1, <3>2
  <2> QED
    BY <1>4, <2>2, <2>3, KernelMember
<1>8. Abstract!Entailed(Equal) \subseteq Equal
  <2>1. ASSUME NEW e, Entails(e) PROVE e \in Equal
    <3>1. CASE \E i \in DOMAIN constraints : e = <<constraints[i].lhs, constraints[i].rhs>>
      BY <1>6, <3>1
    <3>2. CASE \E f, g \in Term : /\ <<f, g>> \in Equal /\ Agree(f, g)
                                  /\ \E i \in 1..arity(f) : e = <<Args[f][i], Args[g][i]>>
      BY <1>7, <3>2
    <3> QED
      BY <2>1, <3>1, <3>2, EntailedCases
  <2> QED
    BY <2>1 DEF Entails
<1>9. Pending'
  BY <1>1 DEF Pending
<1> QED
  BY <1>1, <1>2, <1>8, <1>9 DEF Abstract!Accept, Equal

(* An error is raised for an equation that cannot hold.                     *)
LEMMA RejectStep ==
    ASSUME Sound, Sound', Pending, Reject
    PROVE  Pending' /\ Abstract!Refuse
<1>1. /\ constraints' = constraints /\ calls' = calls /\ edges' = edges
      /\ pc = "reps" /\ rep1 # rep2 /\ status' = "error"
      /\ isProperType(rep1) /\ isProperType(rep2) /\ ~Agree(rep1, rep2)
  BY DEF Reject, solverVars
<1>2. status = "running" /\ calls # << >> /\ calls \in Seq(TypeConstraint)
  BY <1>1 DEF Sound, TypeOK
<1>3. Equal' = Equal
  BY <1>1, QuietStep
<1>4. PICK R : RootMap(R) /\ Accounted(R)
  BY DEF Sound, Solution
<1>5. rep1 \in Side(Current[1]) /\ rep2 \in Side(Current[2])
  BY <1>1, <1>4, CurrentFacts
<1>6. Abstract!Impossible(Equal, Current)
  <2>1. /\ Abstract!isProperType(rep1) /\ Abstract!isProperType(rep2)
        /\ ~Abstract!Agree(rep1, rep2)
    BY <1>1, AbstractAgree
  <2>2. Abstract!Clash(Side(Current[1]), Side(Current[2]))
    BY <1>1, <1>5, <2>1 DEF Abstract!Clash
  <2> QED
    BY <2>2 DEF Abstract!Impossible, Side
<1>7. Entails(Current)
  BY <1>2 DEF Pending, Current
<1>8. Pending'
  <2>1. ASSUME NEW c, NEW i \in DOMAIN calls, c = calls[i]
        PROVE  Entails(<<c.lhs, c.rhs>>)'
    BY <1>1, <1>3, <2>1, EntailedStays DEF Pending
  <2>2. \A i \in DOMAIN calls' : Entails(<<calls[i].lhs, calls[i].rhs>>)'
    BY <1>1, <2>1 DEF Entails
  <2> QED
    BY <2>2 DEF Pending
<1> QED
  BY <1>1, <1>2, <1>3, <1>6, <1>7, <1>8 DEF Abstract!Refuse, Entails, Equal
-----------------------------------------------------------------------------
LEMMA NextRefines ==
    Sound /\ Pending /\ [Next]_vars => Pending' /\ [Abstract!Step]_(Abstract!specVars)
<1> SUFFICES ASSUME Sound, Pending, [Next]_vars
             PROVE  Pending' /\ [Abstract!Step]_(Abstract!specVars)
  OBVIOUS
<1>1. Sound'
  BY NextSound
<1>2. CASE SolveNext \/ Find1 \/ Climb1 \/ Find2 \/ Climb2 \/ FoundBoth \/ Same \/ UNCHANGED vars
  BY <1>1, <1>2, SilentStep DEF Abstract!specVars, Equal
<1>3. CASE BindLeft \/ BindRight \/ Decompose
  BY <1>1, <1>3, LinkStep DEF Abstract!Step
<1>4. CASE SolveDone
  BY <1>1, <1>4, DoneStep DEF Abstract!Step
<1>5. CASE Reject
  BY <1>1, <1>5, RejectStep DEF Abstract!Step
<1> QED
  BY <1>2, <1>3, <1>4, <1>5 DEF Next

LEMMA InitRefines == Init => Sound /\ Pending /\ Abstract!Start
<1> SUFFICES ASSUME Init PROVE Sound /\ Pending /\ Abstract!Start
  OBVIOUS
<1>1. Sound
  BY InitTyping, InitForest, InitSolution DEF Sound
<1> DEFINE R == [t \in Term |-> t]
<1>2. RootMap(R)
  BY <1>1 DEF Init, Seeded, RootMap, Sound, TypeOK
<1>3. Equal = Kernel(R)
  BY <1>1, <1>2, EqualIsKernel DEF Sound
<1>4. Kernel(R) = {<<t, t>> : t \in Term}
  <2>1. \A e \in Term \X Term : R[e[1]] = R[e[2]] <=> e[1] = e[2]
    OBVIOUS
  <2>2. \A e \in Term \X Term : e = <<e[1], e[2]>> /\ e[1] \in Term
    OBVIOUS
  <2> HIDE DEF R
  <2>3. \A e \in Kernel(R) : \E t \in Term : e = <<t, t>>
    BY <2>1, <2>2 DEF Kernel
  <2>4. \A t \in Term : <<t, t>> \in Kernel(R)
    BY KernelMember
  <2> QED
    BY <2>3, <2>4
<1> QED
  BY <1>1, <1>3, <1>4, InitPending DEF Init, Abstract!Start, Equal

(* The solver, seen through the classes of its forest, takes only the steps *)
(* of Unification: it joins the classes of an entailed equation that can    *)
(* hold, accepts when nothing entailed is left, and refuses only for an     *)
(* entailed equation that cannot hold, in whatever order unify recurses.    *)
THEOREM Refinement == Spec => ImplementsUnification
<1>1. Init => Sound /\ Pending /\ Abstract!Start
  BY InitRefines
<1>2. Sound /\ Pending /\ [Next]_vars => (Sound /\ Pending)' /\ [Abstract!Step]_(Abstract!specVars)
  BY NextSound, NextRefines
<1> QED
  BY <1>1, <1>2, PTL DEF Spec, ImplementsUnification, Abstract!AbstractSpec
=============================================================================
