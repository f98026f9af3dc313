------------------------------- MODULE Closing -------------------------------
(***************************************************************************)
(* Inferred types: Unifier::inferred() closes a type, which replaces the   *)
(* variables of a constructor by what the solution binds them to, as deep  *)
(* as they go, and makes a mu type of a variable that comes back.          *)
(*                                                                         *)
(* The forest of the solution holds pointers, and close() writes the       *)
(* closed arguments into the constructor it found.  So a constructor here  *)
(* is an object, a cell of the heap, that several edges may share; the     *)
(* terms that are never written to are objects by themselves.  Terms are   *)
(* compared by value, and sets of variables are walked in any order.       *)
(***************************************************************************)
EXTENDS TipTypes, FiniteSets

LOCAL INSTANCE SequencesExt

CONSTANTS
    Problems,    \* lists of equations to solve
    Queries,     \* the types asked for
    MaxInferred  \* bound: how many are asked for, one after the other

VARIABLES
    heap,        \* the constructors
    forest,      \* UnionFind::edges: pairs of objects, a term and its parent
    saved,       \* unionFindCopy, while inferred() runs
    stack,       \* the calls of close(), the current one first
    result,      \* what the last call returned
    asked,       \* the types asked for so far
    solution     \* the edges by value, as solve() left them

vars == <<heap, forest, saved, stack, result, asked, solution>>

Blank == TipCons("null", << >>)
NoCell == [of |-> Blank, number |-> 0, side |-> 0]
None == [heap |-> << >>, forest |-> {}]

Constant(t) == [cell |-> NoCell, term |-> t]
Cell(c) == [cell |-> c, term |-> Blank]
ValueIn(h, o) == IF o.cell = NoCell THEN o.term ELSE h[o.cell]

-----------------------------------------------------------------------------
(* The forest, over any heap.                                               *)

parents(h, uf, t) == {e[2] : e \in {d \in uf : ValueIn(h, d[1]) = t}}

smart_insert(h, uf, o) == IF parents(h, uf, ValueIn(h, o)) = {} THEN uf \cup {<<o, o>>} ELSE uf

RECURSIVE find(_, _, _)
find(h, uf, o) ==
    LET p == CHOOSE q \in parents(h, uf, ValueIn(h, o)) : TRUE
    IN IF ValueIn(h, p) = ValueIn(h, o) THEN o ELSE find(h, uf, p)

quick_union(h, uf, root1, root2) ==
    {e \in uf : ValueIn(h, e[1]) # ValueIn(h, root1)} \cup {<<root1, root2>>}

-----------------------------------------------------------------------------
(* The solution of a list of equations.  Each side that is a constructor    *)
(* is an object of its own; its arguments are not written to.               *)

Side(problem, i, s) == IF s = 1 THEN problem[i].lhs ELSE problem[i].rhs
SideName(i, s) == [of |-> Blank, number |-> i, side |-> s]
HeapOf(problem) ==
    LET ends == {d \in (DOMAIN problem) \X {1, 2} : isCons(Side(problem, d[1], d[2]))}
    IN [c \in {SideName(d[1], d[2]) : d \in ends} |-> Side(problem, c.number, c.side)]
SideObject(problem, i, s) ==
    IF isCons(Side(problem, i, s)) THEN Cell(SideName(i, s)) ELSE Constant(Side(problem, i, s))

Failed == {<<Constant(Blank), Constant(Blank)>>}

RECURSIVE unify(_, _, _)
unify(h, pairs, uf) ==
    IF pairs = << >> THEN uf
    ELSE LET both == smart_insert(h, smart_insert(h, uf, Head(pairs)[1]), Head(pairs)[2])
             rep1 == find(h, both, Head(pairs)[1])
             rep2 == find(h, both, Head(pairs)[2])
             t1 == ValueIn(h, rep1)
             t2 == ValueIn(h, rep2)
         IN CASE t1 = t2 -> unify(h, Tail(pairs), both)
              [] t1 # t2 /\ isVar(t1) -> unify(h, Tail(pairs), quick_union(h, both, rep1, rep2))
              [] t1 # t2 /\ ~isVar(t1) /\ isVar(t2) -> unify(h, Tail(pairs), quick_union(h, both, rep2, rep1))
              [] t1 # t2 /\ ~isVar(t1) /\ ~isVar(t2) ->
                    IF ~doMatch(t1, t2) THEN Failed
                    ELSE unify(h, [i \in DOMAIN t1.args |-> <<Constant(t1.args[i]), Constant(t2.args[i])>>]
                                  \o Tail(pairs), quick_union(h, both, rep1, rep2))

\* The sides and their arguments are in the forest before anything is unified.
RECURSIVE smart_insertAll(_, _, _)
smart_insertAll(h, os, uf) ==
    IF os = << >> THEN uf ELSE smart_insertAll(h, Tail(os), smart_insert(h, uf, Head(os)))

Terms(problem, i) ==
    <<SideObject(problem, i, 1), SideObject(problem, i, 2)>>
    \o [j \in DOMAIN problem[i].lhs.args |-> Constant(problem[i].lhs.args[j])]
    \o [j \in DOMAIN problem[i].rhs.args |-> Constant(problem[i].rhs.args[j])]

Solve(problem) ==
    LET h == HeapOf(problem)
        Seeded[i \in 0 .. Len(problem)] ==
            IF i = 0 THEN {} ELSE smart_insertAll(h, Terms(problem, i), Seeded[i - 1])
    IN unify(h, [i \in DOMAIN problem |-> <<SideObject(problem, i, 1), SideObject(problem, i, 2)>>],
             Seeded[Len(problem)])

Solvable(problem) == Solve(problem) # Failed

-----------------------------------------------------------------------------
(* Substituter and TypeVars.                                                *)

\* The variable of a mu type is replaced as well, and null when that is no variable.
RECURSIVE substitute(_, _, _)
substitute(t, target, s) ==
    IF isVar(t) THEN (IF t = target THEN s ELSE t)
    ELSE LET args == [i \in DOMAIN t.args |-> substitute(t.args[i], target, s)]
         IN IF isMu(t) /\ ~isVar(args[1]) THEN TipMu(Blank, args[2]) ELSE [t EXCEPT !.args = args]

\* Every occurrence of a variable, the bound ones included: the erasure of
\* the variable of a mu type compares pointers that are all different.
RECURSIVE collect(_)
RECURSIVE collectAll(_)
collectAll(ts) == IF ts = << >> THEN << >> ELSE collect(Head(ts)) \o collectAll(Tail(ts))
collect(t) == IF isVar(t) THEN <<t>> ELSE collectAll(t.args)

contains(ts, t) == \E i \in DOMAIN ts : ts[i] = t

-----------------------------------------------------------------------------
(* close(): a call has the object it closes, the variables it must not      *)
(* follow again, and its locals.                                            *)

Frame(obj, visited) ==
    [obj |-> obj, visited |-> visited, pc |-> "enter", at |-> obj, left |-> << >>, current |-> << >>]

value(o) == ValueIn(heap, o)
Top == Head(stack)
This == value(Top.obj)
At(pc) == stack # << >> /\ Top.pc = pc

Become(frame) == stack' = <<frame>> \o Tail(stack)
Call(frame, callee) == stack' = <<callee, frame>> \o Tail(stack)
Return(t) == result' = t /\ stack' = Tail(stack)

\* A variable that is visited or bound to nothing.
Free == TipAlpha(This.at, "")

closeVisited ==
    /\ At("enter") /\ isVar(This) /\ This \in Top.visited
    /\ Return(Free)
    /\ UNCHANGED <<heap, forest, saved, asked, solution>>

startFind ==
    /\ At("enter") /\ isVar(This) /\ This \notin Top.visited
    /\ forest' = smart_insert(heap, forest, Top.obj)
    /\ Become([Top EXCEPT !.pc = "find"])
    /\ UNCHANGED <<heap, saved, result, asked, solution>>

climb_FromTheStart ==  \* mutated form: the loop reads the same parent again
    /\ At("find")
    /\ \E p \in parents(heap, forest, This) :
          value(p) # value(Top.at) /\ Become([Top EXCEPT !.at = p])
    /\ UNCHANGED <<heap, forest, saved, result, asked, solution>>

climb ==
    /\ At("find")
    /\ \E p \in parents(heap, forest, value(Top.at)) :
          value(p) # value(Top.at) /\ Become([Top EXCEPT !.at = p])
    /\ UNCHANGED <<heap, forest, saved, result, asked, solution>>

\* A constructor that was written to may have no edge any more; it gets one.
found ==
    /\ At("find")
    /\ LET ps == parents(heap, forest, value(Top.at))
       IN ps = {} \/ \E p \in ps : value(p) = value(Top.at)
    /\ forest' = smart_insert(heap, forest, Top.at)
    /\ IF Top.at = Top.obj THEN Return(Free)
       ELSE /\ Call([Top EXCEPT !.pc = "closed"], Frame(Top.at, Top.visited \cup {This}))
            /\ UNCHANGED result
    /\ UNCHANGED <<heap, saved, asked, solution>>

closeVar_NoMu ==  \* mutated form: a variable that comes back makes no mu type
    /\ At("closed") /\ isVar(This)
    /\ Return(result)
    /\ UNCHANGED <<heap, forest, saved, asked, solution>>

closeVar ==
    /\ At("closed") /\ isVar(This)
    /\ LET newV == IF isAlpha(This) THEN This ELSE Free
       IN Return(IF contains(collect(result), newV)
                 THEN TipMu(newV, substitute(result, This, newV)) ELSE result)
    /\ UNCHANGED <<heap, forest, saved, asked, solution>>

closeCons ==
    /\ At("enter") /\ isCons(This)
    /\ Become([Top EXCEPT !.pc = "arguments", !.left = collect(This), !.current = This.args])
    /\ UNCHANGED <<heap, forest, saved, result, asked, solution>>

closeArgument ==
    /\ At("arguments")
    /\ \E i \in DOMAIN Top.left :
          Call([Top EXCEPT !.pc = "substitute", !.left = <<Top.left[i]>> \o RemoveAt(Top.left, i)],
               Frame(Constant(Top.left[i]), Top.visited))
    /\ UNCHANGED <<heap, forest, saved, result, asked, solution>>

substituteArgument ==
    /\ At("substitute")
    /\ Become([Top EXCEPT !.pc = "arguments", !.left = Tail(Top.left),
                 !.current = [i \in DOMAIN Top.current |-> substitute(Top.current[i], Head(Top.left), result)]])
    /\ UNCHANGED <<heap, forest, saved, result, asked, solution>>

setArguments ==
    /\ At("arguments") /\ Top.left = << >>
    /\ LET closed == [This EXCEPT !.args = Top.current]
       IN /\ Return(closed)
          /\ heap' = IF Top.obj.cell = NoCell THEN heap ELSE [heap EXCEPT ![Top.obj.cell] = closed]
    /\ UNCHANGED <<forest, saved, asked, solution>>

closeMu ==
    /\ At("enter") /\ isMu(This)
    /\ Call([Top EXCEPT !.pc = "closed"], Frame(Constant(This.args[2]), Top.visited))
    /\ UNCHANGED <<heap, forest, saved, result, asked, solution>>

closedMu ==
    /\ At("closed") /\ isMu(This)
    /\ Return(TipMu(This.args[1], result))
    /\ UNCHANGED <<heap, forest, saved, asked, solution>>

-----------------------------------------------------------------------------
(* inferred(): the copy has an object of its own for either end of an edge. *)

copy ==
    LET ends == {<<e, s>> : e \in forest, s \in {1, 2}}
        End(d) == value(d[1][d[2]])
        Name(d) == [of |-> value(d[1][1]), number |-> 0, side |-> d[2]]
        cells == {d \in ends : isCons(End(d))}
        Object(d) == IF d \in cells THEN Cell(Name(d)) ELSE Constant(End(d))
    IN [heap |-> [c \in {Name(d) : d \in cells} |-> End(CHOOSE d \in cells : Name(d) = c)],
        forest |-> {<<Object(<<e, 1>>), Object(<<e, 2>>)>> : e \in forest}]

inferred ==
    /\ stack = << >> /\ saved = None /\ Len(asked) < MaxInferred
    /\ \E t \in Queries : asked' = Append(asked, t) /\ stack' = <<Frame(Constant(t), {})>>
    /\ saved' = copy
    /\ UNCHANGED <<heap, forest, result, solution>>

restore_Keeps ==  \* mutated form: the copy is dropped
    /\ stack = << >> /\ saved # None
    /\ saved' = None
    /\ UNCHANGED <<heap, forest, stack, result, asked, solution>>

restore ==
    /\ stack = << >> /\ saved # None
    /\ heap' = saved.heap /\ forest' = saved.forest /\ saved' = None
    /\ UNCHANGED <<stack, result, asked, solution>>

EdgesByValue == {<<value(e[1]), value(e[2])>> : e \in forest}

Init ==
    /\ \E problem \in Problems :
          Solvable(problem) /\ heap = HeapOf(problem) /\ forest = Solve(problem)
    /\ saved = None /\ stack = << >> /\ result = Blank /\ asked = << >>
    /\ solution = EdgesByValue

Next ==
    \/ inferred \/ restore
    \/ closeVisited \/ startFind \/ climb \/ found \/ closeVar
    \/ closeCons \/ closeArgument \/ substituteArgument \/ setArguments
    \/ closeMu \/ closedMu

Spec == Init /\ [][Next]_vars /\ WF_vars(Next)

-----------------------------------------------------------------------------
(* The solution as a tree that may be infinite, and an inferred type as the *)
(* tree its mu types stand for.                                             *)

Depth == 5   \* bound: how deep the trees are compared

RECURSIVE RootOf(_)
RootOf(t) ==
    LET up == {e[2] : e \in {d \in solution : d[1] = t}} \ {t}
    IN IF up = {} THEN t ELSE RootOf(CHOOSE u \in up : TRUE)

RECURSIVE Bound(_, _, _)
Bound(t, v, s) ==
    CASE isVar(t) -> IF t = v THEN s ELSE t
      [] isMu(t) -> IF t.args[1] = v THEN t ELSE TipMu(t.args[1], Bound(t.args[2], v, s))
      [] isCons(t) -> [t EXCEPT !.args = [i \in DOMAIN t.args |-> Bound(t.args[i], v, s)]]

RECURSIVE Unfolded(_)
Unfolded(t) ==
    IF isMu(t) /\ ~isVar(t.args[2]) THEN Unfolded(Bound(t.args[2], t.args[1], t)) ELSE t

\* Which variables of the two trees are at the same places.
Clash == <<Blank, Blank>>
RECURSIVE Matches(_, _, _)
Matches(s, t, depth) ==
    LET root == RootOf(Unfolded(s))
        u == Unfolded(t)
    IN CASE depth = 0 -> {}
         [] depth > 0 /\ isVar(root) /\ isVar(u) -> {<<root, u>>}
         [] depth > 0 /\ ~isVar(root) /\ root.kind = u.kind /\ Len(root.args) = Len(u.args) ->
               UNION {Matches(root.args[i], u.args[i], depth - 1) : i \in DOMAIN u.args}
         [] OTHER -> {Clash}

SameTree(s, t) ==
    LET m == Matches(s, t, Depth)
    IN Clash \notin m /\ \A p, q \in m : p[1] = q[1] <=> p[2] = q[2]

-----------------------------------------------------------------------------
(* Properties.                                                              *)

(* The type inferred for a variable is the solution: the same tree, with    *)
(* the variables that nothing binds renamed one to one.                     *)
InferredIsTheSolution ==
    stack = << >> /\ saved # None => SameTree(asked[Len(asked)], result)

(* Asking for a type leaves the solution as it was.                         *)
SolutionIsKept == saved = None => EdgesByValue = solution

(* A type that is asked for is inferred: the parents that find climbs end   *)
(* at a root and close() returns, however the types refer to each other.    *)
EveryTypeIsInferred == saved # None ~> saved = None
=============================================================================
