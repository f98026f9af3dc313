------------------------------ MODULE MCClosing ------------------------------
(***************************************************************************)
(* Solutions to close: what up to three equations over three variables     *)
(* leave, for pointers with any recursion, and for functions without.      *)
(***************************************************************************)
EXTENDS Closing

LOCAL INSTANCE SequencesExt

x == TipVar(<<1>>)
y == TipVar(<<2>>)
z == TipVar(<<3>>)
f == TipAlpha(<<4>>, "")

SolvableLists(equations, n) == {p \in BoundedSeq(equations, n) \ {<< >>} : Solvable(p)}
Equations(left, right) == {Equation(l, r) : l \in left, r \in right}

Pointers == SolvableLists(Equations({x, y}, {y, z, TipRef(x), TipRef(y), TipRef(z), TipInt}), 3)

\* No type of the solution is a part of itself.
Ends(p) ==
    LET edges == {<<ValueIn(HeapOf(p), d[1]), ValueIn(HeapOf(p), d[2])>> : d \in Solve(p)}
        Parts(t) == ({d[2] : d \in {c \in edges : c[1] = t}} \ {t}) \cup {t.args[i] : i \in DOMAIN t.args}
        All == UNION {{d[1]} \cup Parts(d[1]) : d \in edges}
        Shallow[n \in 0 .. Cardinality(All)] ==
            IF n = 0 THEN {} ELSE {t \in All : Parts(t) \subseteq Shallow[n - 1]}
    IN Shallow[Cardinality(All)] = All

Functions == {TipFunction(<<a>>, b) : a \in {y, z}, b \in {y, z, TipInt}}
FunctionLists == {p \in SolvableLists(Equations({x, y, z}, {y} \cup Functions), 2) : Ends(p)}

\* The test's mu type, a function that takes itself.
SomeTypes == {x, y, TipMu(f, TipFunction(<<f, y>>, y))}

\* main() { var x, y; x = y; y = &y; ... } and a function f(x, y) { ... return y; }.
Shared == {<<Equation(x, y), Equation(y, TipRef(y)), Equation(z, TipFunction(<<x, y>>, y))>>}

AllTypes == {x, y, z}

PointersAndFunctions == Pointers \cup FunctionLists
=============================================================================
