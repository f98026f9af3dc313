------------------------- MODULE MCSemanticAnalysis -------------------------
(***************************************************************************)
(* Programs to analyze.  In Clashing, names of functions, formals, locals  *)
(* and uses clash in every way; WithFields mentions fields here and there; *)
(* HigherOrder passes functions around; in Probes, main first forces the   *)
(* types of its variables and then has one more statement, of every class  *)
(* and operator, over operands of every type; in Inferred nothing forces   *)
(* the types: main passes values of every type to two functions and uses   *)
(* what they return.                                                       *)
(***************************************************************************)
EXTENDS SemanticAnalysis, TreeTypes

Var(s) == ASTVariableExpr(s)
x == Var("x")
y == Var("y")
one == ASTNumberExpr("1")
inc == Var("inc")
App(f, args) == ASTFunAppExpr(f, args)
Plus(e, d) == ASTBinaryExpr("+", e, d)
Set(v, e) == ASTAssignStmt(v, e)

Decls(names) == [i \in DOMAIN names |-> ASTDeclNode(names[i])]
Function(name, formals, locals, stmts, result) ==
    ASTFunction(ASTDeclNode(name), Decls(formals), IF locals = << >> THEN << >> ELSE <<ASTDeclStmt(Decls(locals))>>,
                Append(stmts, ASTReturnStmt(result)))

-----------------------------------------------------------------------------
OneFunction(names, uses) ==
    {Function(name, formals, locals, << >>, Var(use)) :
        name \in names, formals \in {<< >>, <<"x">>, <<"main", "x">>},
        locals \in {<<"x">>, <<"y", "f">>, <<"y">>}, use \in uses}

Clashing ==
    {ASTProgram(<<f, g>>) : f \in OneFunction({"f"}, {"x", "y", "main"}), g \in OneFunction({"f", "main"}, {"x", "f"})}

RecordOf(names, es) == ASTRecordExpr([i \in DOMAIN names |-> ASTFieldExpr(names[i], es[i])])
WithFields ==
    {ASTProgram(<<Function("f", <<"x">>, <<"y">>, <<Set(ASTAccessExpr(x, f[1]), RecordOf(<<f[2], f[3]>>, <<y, y>>))>>, x),
                  Function("main", <<"x">>, <<"y">>, <<ASTOutputStmt(ASTAccessExpr(y, f[4]))>>, x)>>) :
        f \in {"p", "q", "s"} \X {"p", "q", "s"} \X {"p", "q", "s"} \X {"p", "q", "s"}}

-----------------------------------------------------------------------------
Inc == Function("inc", <<"x">>, << >>, << >>, Plus(x, one))
Id == Function("id", <<"x">>, << >>, << >>, x)
Apply == Function("ap", <<"h", "x">>, << >>, << >>, App(Var("h"), <<x>>))
Maker == Function("mk", <<"x">>, << >>, << >>, inc)
Calling(s) == Function("main", << >>, <<"x", "y">>, <<Set(x, s[1]), Set(x, s[2]), Set(y, s[3])>>, y)

Passed(e) == App(Var("id"), <<e>>)
Made == App(Var("mk"), <<one>>)
HigherOrder ==
    {ASTProgram(<<Inc, Id, Apply, Maker, Calling(s)>>) :
        s \in {inc, Passed(inc), Made} \X {x, Passed(x), Made}
              \X {App(x, <<one>>), App(Var("ap"), <<x, one>>), App(Var("ap"), <<inc, one>>), App(Passed(x), <<one>>),
                  App(Made, <<one>>), App(Var("ap"), <<Passed(inc), one>>)}}

\* A function without formals returns a function; one is passed in a pointer.
NotFollowed ==
    {ASTProgram(<<Inc, Function("mk", << >>, << >>, << >>, inc), Calling(<<App(Var("mk"), << >>), x, App(x, <<one>>)>>)>>),
     ASTProgram(<<Inc, Function("ap", <<"h">>, << >>, << >>, App(ASTDeRefExpr(Var("h")), <<one>>)),
                  Calling(<<ASTAllocExpr(inc), x, App(Var("ap"), <<x>>)>>)>>)}

-----------------------------------------------------------------------------
b == Var("b")
p == Var("p")
a == Var("a")
r == Var("r")
Record(e1, e2, e3) == RecordOf(<<"f", "g", "h">>, <<e1, e2, e3>>)

MCPrologue == <<Set(x, one), Set(b, ASTTrueExpr), Set(p, ASTRefExpr(x)), Set(a, ASTArrayExpr(<<x>>)),
                Set(r, Record(x, b, p))>>
Probe(s) == ASTProgram(<<Inc, Function("main", << >>, <<"x", "b", "p", "a", "r">>, Append(MCPrologue, s), x)>>)

Int == <<"int">>
Bool == <<"bool">>
Ref(t) == <<"ref", t>>

MCGamma ==
    [s \in {"x", "b", "p", "a", "r", "inc"} |->
        CASE s = "x" -> Int [] s = "b" -> Bool [] s = "p" -> Ref(Int) [] s = "a" -> <<"array", Int>>
          [] s = "r" -> <<"record", <<Int, Bool, Ref(Int)>>>>
          [] s = "inc" -> <<"function", <<Int>>, Int>>]

Atoms == {x, b, p, a, r, inc, ASTNullExpr, ASTArrayExpr(<< >>)}
Few == {x, b, p, ASTNullExpr}

Unary(e) ==
    {ASTNotExpr(e), ASTNegationExpr(e), ASTArrayLengthExpr(e), ASTDeRefExpr(e), ASTAllocExpr(e),
     ASTAccessExpr(e, "f"), ASTAccessExpr(e, "g"), App(e, << >>), App(e, <<x>>), App(e, <<x, x>>), App(inc, <<e>>)}
Binary(e, d) ==
    {ASTBinaryExpr(op, e, d) : op \in {"+", "<", "=="}}
    \cup {ASTAndExpr(e, d), ASTOrExpr(e, d), ASTArrayExpr(<<e, d>>), ASTOfArrayExpr(e, d),
          ASTElementRefrenceOperatorExpr(e, d)}
Exprs == Atoms \cup {ASTInputExpr, ASTFalseExpr, ASTRefExpr(b), ASTRefExpr(r)}
         \cup UNION {Unary(e) : e \in Atoms} \cup UNION {Binary(e, d) : e, d \in Atoms}
         \cup {ASTTernaryExpr(c, e, d) : c \in {x, b}, e, d \in Few}

Targets == {x, b, a, ASTDeRefExpr(p), ASTAccessExpr(r, "h"), ASTElementRefrenceOperatorExpr(a, x)}

Probes ==
    {Probe(Set(v, e)) : v \in {x, b, a}, e \in Exprs}
    \cup {Probe(Set(v, e)) : v \in Targets, e \in Atoms}
    \cup {Probe(Set(r, Record(e[1], e[2], e[3]))) : e \in Few \X Few \X Few}
    \cup UNION {{Probe(ASTWhileStmt(e, Set(x, one))), Probe(ASTIfStmt(e, <<Set(x, one), Set(b, b)>>)),
                 Probe(ASTOutputStmt(e)), Probe(ASTErrorStmt(e))} : e \in Atoms}
    \cup UNION {{Probe(ASTIncrementStmt(v)), Probe(ASTDecrementStmt(v))} : v \in Targets}
    \cup {Probe(ASTForIterStmt(v, e, ASTBlockStmt(<< >>))) : v \in Targets, e \in Atoms}
    \cup {Probe(ASTForRangeStmt(e[1], e[2], e[3], by, ASTBlockStmt(<< >>))) :
             e \in {x, b} \X {x, p} \X {x, a}, by \in {<< >>, <<x>>, <<b>>}}

-----------------------------------------------------------------------------
\* A function that uses its argument, one that passes it on, and a main
\* that uses what comes back.
n == Var("n")
Bodies == {n, Plus(n, one), ASTDeRefExpr(n), ASTAllocExpr(n), ASTAccessExpr(n, "f"), ASTAccessExpr(n, "g"),
           App(n, <<one>>), ASTElementRefrenceOperatorExpr(n, ASTNumberExpr("0"))}
Arguments == {one, ASTTrueExpr, ASTAllocExpr(one), ASTArrayExpr(<<one>>), Var("use"), Var("pass"),
              RecordOf(<<"f">>, <<one>>), RecordOf(<<"g">>, <<ASTAllocExpr(one)>>), Record(ASTAllocExpr(one), one, one)}
k == Var("k")
Uses == {k, Plus(k, one), ASTDeRefExpr(k), App(k, <<one>>), ASTAccessExpr(k, "f"), ASTBinaryExpr("==", k, k), ASTNotExpr(k)}

Use(body) == Function("use", <<"n">>, <<"k">>, <<Set(k, n)>>, body)
Pass == Function("pass", <<"n">>, << >>, << >>, App(Var("use"), <<n>>))
MainOf(arg, stmts) ==
    Function("main", << >>, <<"n", "k">>, <<Set(n, arg), Set(k, App(Var("pass"), <<n>>))>> \o stmts, one)
Compare(e) == ASTIfStmt(ASTBinaryExpr("==", e, e), <<ASTOutputStmt(one)>>)

\* What is written through one pointer is read through the other.
Pointers == {ASTAllocExpr(one), ASTAllocExpr(ASTTrueExpr), ASTAllocExpr(ASTAllocExpr(one)), ASTRefExpr(n)}
Write(e) == <<Set(ASTDeRefExpr(k), e), ASTOutputStmt(ASTDeRefExpr(n))>>

Inferred ==
    {ASTProgram(<<Use(body), Pass, MainOf(arg, <<Compare(e)>>)>>) : body \in Bodies, arg \in Arguments, e \in Uses}
    \cup {ASTProgram(<<Use(body), Pass, MainOf(arg, Write(e))>>) :
             body \in {n, ASTDeRefExpr(n), ASTAllocExpr(n)}, arg \in Pointers, e \in {one, ASTTrueExpr, n}}

SomePrograms == Clashing \cup WithFields \cup HigherOrder \cup NotFollowed \cup Probes \cup Inferred
=============================================================================
