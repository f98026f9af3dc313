------------------------------ MODULE MCCodeGen ------------------------------
(***************************************************************************)
(* Programs to compile: a function f and a main with one statement, built  *)
(* from expressions by type, so that type inference accepts them.  Names   *)
(* have fixed types: n is an int, b a bool, p a pointer to an int, r and q *)
(* a record and a pointer to one, a, ap and aa arrays of ints, of pointers *)
(* and of arrays.                                                          *)
(***************************************************************************)
EXTENDS CodeGen

CA == INSTANCE CheckAssignable

Arguments == <<"arg1", "arg2">>

n == Variable("n")
b == Variable("b")
p == Variable("p")
r == Variable("r")
q == Variable("q")
a == Variable("a")
ap == Variable("ap")
aa == Variable("aa")
f == Variable("f")
one == Leaf("ASTNumberExpr")

Unary(cls, e) == Node(cls, << >>, <<e>>)
Binary(op, e1, e2) == Node("ASTBinaryExpr", <<op>>, <<e1, e2>>)
Deref(e) == Unary("ASTDeRefExpr", e)
Ref(e) == Unary("ASTRefExpr", e)
Alloc(e) == Unary("ASTAllocExpr", e)
Field(e) == Node("ASTAccessExpr", <<"g">>, <<e>>)
Record(e) == Node("ASTRecordExpr", <<"g">>, <<e>>)
Element(e, i) == Node("ASTElementRefrenceOperatorExpr", << >>, <<e, i>>)
Array(s) == Node("ASTArrayExpr", << >>, s)
OfArray(k, e) == Node("ASTOfArrayExpr", << >>, <<k, e>>)
Call(e) == Node("ASTFunAppExpr", << >>, <<f, e>>)
Ternary(c, e1, e2) == Node("ASTTernaryExpr", << >>, <<c, e1, e2>>)
Assign_(l, e) == Node("ASTAssignStmt", << >>, <<l, e>>)
Stmt(cls, kids) == Node(cls, << >>, kids)

Less(e) == Binary("<", e, one)
Conditions ==
    {b, Leaf("ASTTrueExpr"), Less(n), Less(Element(a, n)), Unary("ASTNotExpr", Less(n)),
     Node("ASTAndExpr", << >>, <<b, Less(n)>>), Node("ASTOrExpr", << >>, <<b, Less(n)>>)}

\* int expressions that use e
Using(e) ==
    {Binary("+", n, e), Unary("ASTNegationExpr", e), Element(a, e), Call(e),
     Element(Element(aa, e), n), Deref(Element(ap, e)), Ternary(b, e, n),
     Ternary(Less(e), n, one)}

Ints ==
    {n, one, Leaf("ASTInputExpr"), Deref(p), Field(r), Field(Deref(q)),
     Unary("ASTArrayLengthExpr", a)} \cup Using(n)

\* What code is generated for as an address, and two that weeding rejects.
Targets ==
    {n, Deref(p), Field(r), Field(Deref(q)), Deref(Element(ap, n)), one, Field(Record(n))}
    \cup {Element(a, i) : i \in Ints} \cup {Element(Element(aa, n), i) : i \in Using(n)}

Assignments ==
    {Assign_(l, e) : l \in Targets, e \in {one, Element(a, n)}}
    \cup {Assign_(n, e) : e \in UNION {Using(i) : i \in Ints}}
    \cup {Assign_(p, Ref(l)) : l \in Targets}
    \cup {Assign_(p, Alloc(i)) : i \in Ints} \cup {Assign_(p, Leaf("ASTNullExpr"))}
    \cup {Assign_(b, Unary("ASTNotExpr", c)) : c \in Conditions}
    \cup {Assign_(q, Alloc(Record(i))) : i \in Ints}
    \cup {Assign_(r, Record(i)) : i \in Ints \cup {Deref(Alloc(n)), Field(Deref(Alloc(Record(n))))}}
    \cup {Assign_(a, Array(<<i, n>>)) : i \in Ints}
    \cup {Assign_(a, OfArray(i, j)) : i \in {n, Element(a, n)}, j \in Ints}
    \cup {Assign_(a, Array(<< >>)), Assign_(aa, OfArray(n, OfArray(n, Element(a, n))))}

Updates == {Stmt(cls, <<l>>) : cls \in {"ASTIncrementStmt", "ASTDecrementStmt"}, l \in Targets}

Simple == {Assign_(Element(a, n), Element(a, one)), Assign_(r, Record(n)), Stmt("ASTBlockStmt", << >>)}

Loops(s) ==
    {Stmt("ASTWhileStmt", <<c, s>>) : c \in Conditions}
    \cup {Stmt("ASTIfStmt", <<c, s>>) : c \in Conditions}
    \cup {Stmt("ASTIfStmt", <<c, s, Assign_(n, one)>>) : c \in Conditions}
    \cup {Stmt("ASTForIterStmt", <<l, e, s>>) : l \in {n, Field(r)}, e \in {a, Element(aa, n)}}
    \cup {Stmt("ASTForRangeStmt", <<n, i, Element(a, n), s>>) : i \in {n, Element(a, n)}}
    \cup {Stmt("ASTForRangeStmt", <<n, one, one, i, s>>) : i \in {n, Element(a, n)}}
    \cup {Stmt("ASTBlockStmt", <<s, Assign_(n, one)>>)}

Inner == UNION {Loops(s) : s \in Simple}
Nested ==
    UNION {{Stmt("ASTWhileStmt", <<Less(n), s>>), Stmt("ASTForIterStmt", <<n, a, s>>)} : s \in Inner}

Return(e) == Stmt("ASTReturnStmt", <<e>>)
F(e) == Node("ASTFunction", <<"f", "x">>, <<Return(e)>>)
Main(s) ==
    Node("ASTFunction", <<"main">>,
         <<Node("ASTDeclStmt", <<"n", "b", "p", "r", "q", "a", "ap", "aa", "ba", "bp", "fp", "fa">>, << >>), s, Return(n)>>)
ProgramWith(e, s) == Stmt("ASTProgram", <<F(e), Main(s)>>)
Program(s) == ProgramWith(Variable("x"), s)

Checked(S) == {g \in S : CA!check(g)}
Accepted(S) == Checked({Program(s) : s \in S})

\* The value of a comparison is kept, passed and returned as any bool.
ComparisonPrograms ==
    Accepted({Assign_(b, c) : c \in Conditions}
             \cup {Assign_(b, Call(c)) : c \in Conditions}
             \cup {Assign_(b, Ternary(c, Less(n), e)) : c \in {b, Less(n)}, e \in Conditions}
             \cup {Assign_(b, Binary("==", Less(n), e)) : e \in Conditions}
             \cup {Assign_(b, Binary("==", b, Ternary(b, Less(n), Less(one))))}
             \cup {Assign_(l, Less(n)) : l \in {Element(Variable("ba"), n), Deref(Variable("bp"))}})
    \cup Checked({ProgramWith(Less(Variable("x")), Assign_(b, Call(n)))})

\* Addresses of every kind of variable there is, and of a function.
AddressPrograms ==
    Accepted({Assign_(Variable("fp"), Ref(l)) : l \in {n, r, f}}
             \cup {Assign_(f, f), Stmt("ASTForIterStmt", <<f, Variable("fa"), Assign_(n, one)>>)})

\* Records of two fields under an alloc.
Record2(e1, e2) == Node("ASTRecordExpr", <<"g", "h">>, <<e1, e2>>)
AllocPrograms ==
    Accepted({Assign_(q, Alloc(Record2(e1, e2))) :
                 e1 \in {Alloc(n), Record(n), n}, e2 \in {Alloc(n), Record(n), n}})

CorePrograms ==
    Accepted(Assignments \cup Updates \cup Inner \cup Nested
             \cup {Stmt("ASTBlockStmt", <<Assign_(p, Alloc(n)), Assign_(r, Record(n))>>)}
             \cup {Stmt(cls, <<i>>) : cls \in {"ASTOutputStmt", "ASTErrorStmt"}, i \in Ints})
    \cup ComparisonPrograms \cup AddressPrograms \cup AllocPrograms

CoreNodes == UNION {CA!Subtrees(g) : g \in CorePrograms}
=============================================================================
