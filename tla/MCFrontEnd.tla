----------------------------- MODULE MCFrontEnd -----------------------------
(***************************************************************************)
(* Parse trees with every rule of the grammar that builds a node, operands *)
(* that differ, parentheses around some, and literals at the largest int   *)
(* and past it at several depths; statements within statements, with each  *)
(* of their optional parts there and absent.                               *)
(***************************************************************************)
EXTENDS FrontEnd, AST, TLC

Rule(r, kids) == Node(r, << >>, kids)
Op(r, op, e1, e2) == Node(r, <<op>>, <<e1, e2>>)
Var(x) == Node("varExpr", <<x>>, << >>)
Num(v) == Node("numExpr", <<ToString(v)>>, << >>)
Neg(v) == Node("negNumber", <<ToString(v)>>, << >>)
Paren(e) == Rule("parenExpr", <<e>>)
FieldOf(f, e) == Node("fieldExpr", <<f>>, <<e>>)
Stmt(s) == Rule("statement", <<s>>)
Declared(x) == Node("nameDeclaration", <<x>>, << >>)

x == Var("x")
y == Var("y")
z == Var("z")

Leaves == {x, Num(0), Num(IntMax), Neg(IntMax), Leaf("inputExpr"), Leaf("nullExpr"),
           Leaf("trueExpr"), Leaf("falseExpr"), Rule("arrayExpr", << >>),
           Rule("recordRule", <<Rule("recordExpr", << >>)>>)}

\* Every operator, over e and operands that differ from it.
Exprs(e) ==
    {Op("additiveExpr", op, e, y) : op \in {"ADD", "SUB"}}
    \cup {Op("multiplicativeExpr", op, y, e) : op \in {"MUL", "DIV", "MOD"}}
    \cup {Op("relationalExpr", op, e, y) : op \in {"GT", "GTE", "LT", "LTE"}}
    \cup {Op("equalityExpr", op, y, e) : op \in {"EQ", "NE"}}
    \cup {Rule(r, <<e, y>>) : r \in {"andExpr", "orExpr", "ofArrayExpr", "elementRefrenceOperatorExpr"}}
    \cup {Rule(r, <<e>>) : r \in {"notExpr", "negationExpr", "arrayLengthExpr", "deRefExpr",
                                  "refExpr", "allocExpr", "parenExpr"}}
    \cup {Rule("ternaryExpr", <<y, e, z>>), Rule("arrayExpr", <<y, e, z>>),
          Rule("funAppExpr", <<Var("f")>>), Rule("funAppExpr", <<Var("f"), e, y>>),
          Node("accessExpr", <<"g">>, <<e>>),
          Rule("recordRule", <<Rule("recordExpr", <<FieldOf("g", y), FieldOf("h", e)>>)>>)}

Assign(e1, e2) == Stmt(Rule("assignStmt", <<e1, e2>>))
Skip == Stmt(Rule("blockStmt", << >>))

Stmts(e) ==
    {Assign(e, y), Skip, Stmt(Rule("blockStmt", <<Assign(x, e), Assign(y, z)>>))}
    \cup {Stmt(Rule(r, <<e>>)) : r \in {"outputStmt", "errorStmt", "incrementStmt", "decrementStmt"}}
    \cup {Stmt(Rule(r, <<e, Assign(x, y)>>)) : r \in {"whileStmt", "ifStmt"}}
    \cup {Stmt(Rule("ifStmt", <<e, Assign(x, y), Assign(y, x)>>)),
          Stmt(Rule("forIterStmt", <<x, e, Assign(x, y)>>)),
          Stmt(Rule("forRangeStmt", <<x, y, e, Skip>>)),
          Stmt(Rule("forRangeStmt", <<x, y, z, e, Assign(x, y)>>))}

Function(name, formals, declarations, stmts, e) ==
    Rule("function", <<Declared(name)>> \o formals \o declarations \o stmts \o <<Rule("returnStmt", <<e>>)>>)

Main(e) == Function("main", << >>, << >>, << >>, e)

Declarations == <<Rule("declaration", <<Declared("x"), Declared("y")>>), Rule("declaration", <<Declared("z")>>)>>

Sum == Op("additiveExpr", "ADD", x, Num(0))

\* A prefix operator below the one applied to its result, which takes
\* parentheses, and above it.
Inner == {Paren(Rule("deRefExpr", <<x>>)), Paren(Sum),
          Node("accessExpr", <<"g">>, <<x>>), Rule("funAppExpr", <<x, Sum>>)}

Applied(e) ==
    {Rule("deRefExpr", <<e>>), Node("accessExpr", <<"h">>, <<e>>), Rule("funAppExpr", <<e, y>>),
     Rule("negationExpr", <<e>>), Rule("ofArrayExpr", <<e, y>>), Op("multiplicativeExpr", "MUL", e, z)}

Nested == Exprs(x) \cup UNION {Applied(e) : e \in Inner}

\* How a product with a sum would read without its brackets.
NoBrackets == {Op("additiveExpr", "ADD", x, Op("multiplicativeExpr", "MUL", Num(0), z))}

\* Compound statements with s in every place for a statement.
Around(s) ==
    {Stmt(Rule("blockStmt", <<Assign(y, x), s>>)),
     Stmt(Rule("whileStmt", <<x, s>>)), Stmt(Rule("ifStmt", <<x, s>>)),
     Stmt(Rule("ifStmt", <<x, s, Skip>>)), Stmt(Rule("ifStmt", <<x, Assign(y, z), s>>)),
     Stmt(Rule("forIterStmt", <<x, y, s>>)), Stmt(Rule("forRangeStmt", <<x, y, z, s>>)),
     Stmt(Rule("forRangeStmt", <<x, y, z, Num(2), s>>))}

NestedStmts == Around(Assign(x, y)) \cup UNION
    {Around(s) : s \in {Stmt(Rule("whileStmt", <<x, Skip>>)), Stmt(Rule("ifStmt", <<y, Skip, Skip>>))}}

Deep(e) == Rule("ternaryExpr", <<x, y, Op("additiveExpr", "SUB", Num(0), e)>>)

SomePrograms ==
    {Rule("program", <<Main(e)>>) : e \in Leaves \cup Nested \cup NoBrackets}
    \cup {Rule("program", <<Function("f", <<Declared("x"), Declared("y")>>, Declarations, <<s, Assign(x, y)>>, z),
                          Main(z)>>) : s \in Stmts(Deep(x)) \cup NestedStmts}
    \cup {Rule("program", <<Function("f", <<Declared("x")>>, << >>, <<Assign(x, e)>>, y), Main(Deep(e))>>) :
             e \in {Num(IntMax + 1), Neg(IntMax + 1)}}
    \cup {Rule("program", <<Main(y), Function("f", << >>, << >>, <<s>>, y)>>) :
             s \in Stmts(Deep(Neg(IntMax + 1)))}
=============================================================================
