----------------------------- MODULE TreeTypes -----------------------------
(***************************************************************************)
(* The node classes of src/src/frontend/ast/treetypes, each with its       *)
(* children in the order its accept() visits them.  Here the names a       *)
(* function or a var statement declares are children, ASTDeclNodes; the    *)
(* code generator never visits those, and its model keeps them as names.   *)
(***************************************************************************)
EXTENDS AST, Sequences

ASTProgram(functions) == Node("ASTProgram", << >>, functions)
ASTDeclNode(name) == Node("ASTDeclNode", <<name>>, << >>)
ASTFunction(decl, formals, declarations, stmts) ==
    Node("ASTFunction", << >>, <<decl>> \o formals \o declarations \o stmts)

\* Expressions
ASTNumberExpr(value) == Node("ASTNumberExpr", <<value>>, << >>)
ASTVariableExpr(name) == Node("ASTVariableExpr", <<name>>, << >>)
ASTInputExpr == Leaf("ASTInputExpr")
ASTNullExpr == Leaf("ASTNullExpr")
ASTTrueExpr == Leaf("ASTTrueExpr")
ASTFalseExpr == Leaf("ASTFalseExpr")
ASTBinaryExpr(op, left, right) == Node("ASTBinaryExpr", <<op>>, <<left, right>>)
ASTAndExpr(left, right) == Node("ASTAndExpr", << >>, <<left, right>>)
ASTOrExpr(left, right) == Node("ASTOrExpr", << >>, <<left, right>>)
ASTNotExpr(arg) == Node("ASTNotExpr", << >>, <<arg>>)
ASTNegationExpr(arg) == Node("ASTNegationExpr", << >>, <<arg>>)
ASTTernaryExpr(cond, then, else) == Node("ASTTernaryExpr", << >>, <<cond, then, else>>)
ASTFunAppExpr(function, actuals) == Node("ASTFunAppExpr", << >>, <<function>> \o actuals)
ASTAllocExpr(init) == Node("ASTAllocExpr", << >>, <<init>>)
ASTRefExpr(var) == Node("ASTRefExpr", << >>, <<var>>)
ASTDeRefExpr(ptr) == Node("ASTDeRefExpr", << >>, <<ptr>>)
ASTFieldExpr(field, init) == Node("ASTFieldExpr", <<field>>, <<init>>)
ASTRecordExpr(fields) == Node("ASTRecordExpr", << >>, fields)
ASTAccessExpr(record, field) == Node("ASTAccessExpr", <<field>>, <<record>>)
ASTArrayExpr(entries) == Node("ASTArrayExpr", << >>, entries)
ASTOfArrayExpr(left, right) == Node("ASTOfArrayExpr", << >>, <<left, right>>)
ASTElementRefrenceOperatorExpr(array, index) ==
    Node("ASTElementRefrenceOperatorExpr", << >>, <<array, index>>)
ASTArrayLengthExpr(array) == Node("ASTArrayLengthExpr", << >>, <<array>>)

\* Statements; an absent else branch or step is an absent child
ASTDeclStmt(vars) == Node("ASTDeclStmt", << >>, vars)
ASTAssignStmt(lhs, rhs) == Node("ASTAssignStmt", << >>, <<lhs, rhs>>)
ASTBlockStmt(stmts) == Node("ASTBlockStmt", << >>, stmts)
ASTWhileStmt(cond, body) == Node("ASTWhileStmt", << >>, <<cond, body>>)
ASTIfStmt(cond, branches) == Node("ASTIfStmt", << >>, <<cond>> \o branches)
ASTForIterStmt(left, right, body) == Node("ASTForIterStmt", << >>, <<left, right, body>>)
ASTForRangeStmt(one, two, three, four, body) ==
    Node("ASTForRangeStmt", << >>, <<one, two, three>> \o four \o <<body>>)
ASTIncrementStmt(arg) == Node("ASTIncrementStmt", << >>, <<arg>>)
ASTDecrementStmt(arg) == Node("ASTDecrementStmt", << >>, <<arg>>)
ASTOutputStmt(arg) == Node("ASTOutputStmt", << >>, <<arg>>)
ASTErrorStmt(arg) == Node("ASTErrorStmt", << >>, <<arg>>)
ASTReturnStmt(arg) == Node("ASTReturnStmt", << >>, <<arg>>)

-----------------------------------------------------------------------------
(* Selecting the children of a function.                                    *)

getFormals(f) == SelectSeq(Tail(f.kids), LAMBDA k : k.cls = "ASTDeclNode")
getDeclarations(f) == SelectSeq(f.kids, LAMBDA k : k.cls = "ASTDeclStmt")
getStmts(f) == SelectSeq(f.kids, LAMBDA k : k.cls \notin {"ASTDeclNode", "ASTDeclStmt"})
=============================================================================
