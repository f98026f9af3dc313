------------------------------- MODULE Scopes -------------------------------
(***************************************************************************)
(* The queries of the symbol table that the passes after it make, over the *)
(* program itself: SymbolTable shows that the table answers them so.  A    *)
(* node is its path, a function the path of its ASTFunction.               *)
(***************************************************************************)
EXTENDS ASTVisitor, TreeTypes

LOCAL INSTANCE SequencesExt

VARIABLE program    \* the tree being analyzed, accepted by the symbol table

nullptr == << >>

Functions == {<<i>> : i \in DOMAIN program.kids}
FunctionAt(f) == program.kids[f[1]]
getDecl(f) == Append(f, 1)
getName(f) == FunctionAt(f).kids[1].names[1]

\* A child of the node a call of the traversal is about.
Kid(c, i) == [at |-> Append(c.at, i), node |-> c.node.kids[i]]

\* The argument of the last statement of a function.
ReturnArg(f) ==
    LET last == Len(FunctionAt(f).kids)
    IN Kid([at |-> <<f[1], last>>, node |-> FunctionAt(f).kids[last]], 1)

\* Formals follow the function's name, var statements the formals.
LocalDecls(f) ==
    LET ks == FunctionAt(f).kids
        At(cls) == {i \in 2..Len(ks) : ks[i].cls = cls}
    IN {<<f[1], i>> : i \in At("ASTDeclNode")}
       \cup UNION {{<<f[1], i, j>> : j \in DOMAIN ks[i].kids} : i \in At("ASTDeclStmt")}

DeclName(d) ==
    IF Len(d) = 2 THEN program.kids[d[1]].kids[d[2]].names[1]
    ELSE program.kids[d[1]].kids[d[2]].kids[d[3]].names[1]

Found(ds, s) == IF \E d \in ds : DeclName(d) = s THEN CHOOSE d \in ds : DeclName(d) = s ELSE nullptr
getLocal(s, decl) == Found(LocalDecls(<<decl[1]>>), s)
getFunction(s) == Found({getDecl(f) : f \in Functions}, s)

\* Every field that the program mentions.
RECURSIVE FieldsOf(_)
FieldsOf(n) ==
    (IF n.cls \in {"ASTFieldExpr", "ASTAccessExpr"} THEN {n.names[1]} ELSE {})
        \cup UNION {FieldsOf(n.kids[i]) : i \in DOMAIN n.kids}
getFields == SetToSeq(FieldsOf(program))
=============================================================================
