----------------------------- MODULE ASTBuilder -----------------------------
(***************************************************************************)
(* The translation of a parse tree into a syntax tree.  The handlers of    *)
(* the parse tree visitor return nothing: a handler leaves the node it     *)
(* made in one of six static registers, and its caller moves it out.  The  *)
(* registers belong to the process, so they outlive a build that throws.   *)
(*                                                                         *)
(* A handler is the list of the steps it takes: visit a child context,     *)
(* take a register into a local, make a node of the locals, throw.  A      *)
(* context has its rule label, its tokens and its child contexts.  The     *)
(* source locations, and the hash that names the program, are left out.    *)
(***************************************************************************)
EXTENDS AST, FiniteSets, Integers, Sequences, TLC

CONSTANTS
    Programs,   \* parse trees, contexts of the rule "program"
    IntMax,     \* the largest int; 2^31 - 1 in the program
    MaxBuilds   \* how many programs one process builds

VARIABLES
    source,     \* the programs built by this process, the last one in progress
    todo,       \* the steps left on the call stack, the next one first
    taken,      \* the locals of the handlers on the call stack, innermost first
    register,   \* the visited... globals
    built       \* what the builds returned

vars == <<source, todo, taken, register, built>>

Null == Leaf("nullptr")
OutOfRange == Leaf("std::out_of_range")

Registers == {"visitedStmt", "visitedDeclNode", "visitedDeclStmt", "visitedExpr",
              "visitedFieldExpr", "visitedFunction"}

-----------------------------------------------------------------------------
(* The steps of a handler.                                                  *)

Visit(ctx) == <<[op |-> "visit", ctx |-> ctx]>>
Take(r) == <<[op |-> "take", from |-> r]>>
Make(r, cls, names) == <<[op |-> "make", to |-> r, cls |-> cls, names |-> names]>>
Throw == <<[op |-> "throw"]>>
Leave == <<[op |-> "leave"]>>
Finish == <<[op |-> "finish"]>>

\* Visits the contexts one by one, moving r out after each.
Each(ctxs, r) ==
    [i \in 1..2 * Len(ctxs) |->
        IF i % 2 = 1 THEN Visit(ctxs[(i + 1) \div 2])[1] ELSE Take(r)[1]]

\* The accessors of the contexts the parser generates.
Rules == {"statement", "returnStmt", "declaration", "nameDeclaration", "fieldExpr", "function"}
rule(ctx, r) == SelectSeq(ctx.kids, LAMBDA k : k.cls = r)
expr(ctx) == SelectSeq(ctx.kids, LAMBDA k : k.cls \notin Rules)

-----------------------------------------------------------------------------
(* Expressions.                                                             *)

opString ==
    [MUL |-> "*", MOD |-> "%", DIV |-> "/", ADD |-> "+", SUB |-> "-", GT |-> ">",
     GTE |-> ">=", LT |-> "<", LTE |-> "<=", EQ |-> "==", NE |-> "!="]

\* std::stoi of a NUMBER, which is a sequence of digits
Parses(text) == \E v \in 0..IntMax : ToString(v) = text
stoi(text) == CHOOSE v \in 0..IntMax : ToString(v) = text

MakeExpr(ctx, cls) == Each(expr(ctx), "visitedExpr") \o Make("visitedExpr", cls, << >>)

BinaryExpr(ctx) ==
    Each(expr(ctx), "visitedExpr") \o Make("visitedExpr", "ASTBinaryExpr", <<opString[ctx.names[1]]>>)

visitAdditiveExpr(ctx) == BinaryExpr(ctx)
visitRelationalExpr(ctx) == BinaryExpr(ctx)
visitMultiplicativeExpr(ctx) == BinaryExpr(ctx)
visitEqualityExpr(ctx) == BinaryExpr(ctx)

visitNumExpr(ctx) ==
    IF Parses(ctx.names[1])
    THEN Make("visitedExpr", "ASTNumberExpr", <<ToString(stoi(ctx.names[1]))>>)
    ELSE Throw

visitNegNumber(ctx) ==
    IF Parses(ctx.names[1])
    THEN Make("visitedExpr", "ASTNumberExpr", <<ToString(-stoi(ctx.names[1]))>>)
    ELSE Throw

\* Leaves the register as the expression in the parentheses left it.
visitParenExpr(ctx) == Visit(expr(ctx)[1])

visitVarExpr(ctx) == Make("visitedExpr", "ASTVariableExpr", ctx.names)
visitInputExpr(ctx) == Make("visitedExpr", "ASTInputExpr", << >>)
visitNullExpr(ctx) == Make("visitedExpr", "ASTNullExpr", << >>)
visitTrueExpr(ctx) == Make("visitedExpr", "ASTTrueExpr", << >>)
visitFalseExpr(ctx) == Make("visitedExpr", "ASTFalseExpr", << >>)

visitFunAppExpr(ctx) == MakeExpr(ctx, "ASTFunAppExpr")
visitAllocExpr(ctx) == MakeExpr(ctx, "ASTAllocExpr")
visitRefExpr(ctx) == MakeExpr(ctx, "ASTRefExpr")
visitDeRefExpr(ctx) == MakeExpr(ctx, "ASTDeRefExpr")
visitArrayExpr(ctx) == MakeExpr(ctx, "ASTArrayExpr")
visitTernaryExpr(ctx) == MakeExpr(ctx, "ASTTernaryExpr")
visitElementRefrenceOperatorExpr(ctx) == MakeExpr(ctx, "ASTElementRefrenceOperatorExpr")
visitArrayLengthExpr(ctx) == MakeExpr(ctx, "ASTArrayLengthExpr")
visitAndExpr(ctx) == MakeExpr(ctx, "ASTAndExpr")
visitOrExpr(ctx) == MakeExpr(ctx, "ASTOrExpr")
visitNotExpr(ctx) == MakeExpr(ctx, "ASTNotExpr")
visitNegationExpr(ctx) == MakeExpr(ctx, "ASTNegationExpr")
visitOfArrayExpr(ctx) == MakeExpr(ctx, "ASTOfArrayExpr")

visitRecordExpr(ctx) ==
    Each(rule(ctx, "fieldExpr"), "visitedFieldExpr") \o Make("visitedExpr", "ASTRecordExpr", << >>)

visitFieldExpr_WrongRegister(ctx) ==  \* mutated form: the field in the register of expressions
    Each(expr(ctx), "visitedExpr") \o Make("visitedExpr", "ASTFieldExpr", ctx.names)

visitFieldExpr(ctx) ==
    Each(expr(ctx), "visitedExpr") \o Make("visitedFieldExpr", "ASTFieldExpr", ctx.names)

visitAccessExpr(ctx) ==
    Each(expr(ctx), "visitedExpr") \o Make("visitedExpr", "ASTAccessExpr", ctx.names)

-----------------------------------------------------------------------------
(* Statements.                                                              *)

MakeStmt(ctx, cls) ==
    Each(expr(ctx), "visitedExpr") \o Each(rule(ctx, "statement"), "visitedStmt")
        \o Make("visitedStmt", cls, << >>)

visitBlockStmt_TakesLast(ctx) ==  \* mutated form: only the last statement is moved out
    [i \in DOMAIN ctx.kids |-> Visit(ctx.kids[i])[1]]
        \o Take("visitedStmt") \o Make("visitedStmt", "ASTBlockStmt", << >>)

visitBlockStmt(ctx) == MakeStmt(ctx, "ASTBlockStmt")
visitWhileStmt(ctx) == MakeStmt(ctx, "ASTWhileStmt")
visitIfStmt(ctx) == MakeStmt(ctx, "ASTIfStmt")
visitOutputStmt(ctx) == MakeStmt(ctx, "ASTOutputStmt")
visitErrorStmt(ctx) == MakeStmt(ctx, "ASTErrorStmt")
visitReturnStmt(ctx) == MakeStmt(ctx, "ASTReturnStmt")
visitAssignStmt(ctx) == MakeStmt(ctx, "ASTAssignStmt")
visitIncrementStmt(ctx) == MakeStmt(ctx, "ASTIncrementStmt")
visitDecrementStmt(ctx) == MakeStmt(ctx, "ASTDecrementStmt")
visitForIterStmt(ctx) == MakeStmt(ctx, "ASTForIterStmt")
visitForRangeStmt(ctx) == MakeStmt(ctx, "ASTForRangeStmt")

visitNameDeclaration(ctx) == Make("visitedDeclNode", "ASTDeclNode", ctx.names)

visitDeclaration(ctx) ==
    Each(rule(ctx, "nameDeclaration"), "visitedDeclNode") \o Make("visitedDeclStmt", "ASTDeclStmt", << >>)

visitFunction(ctx) ==
    Each(rule(ctx, "nameDeclaration"), "visitedDeclNode")
        \o Each(rule(ctx, "declaration"), "visitedDeclStmt")
        \o Each(rule(ctx, "statement") \o rule(ctx, "returnStmt"), "visitedStmt")
        \o Make("visitedFunction", "ASTFunction", << >>)

\* A rule without a handler visits its children: statement, recordRule.
visitChildren(ctx) == Visit(ctx.kids[1])

visit(ctx) ==
    CASE ctx.cls = "additiveExpr" -> visitAdditiveExpr(ctx)
      [] ctx.cls = "relationalExpr" -> visitRelationalExpr(ctx)
      [] ctx.cls = "multiplicativeExpr" -> visitMultiplicativeExpr(ctx)
      [] ctx.cls = "equalityExpr" -> visitEqualityExpr(ctx)
      [] ctx.cls = "numExpr" -> visitNumExpr(ctx)
      [] ctx.cls = "negNumber" -> visitNegNumber(ctx)
      [] ctx.cls = "parenExpr" -> visitParenExpr(ctx)
      [] ctx.cls = "varExpr" -> visitVarExpr(ctx)
      [] ctx.cls = "inputExpr" -> visitInputExpr(ctx)
      [] ctx.cls = "nullExpr" -> visitNullExpr(ctx)
      [] ctx.cls = "trueExpr" -> visitTrueExpr(ctx)
      [] ctx.cls = "falseExpr" -> visitFalseExpr(ctx)
      [] ctx.cls = "funAppExpr" -> visitFunAppExpr(ctx)
      [] ctx.cls = "allocExpr" -> visitAllocExpr(ctx)
      [] ctx.cls = "refExpr" -> visitRefExpr(ctx)
      [] ctx.cls = "deRefExpr" -> visitDeRefExpr(ctx)
      [] ctx.cls = "arrayExpr" -> visitArrayExpr(ctx)
      [] ctx.cls = "ternaryExpr" -> visitTernaryExpr(ctx)
      [] ctx.cls = "elementRefrenceOperatorExpr" -> visitElementRefrenceOperatorExpr(ctx)
      [] ctx.cls = "arrayLengthExpr" -> visitArrayLengthExpr(ctx)
      [] ctx.cls = "andExpr" -> visitAndExpr(ctx)
      [] ctx.cls = "orExpr" -> visitOrExpr(ctx)
      [] ctx.cls = "notExpr" -> visitNotExpr(ctx)
      [] ctx.cls = "negationExpr" -> visitNegationExpr(ctx)
      [] ctx.cls = "ofArrayExpr" -> visitOfArrayExpr(ctx)
      [] ctx.cls = "recordExpr" -> visitRecordExpr(ctx)
      [] ctx.cls = "fieldExpr" -> visitFieldExpr(ctx)
      [] ctx.cls = "accessExpr" -> visitAccessExpr(ctx)
      [] ctx.cls = "blockStmt" -> visitBlockStmt(ctx)
      [] ctx.cls = "whileStmt" -> visitWhileStmt(ctx)
      [] ctx.cls = "ifStmt" -> visitIfStmt(ctx)
      [] ctx.cls = "outputStmt" -> visitOutputStmt(ctx)
      [] ctx.cls = "errorStmt" -> visitErrorStmt(ctx)
      [] ctx.cls = "returnStmt" -> visitReturnStmt(ctx)
      [] ctx.cls = "assignStmt" -> visitAssignStmt(ctx)
      [] ctx.cls = "incrementStmt" -> visitIncrementStmt(ctx)
      [] ctx.cls = "decrementStmt" -> visitDecrementStmt(ctx)
      [] ctx.cls = "forIterStmt" -> visitForIterStmt(ctx)
      [] ctx.cls = "forRangeStmt" -> visitForRangeStmt(ctx)
      [] ctx.cls = "nameDeclaration" -> visitNameDeclaration(ctx)
      [] ctx.cls = "declaration" -> visitDeclaration(ctx)
      [] ctx.cls = "function" -> visitFunction(ctx)
      [] OTHER -> visitChildren(ctx)

-----------------------------------------------------------------------------
Init ==
    /\ source = << >>
    /\ todo = << >>
    /\ taken = << >>
    /\ register = [r \in Registers |-> Null]
    /\ built = << >>

build ==
    /\ todo = << >>
    /\ Len(source) < MaxBuilds
    /\ \E p \in Programs :
          /\ source' = Append(source, p)
          /\ todo' = Each(rule(p, "function"), "visitedFunction") \o Finish
    /\ taken' = <<<< >>>>
    /\ UNCHANGED <<register, built>>

Next_(op) == todo # << >> /\ Head(todo).op = op

VisitContext ==
    /\ Next_("visit")
    /\ todo' = visit(Head(todo).ctx) \o Leave \o Tail(todo)
    /\ taken' = <<<< >>>> \o taken
    /\ UNCHANGED <<source, register, built>>

TakeRegister ==
    /\ Next_("take")
    /\ LET r == Head(todo).from
       IN /\ taken' = [taken EXCEPT ![1] = Append(@, register[r])]
          /\ register' = [register EXCEPT ![r] = Null]
    /\ todo' = Tail(todo)
    /\ UNCHANGED <<source, built>>

MakeNode ==
    /\ Next_("make")
    /\ LET s == Head(todo)
       IN register' = [register EXCEPT ![s.to] = Node(s.cls, s.names, taken[1])]
    /\ taken' = [taken EXCEPT ![1] = << >>]
    /\ todo' = Tail(todo)
    /\ UNCHANGED <<source, built>>

LeaveHandler ==
    /\ Next_("leave")
    /\ taken' = Tail(taken)
    /\ todo' = Tail(todo)
    /\ UNCHANGED <<source, register, built>>

FinishBuild ==
    /\ Next_("finish")
    /\ built' = Append(built, Node("ASTProgram", << >>, taken[1]))
    /\ taken' = << >>
    /\ todo' = << >>
    /\ UNCHANGED <<source, register>>

\* No handler catches: the locals die with the call stack, the globals stay.
ThrowException ==
    /\ Next_("throw")
    /\ built' = Append(built, OutOfRange)
    /\ taken' = << >>
    /\ todo' = << >>
    /\ UNCHANGED <<source, register>>

Next == build \/ VisitContext \/ TakeRegister \/ MakeNode \/ LeaveHandler \/ FinishBuild \/ ThrowException

Spec == Init /\ [][Next]_vars
-----------------------------------------------------------------------------
(* What build() promises: the syntax tree has the shape of the parse tree,  *)
(* without the contexts that only group, and every literal has its value.   *)

Grouping == {"parenExpr", "recordRule", "statement"}

Class ==
    [additiveExpr |-> "ASTBinaryExpr", relationalExpr |-> "ASTBinaryExpr",
     multiplicativeExpr |-> "ASTBinaryExpr", equalityExpr |-> "ASTBinaryExpr",
     numExpr |-> "ASTNumberExpr", negNumber |-> "ASTNumberExpr", varExpr |-> "ASTVariableExpr",
     inputExpr |-> "ASTInputExpr", nullExpr |-> "ASTNullExpr", trueExpr |-> "ASTTrueExpr",
     falseExpr |-> "ASTFalseExpr", funAppExpr |-> "ASTFunAppExpr", allocExpr |-> "ASTAllocExpr",
     refExpr |-> "ASTRefExpr", deRefExpr |-> "ASTDeRefExpr", arrayExpr |-> "ASTArrayExpr",
     ternaryExpr |-> "ASTTernaryExpr", arrayLengthExpr |-> "ASTArrayLengthExpr",
     elementRefrenceOperatorExpr |-> "ASTElementRefrenceOperatorExpr", andExpr |-> "ASTAndExpr",
     orExpr |-> "ASTOrExpr", notExpr |-> "ASTNotExpr", negationExpr |-> "ASTNegationExpr",
     ofArrayExpr |-> "ASTOfArrayExpr", recordExpr |-> "ASTRecordExpr", fieldExpr |-> "ASTFieldExpr",
     accessExpr |-> "ASTAccessExpr", blockStmt |-> "ASTBlockStmt", whileStmt |-> "ASTWhileStmt",
     ifStmt |-> "ASTIfStmt", outputStmt |-> "ASTOutputStmt", errorStmt |-> "ASTErrorStmt",
     returnStmt |-> "ASTReturnStmt", assignStmt |-> "ASTAssignStmt",
     incrementStmt |-> "ASTIncrementStmt", decrementStmt |-> "ASTDecrementStmt",
     forIterStmt |-> "ASTForIterStmt", forRangeStmt |-> "ASTForRangeStmt",
     nameDeclaration |-> "ASTDeclNode", declaration |-> "ASTDeclStmt", function |-> "ASTFunction",
     program |-> "ASTProgram"]

Names(ctx) ==
    CASE Class[ctx.cls] = "ASTBinaryExpr" -> <<opString[ctx.names[1]]>>
      [] ctx.cls = "negNumber" -> <<ToString(-stoi(ctx.names[1]))>>
      [] OTHER -> ctx.names

RECURSIVE Translation(_)
Translation(ctx) ==
    IF ctx.cls \in Grouping THEN Translation(ctx.kids[1])
    ELSE Node(Class[ctx.cls], Names(ctx), [i \in DOMAIN ctx.kids |-> Translation(ctx.kids[i])])

RECURSIVE Overflows(_)
Overflows(ctx) ==
    \/ ctx.cls \in {"numExpr", "negNumber"} /\ ~Parses(ctx.names[1])
    \/ \E i \in DOMAIN ctx.kids : Overflows(ctx.kids[i])

Failed == OutOfRange \in {built[i] : i \in DOMAIN built}

(* A program is built into the tree of its parse tree, or not at all when a *)
(* literal in it is no int, whatever was built, or failed, before it: the   *)
(* globals a thrown exception leaves behind reach no later tree.            *)
BuiltIsTranslation ==
    \A i \in DOMAIN built :
        built[i] = IF Overflows(source[i]) THEN OutOfRange ELSE Translation(source[i])

=============================================================================
