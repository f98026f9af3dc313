--------------------------- MODULE TypeConstraints ---------------------------
(***************************************************************************)
(* Type inference: TypeConstraintVisitor collects an equation for every    *)
(* node that has a type, the solver unifies them, and AbsentFieldChecker   *)
(* looks for an access to a field that the solution makes absent.          *)
(*                                                                         *)
(* Unifier and its proofs show what the solver does on its forest; here it *)
(* is one step.                                                            *)
(***************************************************************************)
EXTENDS Scopes, TipTypes, FiniteSets

VARIABLES
    pass,         \* the visitor that is running, or how the check ended
    todo,         \* the rest of its traversal
    scope,        \* the stack of function declarations, which nothing pops
    constraints,  \* ConstraintCollector::collected
    edges         \* the solution: the union-find forest, parent of every term

vars == <<program, pass, todo, scope, constraints, edges>>

This == Head(todo)
Go == todo' = (IF Calls(todo, "visit") THEN Children(This) ELSE << >>) \o Tail(todo)

-----------------------------------------------------------------------------
(* The visitor.  A name has the type of its declaration.                    *)

astToVar(c) ==
    IF c.node.cls # "ASTVariableExpr" THEN TipVar(c.at)
    ELSE LET local == getLocal(c.node.names[1], Head(scope))
             function == getFunction(c.node.names[1])
         IN CASE local # nullptr -> TipVar(local)
              [] local = nullptr /\ function # nullptr -> TipVar(function)
              [] OTHER -> TipVar(c.at)

Child(c, i) == astToVar(Kid(c, i))

handle(eqs) == constraints' = constraints \o eqs

visitFunction_Below(c) == scope' = Append(scope, getDecl(c.at))  \* mutated form: the first function stays on top

visitFunction(c) == scope' = <<getDecl(c.at)>> \o scope

\* The formals of main and its result are integers.
endVisitFunction(c) ==
    LET formals == [i \in DOMAIN getFormals(c.node) |-> Child(c, i + 1)]
        ret == astToVar(ReturnArg(c.at))
        main == getName(c.at) = "main"
    IN /\ c.node.cls = "ASTFunction"
       /\ handle((IF main THEN [i \in DOMAIN formals |-> Equation(formals[i], TipInt)]
                                 \o <<Equation(ret, TipInt)>> ELSE << >>)
                 \o <<Equation(Child(c, 1), TipFunction(formals, ret))>>)

\* An operation with a result of one type and all operands of another.
Operation(c, result, operand) ==
    handle(<<Equation(astToVar(c), result)>>
           \o [i \in DOMAIN c.node.kids |-> Equation(Child(c, i), operand)])

endVisitNumberExpr(c) == c.node.cls = "ASTNumberExpr" /\ Operation(c, TipInt, TipInt)
endVisitInputExpr(c) == c.node.cls = "ASTInputExpr" /\ Operation(c, TipInt, TipInt)
endVisitTrueExpr(c) == c.node.cls = "ASTTrueExpr" /\ Operation(c, TipBool, TipBool)
endVisitFalseExpr(c) == c.node.cls = "ASTFalseExpr" /\ Operation(c, TipBool, TipBool)
endVisitNotExpr(c) == c.node.cls = "ASTNotExpr" /\ Operation(c, TipBool, TipBool)
endVisitAndExpr(c) == c.node.cls = "ASTAndExpr" /\ Operation(c, TipBool, TipBool)
endVisitOrExpr(c) == c.node.cls = "ASTOrExpr" /\ Operation(c, TipBool, TipBool)
endVisitNegationExpr(c) == c.node.cls = "ASTNegationExpr" /\ Operation(c, TipInt, TipInt)

endVisitBinaryExpr(c) ==
    /\ c.node.cls = "ASTBinaryExpr"
    /\ \/ c.node.names[1] \in {">", ">=", "<", "<="} /\ Operation(c, TipBool, TipInt)
       \/ c.node.names[1] \notin {">", ">=", "<", "<=", "==", "!="} /\ Operation(c, TipInt, TipInt)
       \/ /\ c.node.names[1] \in {"==", "!="}
          /\ handle(<<Equation(astToVar(c), TipBool), Equation(Child(c, 1), Child(c, 2))>>)

endVisitFunAppExpr(c) ==
    /\ c.node.cls = "ASTFunAppExpr"
    /\ LET actuals == [i \in 1..Len(c.node.kids) - 1 |-> Child(c, i + 1)]
       IN handle(<<Equation(Child(c, 1), TipFunction(actuals, astToVar(c)))>>)

endVisitAllocExpr(c) ==
    c.node.cls = "ASTAllocExpr" /\ handle(<<Equation(astToVar(c), TipRef(Child(c, 1)))>>)
endVisitRefExpr(c) ==
    c.node.cls = "ASTRefExpr" /\ handle(<<Equation(astToVar(c), TipRef(Child(c, 1)))>>)
endVisitDeRefExpr(c) ==
    c.node.cls = "ASTDeRefExpr" /\ handle(<<Equation(Child(c, 1), TipRef(astToVar(c)))>>)
endVisitNullExpr(c) ==
    c.node.cls = "ASTNullExpr" /\ handle(<<Equation(astToVar(c), TipRef(TipAlpha(c.at, "")))>>)

\* Every record has all the fields of the program, in one order.
endVisitRecordExpr(c) ==
    LET k == c.node.kids
        Field(f) ==
            IF \A i \in DOMAIN k : k[i].names[1] # f THEN TipAbsentField
            ELSE Child(Kid(c, CHOOSE i \in DOMAIN k : /\ k[i].names[1] = f
                                                      /\ \A j \in 1..i - 1 : k[j].names[1] # f), 1)
    IN /\ c.node.cls = "ASTRecordExpr"
       /\ handle(<<Equation(astToVar(c), TipRecord([i \in DOMAIN getFields |-> Field(getFields[i])]))>>)

endVisitAccessExpr_OneAlpha(c) ==  \* mutated form: the other fields share a free variable
    LET Field(f) == IF f = c.node.names[1] THEN astToVar(c) ELSE TipAlpha(c.at, "")
    IN /\ c.node.cls = "ASTAccessExpr"
       /\ handle(<<Equation(Child(c, 1), TipRecord([i \in DOMAIN getFields |-> Field(getFields[i])]))>>)

endVisitAccessExpr(c) ==
    LET Field(f) == IF f = c.node.names[1] THEN astToVar(c) ELSE TipAlpha(c.at, f)
    IN /\ c.node.cls = "ASTAccessExpr"
       /\ handle(<<Equation(Child(c, 1), TipRecord([i \in DOMAIN getFields |-> Field(getFields[i])]))>>)

endVisitTernaryExpr(c) ==
    /\ c.node.cls = "ASTTernaryExpr"
    /\ handle(<<Equation(astToVar(c), Child(c, 2)), Equation(Child(c, 1), TipBool),
                Equation(Child(c, 2), Child(c, 2)), Equation(Child(c, 3), Child(c, 2))>>)

endVisitOfArrayExpr(c) ==
    /\ c.node.cls = "ASTOfArrayExpr"
    /\ handle(<<Equation(astToVar(c), TipArray(Child(c, 2))), Equation(Child(c, 1), TipInt),
                Equation(Child(c, 2), TipAlpha(c.at, ""))>>)

endVisitArrayExpr(c) ==
    /\ c.node.cls = "ASTArrayExpr"
    /\ \/ /\ c.node.kids = << >>
          /\ handle(<<Equation(astToVar(c), TipArray(TipAlpha(c.at, "")))>>)
       \/ /\ c.node.kids # << >>
          /\ handle([i \in DOMAIN c.node.kids |-> Equation(Child(c, i), Child(c, 1))]
                    \o <<Equation(astToVar(c), TipArray(Child(c, 1)))>>)

endVisitElementRefrenceOperatorExpr(c) ==
    /\ c.node.cls = "ASTElementRefrenceOperatorExpr"
    /\ handle(<<Equation(Child(c, 1), TipArray(astToVar(c))), Equation(Child(c, 2), TipInt)>>)

endVisitArrayLengthExpr(c) ==
    /\ c.node.cls = "ASTArrayLengthExpr"
    /\ handle(<<Equation(astToVar(c), TipInt), Equation(Child(c, 1), TipArray(TipAlpha(c.at, "")))>>)

\* An assignment through a pointer is about the pointer.
endVisitAssignStmt(c) ==
    /\ c.node.cls = "ASTAssignStmt"
    /\ IF c.node.kids[1].cls = "ASTDeRefExpr"
       THEN handle(<<Equation(Child(Kid(c, 1), 1), TipRef(Child(c, 2)))>>)
       ELSE handle(<<Equation(Child(c, 1), Child(c, 2))>>)

endVisitWhileStmt(c) == c.node.cls = "ASTWhileStmt" /\ handle(<<Equation(Child(c, 1), TipBool)>>)
endVisitIfStmt(c) == c.node.cls = "ASTIfStmt" /\ handle(<<Equation(Child(c, 1), TipBool)>>)
endVisitOutputStmt(c) == c.node.cls = "ASTOutputStmt" /\ handle(<<Equation(Child(c, 1), TipInt)>>)
endVisitErrorStmt(c) == c.node.cls = "ASTErrorStmt" /\ handle(<<Equation(Child(c, 1), TipInt)>>)
endVisitIncrementStmt(c) == c.node.cls = "ASTIncrementStmt" /\ handle(<<Equation(Child(c, 1), TipInt)>>)
endVisitDecrementStmt(c) == c.node.cls = "ASTDecrementStmt" /\ handle(<<Equation(Child(c, 1), TipInt)>>)

endVisitForIterStmt(c) ==
    /\ c.node.cls = "ASTForIterStmt"
    /\ handle(<<Equation(Child(c, 1), TipAlpha(c.at, "")),
                Equation(Child(c, 2), TipArray(TipAlpha(c.at, "")))>>)

\* The last child is the body.
endVisitForRangeStmt(c) ==
    /\ c.node.cls = "ASTForRangeStmt"
    /\ handle([i \in 1..Len(c.node.kids) - 1 |-> Equation(Child(c, i), TipInt)])

\* The nodes without a type of their own.
Untyped == {"ASTProgram", "ASTDeclNode", "ASTDeclStmt", "ASTVariableExpr", "ASTFieldExpr",
            "ASTBlockStmt", "ASTReturnStmt"}

-----------------------------------------------------------------------------
(* The traversal.                                                           *)

visit ==
    /\ pass = "TypeConstraintVisitor" /\ Calls(todo, "visit")
    /\ IF This.node.cls = "ASTFunction" THEN visitFunction(This) ELSE UNCHANGED scope
    /\ Go
    /\ UNCHANGED <<program, pass, constraints, edges>>

endVisit ==
    /\ pass = "TypeConstraintVisitor" /\ Calls(todo, "endVisit")
    /\ LET c == This IN
       \/ endVisitFunction(c)
       \/ endVisitNumberExpr(c) \/ endVisitInputExpr(c) \/ endVisitTrueExpr(c) \/ endVisitFalseExpr(c)
       \/ endVisitNotExpr(c) \/ endVisitAndExpr(c) \/ endVisitOrExpr(c) \/ endVisitNegationExpr(c)
       \/ endVisitBinaryExpr(c) \/ endVisitFunAppExpr(c) \/ endVisitAllocExpr(c) \/ endVisitRefExpr(c)
       \/ endVisitDeRefExpr(c) \/ endVisitNullExpr(c) \/ endVisitRecordExpr(c) \/ endVisitAccessExpr(c)
       \/ endVisitTernaryExpr(c) \/ endVisitOfArrayExpr(c) \/ endVisitArrayExpr(c)
       \/ endVisitElementRefrenceOperatorExpr(c) \/ endVisitArrayLengthExpr(c)
       \/ endVisitAssignStmt(c) \/ endVisitWhileStmt(c) \/ endVisitIfStmt(c) \/ endVisitOutputStmt(c)
       \/ endVisitErrorStmt(c) \/ endVisitIncrementStmt(c) \/ endVisitDecrementStmt(c)
       \/ endVisitForIterStmt(c) \/ endVisitForRangeStmt(c)
       \/ c.node.cls \in Untyped /\ UNCHANGED constraints
    /\ Go
    /\ UNCHANGED <<program, pass, scope, edges>>

-----------------------------------------------------------------------------
(* Solving the equations: unify the terms of one after the other, and the   *)
(* arguments of two matching constructors right after them.                 *)

RECURSIVE Subterms(_)
Subterms(t) == {t} \cup UNION {Subterms(t.args[i]) : i \in DOMAIN t.args}

Terms == UNION {Subterms(constraints[i].lhs) \cup Subterms(constraints[i].rhs) : i \in DOMAIN constraints}

NoSolution == << >>

RECURSIVE find(_, _)
find(uf, t) == IF uf[t] = t THEN t ELSE find(uf, uf[t])
quick_union(uf, t, u) == [uf EXCEPT ![t] = u]

RECURSIVE unify(_, _)
unify(eqs, uf) ==
    IF eqs = << >> THEN uf
    ELSE LET rep1 == find(uf, Head(eqs).lhs)
             rep2 == find(uf, Head(eqs).rhs)
         IN CASE rep1 = rep2 -> unify(Tail(eqs), uf)
              [] rep1 # rep2 /\ isVar(rep1) -> unify(Tail(eqs), quick_union(uf, rep1, rep2))
              [] rep1 # rep2 /\ ~isVar(rep1) /\ isVar(rep2) -> unify(Tail(eqs), quick_union(uf, rep2, rep1))
              [] rep1 # rep2 /\ ~isVar(rep1) /\ ~isVar(rep2) ->
                    IF ~doMatch(rep1, rep2) THEN NoSolution
                    ELSE unify([i \in DOMAIN rep1.args |-> Equation(rep1.args[i], rep2.args[i])]
                               \o Tail(eqs), quick_union(uf, rep1, rep2))

solve ==
    /\ pass = "TypeConstraintVisitor" /\ todo = << >>
    /\ edges' = unify(constraints, [t \in Terms |-> t])
    /\ IF edges' = NoSolution THEN pass' = "UnificationError" /\ UNCHANGED todo
       ELSE pass' = "AbsentFieldChecker" /\ todo' = accept(program)
    /\ UNCHANGED <<program, scope, constraints>>

AbsentFieldVisit_Passes ==  \* mutated form: an absent field is no error
    /\ pass = "AbsentFieldChecker" /\ todo # << >>
    /\ Go
    /\ UNCHANGED <<program, pass, scope, constraints, edges>>

\* Of an inferred type only the outermost constructor matters here.
AbsentFieldVisit ==
    /\ pass = "AbsentFieldChecker" /\ todo # << >>
    /\ IF /\ This.call = "endVisit" /\ This.node.cls = "ASTAccessExpr"
          /\ find(edges, TipVar(This.at)) = TipAbsentField
       THEN pass' = "SemanticError" /\ todo' = << >>
       ELSE Go /\ UNCHANGED pass
    /\ UNCHANGED <<program, scope, constraints, edges>>

check ==
    /\ pass = "AbsentFieldChecker" /\ todo = << >>
    /\ pass' = "typed"
    /\ UNCHANGED <<program, todo, scope, constraints, edges>>

Init ==
    /\ pass = "TypeConstraintVisitor" /\ todo = accept(program)
    /\ scope = << >> /\ constraints = << >> /\ edges = NoSolution

Next == visit \/ endVisit \/ solve \/ AbsentFieldVisit \/ check
=============================================================================
