---------------------------- MODULE PrettyPrinter ----------------------------
(***************************************************************************)
(* The printer of programs: a visitor that keeps the texts of the nodes it *)
(* has finished on a stack, one per node, and replaces the texts of the    *)
(* children of a node by the node's own in its endVisit().  A text is a    *)
(* sequence of tokens; the spaces between them are left out, the           *)
(* indentation and the ends of lines are not.                              *)
(***************************************************************************)
EXTENDS ASTVisitor, TreeTypes, FiniteSets

LOCAL INSTANCE SequencesExt

CONSTANTS
    Programs,   \* the trees to print
    MaxPrints   \* how many are printed, one after the other

VARIABLES
    program,      \* the trees printed so far, the last one in progress
    todo,         \* the rest of the traversal
    visitResults,
    indentLevel,
    printed       \* the texts written to os

vars == <<program, todo, visitResults, indentLevel, printed>>

-----------------------------------------------------------------------------
(* The stack of texts.                                                      *)

\* The last k results, the one pushed first first.
Results(k) == SubSeq(visitResults, Len(visitResults) - k + 1, Len(visitResults))

Replace(k, text) ==
    visitResults' = Append(SubSeq(visitResults, 1, Len(visitResults) - k), text)

Separated(texts) ==
    FlattenSeq([i \in DOMAIN texts |-> IF i = 1 THEN texts[i] ELSE <<",">> \o texts[i]])

Lines(texts) == FlattenSeq([i \in DOMAIN texts |-> Append(texts[i], "\n")])

indent(level) == [i \in 1..level |-> "  "]

-----------------------------------------------------------------------------
(* visit() of the nodes that indent.                                        *)

Deeper == indentLevel' = indentLevel + 1
SameLevel == UNCHANGED indentLevel

visitFunction(n) == n.cls = "ASTFunction" /\ Deeper
visitBlockStmt(n) == n.cls = "ASTBlockStmt" /\ Deeper
visitWhileStmt(n) == n.cls = "ASTWhileStmt" /\ Deeper
visitIfStmt(n) == n.cls = "ASTIfStmt" /\ Deeper
visitForIterStmt(n) == n.cls = "ASTForIterStmt" /\ Deeper
visitForRangeStmt(n) == n.cls = "ASTForRangeStmt" /\ Deeper

\* The default of ASTVisitor.
visitOther(n) ==
    /\ n.cls \notin {"ASTFunction", "ASTBlockStmt", "ASTWhileStmt", "ASTIfStmt",
                     "ASTForIterStmt", "ASTForRangeStmt"}
    /\ SameLevel

-----------------------------------------------------------------------------
(* endVisit() of expressions.                                               *)

Expr(n, cls, k, Text(_)) ==
    /\ n.cls = cls
    /\ Replace(k, Text(Results(k)))
    /\ SameLevel

Infix(n, cls, op) ==
    Expr(n, cls, 2, LAMBDA r : <<"(">> \o r[1] \o <<op>> \o r[2] \o <<")">>)

List(n, cls, left, right) ==
    Expr(n, cls, Len(n.kids), LAMBDA r : <<left>> \o Separated(r) \o <<right>>)

endVisitNumberExpr(n) == Expr(n, "ASTNumberExpr", 0, LAMBDA r : n.names)
endVisitVariableExpr(n) == Expr(n, "ASTVariableExpr", 0, LAMBDA r : n.names)
endVisitDeclNode(n) == Expr(n, "ASTDeclNode", 0, LAMBDA r : n.names)
endVisitInputExpr(n) == Expr(n, "ASTInputExpr", 0, LAMBDA r : <<"input">>)
endVisitNullExpr(n) == Expr(n, "ASTNullExpr", 0, LAMBDA r : <<"null">>)
endVisitTrueExpr(n) == Expr(n, "ASTTrueExpr", 0, LAMBDA r : <<"true">>)
endVisitFalseExpr(n) == Expr(n, "ASTFalseExpr", 0, LAMBDA r : <<"false">>)

endVisitBinaryExpr_NoBrackets(n) ==  \* mutated form: no brackets
    Expr(n, "ASTBinaryExpr", 2, LAMBDA r : r[1] \o n.names \o r[2])
endVisitBinaryExpr(n) == Infix(n, "ASTBinaryExpr", n.names[1])
endVisitAndExpr(n) == Infix(n, "ASTAndExpr", "and")
endVisitOrExpr(n) == Infix(n, "ASTOrExpr", "or")
endVisitNotExpr(n) == Expr(n, "ASTNotExpr", 1, LAMBDA r : <<"(", "not">> \o r[1] \o <<")">>)
endVisitNegationExpr(n) ==
    Expr(n, "ASTNegationExpr", 1, LAMBDA r : <<"-", "(">> \o r[1] \o <<")">>)
endVisitTernaryExpr(n) ==
    Expr(n, "ASTTernaryExpr", 3,
         LAMBDA r : <<"(">> \o r[1] \o <<"?">> \o r[2] \o <<":">> \o r[3] \o <<")">>)

endVisitFunAppExpr(n) ==
    Expr(n, "ASTFunAppExpr", Len(n.kids),
         LAMBDA r : r[1] \o <<"(">> \o Separated(Tail(r)) \o <<")">>)

endVisitAllocExpr(n) == Expr(n, "ASTAllocExpr", 1, LAMBDA r : <<"alloc">> \o r[1])
endVisitRefExpr(n) == Expr(n, "ASTRefExpr", 1, LAMBDA r : <<"&">> \o r[1])
endVisitDeRefExpr(n) == Expr(n, "ASTDeRefExpr", 1, LAMBDA r : <<"*">> \o r[1])

endVisitFieldExpr(n) == Expr(n, "ASTFieldExpr", 1, LAMBDA r : <<n.names[1], ":">> \o r[1])
endVisitRecordExpr(n) == List(n, "ASTRecordExpr", "{", "}")
endVisitAccessExpr(n) == Expr(n, "ASTAccessExpr", 1, LAMBDA r : r[1] \o <<".", n.names[1]>>)

endVisitArrayExpr(n) == List(n, "ASTArrayExpr", "[", "]")
endVisitOfArrayExpr(n) ==
    Expr(n, "ASTOfArrayExpr", 2, LAMBDA r : <<"[">> \o r[1] \o <<"of">> \o r[2] \o <<"]">>)
endVisitElementRefrenceOperatorExpr(n) ==
    Expr(n, "ASTElementRefrenceOperatorExpr", 2,
         LAMBDA r : <<"(">> \o r[1] \o <<"[">> \o r[2] \o <<"]", ")">>)
endVisitArrayLengthExpr(n) ==
    Expr(n, "ASTArrayLengthExpr", 1, LAMBDA r : <<"(", "#">> \o r[1] \o <<")">>)

-----------------------------------------------------------------------------
(* endVisit() of statements: those that opened a level close it before they *)
(* indent.                                                                  *)

Simple(n, cls, k, Text(_)) ==
    /\ n.cls = cls
    /\ Replace(k, indent(indentLevel) \o Text(Results(k)))
    /\ SameLevel

Compound(n, cls, k, Text(_, _)) ==
    /\ n.cls = cls
    /\ indentLevel' = indentLevel - 1
    /\ Replace(k, indent(indentLevel') \o Text(Results(k), indent(indentLevel')))

endVisitDeclStmt(n) ==
    Simple(n, "ASTDeclStmt", Len(n.kids), LAMBDA r : <<"var">> \o Separated(r) \o <<";">>)
endVisitAssignStmt(n) == Simple(n, "ASTAssignStmt", 2, LAMBDA r : r[1] \o <<"=">> \o r[2] \o <<";">>)
endVisitOutputStmt(n) == Simple(n, "ASTOutputStmt", 1, LAMBDA r : <<"output">> \o r[1] \o <<";">>)
endVisitErrorStmt(n) == Simple(n, "ASTErrorStmt", 1, LAMBDA r : <<"error">> \o r[1] \o <<";">>)
endVisitReturnStmt(n) == Simple(n, "ASTReturnStmt", 1, LAMBDA r : <<"return">> \o r[1] \o <<";">>)
endVisitIncrementStmt(n) == Simple(n, "ASTIncrementStmt", 1, LAMBDA r : r[1] \o <<"++", ";">>)
endVisitDecrementStmt(n) == Simple(n, "ASTDecrementStmt", 1, LAMBDA r : r[1] \o <<"--", ";">>)

endVisitBlockStmt(n) ==
    Compound(n, "ASTBlockStmt", Len(n.kids),
             LAMBDA r, margin : <<"{", "\n">> \o Lines(r) \o margin \o <<"}">>)

endVisitWhileStmt(n) ==
    Compound(n, "ASTWhileStmt", 2,
             LAMBDA r, margin : <<"while", "(">> \o r[1] \o <<")", "\n">> \o r[2])

endVisitIfStmt_NoElse(n) ==  \* mutated form: two texts popped, else or not
    Compound(n, "ASTIfStmt", 2, LAMBDA r, margin : <<"if", "(">> \o r[1] \o <<")", "\n">> \o r[2])

endVisitIfStmt(n) ==
    Compound(n, "ASTIfStmt", Len(n.kids),
             LAMBDA r, margin :
                <<"if", "(">> \o r[1] \o <<")", "\n">> \o r[2]
                    \o IF Len(r) = 3 THEN <<"\n">> \o margin \o <<"else", "\n">> \o r[3] ELSE << >>)

endVisitForIterStmt(n) ==
    Compound(n, "ASTForIterStmt", 3,
             LAMBDA r, margin : <<"for", "(">> \o r[1] \o <<":">> \o r[2] \o <<")", "\n">> \o r[3])

endVisitForRangeStmt_StepFirst(n) ==  \* mutated form: texts joined as they are popped
    Compound(n, "ASTForRangeStmt", Len(n.kids),
             LAMBDA r, margin : <<"for", "(">> \o FlattenSeq(Reverse(Front(r))) \o <<")", "\n">> \o Last(r))

endVisitForRangeStmt(n) ==
    Compound(n, "ASTForRangeStmt", Len(n.kids),
             LAMBDA r, margin :
                <<"for", "(">> \o r[1] \o <<":">> \o r[2] \o <<"..">> \o r[3]
                    \o (IF Len(r) = 5 THEN <<"by">> \o r[4] ELSE << >>)
                    \o <<")", "\n">> \o Last(r))

endVisitFunction(n) ==
    LET formals == Len(getFormals(n))
        name(r) == r[1] \o <<"(">> \o Separated(SubSeq(r, 2, formals + 1)) \o <<")">>
        body(r) == Lines(SubSeq(r, formals + 2, Len(r)))
    IN /\ n.cls = "ASTFunction"
       /\ Replace(Len(n.kids), name(Results(Len(n.kids))) \o <<"\n", "{", "\n">>
                                 \o body(Results(Len(n.kids))) \o <<"}", "\n">>)
       /\ indentLevel' = indentLevel - 1

\* Writes to os what is left on the stack, the functions in order.
endVisitProgram(n) ==
    /\ n.cls = "ASTProgram"
    /\ LET fs == Results(Len(n.kids))
       IN printed' = Append(printed,
              FlattenSeq([i \in DOMAIN fs |-> IF i = 1 THEN fs[i] ELSE <<"\n">> \o fs[i]]))
    /\ visitResults' = SubSeq(visitResults, 1, Len(visitResults) - Len(n.kids))
    /\ SameLevel

-----------------------------------------------------------------------------
Init ==
    /\ program = << >> /\ todo = << >>
    /\ visitResults = << >> /\ indentLevel = 0 /\ printed = << >>

\* A visitor of its own for every program.
print(p) ==
    /\ todo = << >>
    /\ Len(program) < MaxPrints
    /\ program' = Append(program, p)
    /\ todo' = accept(p)
    /\ visitResults' = << >>
    /\ indentLevel' = 0
    /\ UNCHANGED printed

This == Head(todo).node

VisitNode ==
    /\ Calls(todo, "visit")
    /\ \/ visitFunction(This) \/ visitBlockStmt(This) \/ visitWhileStmt(This) \/ visitIfStmt(This)
       \/ visitForIterStmt(This) \/ visitForRangeStmt(This) \/ visitOther(This)
    /\ todo' = Children(Head(todo)) \o Tail(todo)
    /\ UNCHANGED <<program, visitResults, printed>>

endVisitExpr(n) ==
    \/ endVisitNumberExpr(n) \/ endVisitVariableExpr(n) \/ endVisitInputExpr(n)
    \/ endVisitNullExpr(n) \/ endVisitTrueExpr(n) \/ endVisitFalseExpr(n)
    \/ endVisitBinaryExpr(n) \/ endVisitAndExpr(n) \/ endVisitOrExpr(n) \/ endVisitNotExpr(n)
    \/ endVisitNegationExpr(n) \/ endVisitTernaryExpr(n) \/ endVisitFunAppExpr(n)
    \/ endVisitAllocExpr(n) \/ endVisitRefExpr(n) \/ endVisitDeRefExpr(n)
    \/ endVisitFieldExpr(n) \/ endVisitRecordExpr(n) \/ endVisitAccessExpr(n)
    \/ endVisitArrayExpr(n) \/ endVisitOfArrayExpr(n)
    \/ endVisitElementRefrenceOperatorExpr(n) \/ endVisitArrayLengthExpr(n)

endVisitStmt(n) ==
    \/ endVisitDeclStmt(n) \/ endVisitAssignStmt(n) \/ endVisitOutputStmt(n)
    \/ endVisitErrorStmt(n) \/ endVisitReturnStmt(n) \/ endVisitIncrementStmt(n)
    \/ endVisitDecrementStmt(n) \/ endVisitBlockStmt(n) \/ endVisitWhileStmt(n)
    \/ endVisitIfStmt(n) \/ endVisitForIterStmt(n) \/ endVisitForRangeStmt(n)

EndVisitNode ==
    /\ Calls(todo, "endVisit")
    /\ \/ endVisitExpr(This) /\ UNCHANGED printed
       \/ endVisitStmt(This) /\ UNCHANGED printed
       \/ endVisitDeclNode(This) /\ UNCHANGED printed
       \/ endVisitFunction(This) /\ UNCHANGED printed
       \/ endVisitProgram(This)
    /\ todo' = Tail(todo)
    /\ UNCHANGED program

Next == (\E p \in Programs : print(p)) \/ VisitNode \/ EndVisitNode

Spec == Init /\ [][Next]_vars

-----------------------------------------------------------------------------
(* Properties.                                                              *)

Indenting == {"ASTFunction", "ASTBlockStmt", "ASTWhileStmt", "ASTIfStmt",
              "ASTForIterStmt", "ASTForRangeStmt"}

(* The names, literals and operators of a tree in the order of the source.  *)
RECURSIVE Yield(_)
Yield(n) ==
    LET kids == FlattenSeq([i \in DOMAIN n.kids |-> Yield(n.kids[i])])
    IN CASE n.cls = "ASTBinaryExpr" -> Yield(n.kids[1]) \o n.names \o Yield(n.kids[2])
         [] n.cls = "ASTAccessExpr" -> kids \o n.names
         [] n.cls = "ASTDeRefExpr" -> <<"*">> \o kids
         [] n.cls = "ASTNegationExpr" -> <<"-">> \o kids
         [] OTHER -> n.names \o kids

(* The LIFO protocol of visitResults: there is one text on the stack for    *)
(* every finished child of a node whose endVisit() is to come, so no        *)
(* handler pops an empty stack or a sibling's text, whichever optional      *)
(* children are there, and none is left over.  visit() and endVisit()       *)
(* balance: the indentation is the number of open nodes that indent.        *)
OneResultPerNode ==
    /\ Len(visitResults) = Cardinality(Finished(todo))
    /\ indentLevel = Cardinality({c \in Open(todo) : c.node.cls \in Indenting})

(* What is printed names what the program names, in the same order: no      *)
(* operand, formal or branch is lost, doubled or swapped.                   *)
PrintedInOrder ==
    todo = << >> =>
        \A i \in DOMAIN printed :
            LET source == Yield(program[i])
            IN SelectSeq(printed[i], LAMBDA t : t \in ToSet(source)) = source

(* A prefix operator is printed without brackets, and so is what is applied *)
(* to its result after it.                                                  *)
Prefix == {"ASTAllocExpr", "ASTRefExpr", "ASTDeRefExpr"}
Postfix == {"ASTAccessExpr", "ASTFunAppExpr"}

RECURSIVE PrefixUnderPostfix(_)
PrefixUnderPostfix(n) ==
    \/ n.cls \in Postfix /\ n.kids[1].cls \in Prefix
    \/ \E i \in DOMAIN n.kids : PrefixUnderPostfix(n.kids[i])

(* The text is a representation of the program: no two programs have the    *)
(* same one, unless one of them needs brackets that are not printed.        *)
TextDeterminesProgram ==
    \A i, j \in DOMAIN printed :
        printed[i] = printed[j] =>
            \/ program[i] = program[j]
            \/ PrefixUnderPostfix(program[i]) \/ PrefixUnderPostfix(program[j])
=============================================================================
