------------------------------ MODULE TypeRules ------------------------------
(***************************************************************************)
(* What type inference promises.  The reference is a type system that      *)
(* checks instead of inferring: it is told the types of the variables and  *)
(* computes the types an expression can have from those of its parts, with *)
(* no equations and no solver.  The other reference is TipSemantics, what  *)
(* a run does.                                                             *)
(***************************************************************************)
EXTENDS TypeConstraints

CONSTANTS
    Prologue,   \* statements that force the types of the variables of main
    Gamma       \* these types, and those of the functions main may use

Int == <<"int">>
Bool == <<"bool">>
Absent == <<"absent">>
Ref(t) == <<"ref", t>>
Array(t) == <<"array", t>>
Record(ts) == <<"record", ts>>

Sort(ts, sort) == {t \in ts : t[1] = sort}
Parts(ts, sort) == {t[2] : t \in Sort(ts, sort)}

\* The types that an expression without a type of its own may take.
Universe == LET base == {Gamma[x] : x \in DOMAIN Gamma}
            IN base \cup {Ref(t) : t \in base} \cup {Array(t) : t \in base}

Position(f) == CHOOSE i \in DOMAIN getFields : getFields[i] = f

\* The sequences with an element of every set of a sequence of sets.
RECURSIVE Choices(_)
Choices(sets) ==
    IF sets = << >> THEN {<< >>}
    ELSE {<<t>> \o ts : t \in Head(sets), ts \in Choices(Tail(sets))}

RECURSIVE TypesOf(_)

FieldTypes(e, f) ==
    LET inits == {i \in DOMAIN e.kids : e.kids[i].names[1] = f}
    IN IF inits = {} THEN {Absent}
       ELSE TypesOf(e.kids[CHOOSE i \in inits : \A j \in inits : i <= j].kids[1])

TypesOf(e) ==
    LET T(i) == TypesOf(e.kids[i])
        All(t) == \A i \in DOMAIN e.kids : t \in T(i)
        If(test, t) == IF test THEN {t} ELSE {}
    IN CASE e.cls = "ASTVariableExpr" -> {Gamma[e.names[1]]}
         [] e.cls \in {"ASTNumberExpr", "ASTInputExpr"} -> {Int}
         [] e.cls \in {"ASTTrueExpr", "ASTFalseExpr"} -> {Bool}
         [] e.cls \in {"ASTNotExpr", "ASTAndExpr", "ASTOrExpr"} -> If(All(Bool), Bool)
         [] e.cls = "ASTNegationExpr" -> If(All(Int), Int)
         [] e.cls = "ASTBinaryExpr" /\ e.names[1] \in {"==", "!="} -> If(T(1) \cap T(2) # {}, Bool)
         [] e.cls = "ASTBinaryExpr" /\ e.names[1] \in {"<", "<=", ">", ">="} -> If(All(Int), Bool)
         [] e.cls = "ASTBinaryExpr" /\ e.names[1] \in {"+", "-", "*", "/", "%"} -> If(All(Int), Int)
         [] e.cls = "ASTTernaryExpr" -> IF Bool \in T(1) THEN T(2) \cap T(3) ELSE {}
         [] e.cls = "ASTFunAppExpr" ->
               {t[3] : t \in {u \in Sort(T(1), "function") :
                   /\ Len(u[2]) = Len(e.kids) - 1
                   /\ \A i \in DOMAIN u[2] : u[2][i] \in T(i + 1)}}
         [] e.cls = "ASTNullExpr" -> {Ref(t) : t \in Universe}
         [] e.cls \in {"ASTAllocExpr", "ASTRefExpr"} -> {Ref(t) : t \in T(1)}
         [] e.cls = "ASTDeRefExpr" -> Parts(T(1), "ref")
         [] e.cls = "ASTArrayExpr" -> {Array(t) : t \in {u \in Universe \cup UNION {T(i) : i \in DOMAIN e.kids} : All(u)}}
         [] e.cls = "ASTOfArrayExpr" -> IF Int \in T(1) THEN {Array(t) : t \in T(2)} ELSE {}
         [] e.cls = "ASTElementRefrenceOperatorExpr" -> IF Int \in T(2) THEN Parts(T(1), "array") ELSE {}
         [] e.cls = "ASTArrayLengthExpr" -> If(Sort(T(1), "array") # {}, Int)
         [] e.cls = "ASTRecordExpr" ->
               {Record(ts) : ts \in Choices([i \in DOMAIN getFields |-> FieldTypes(e, getFields[i])])}
         [] e.cls = "ASTAccessExpr" ->
               {ts[Position(e.names[1])] : ts \in Parts(T(1), "record")} \ {Absent}

RECURSIVE WellTyped(_)
WellTyped(s) ==
    LET k == s.kids
        T(i) == TypesOf(k[i])
    IN CASE s.cls = "ASTAssignStmt" -> T(1) \cap T(2) # {}
         [] s.cls = "ASTBlockStmt" -> \A i \in DOMAIN k : WellTyped(k[i])
         [] s.cls \in {"ASTWhileStmt", "ASTIfStmt"} -> Bool \in T(1) /\ \A i \in 2..Len(k) : WellTyped(k[i])
         [] s.cls = "ASTForIterStmt" -> T(1) \cap Parts(T(2), "array") # {} /\ WellTyped(k[3])
         [] s.cls = "ASTForRangeStmt" -> (\A i \in 1..Len(k) - 1 : Int \in T(i)) /\ WellTyped(k[Len(k)])
         [] s.cls \in {"ASTIncrementStmt", "ASTDecrementStmt", "ASTOutputStmt", "ASTErrorStmt", "ASTReturnStmt"} ->
               Int \in T(1)

Main == CHOOSE f \in Functions : getName(f) = "main"
MainIsWellTyped == LET ss == getStmts(FunctionAt(Main)) IN \A i \in DOMAIN ss : WellTyped(ss[i])

Starts(s, t) == Len(s) >= Len(t) /\ SubSeq(s, 1, Len(t)) = t
Told == \E f \in Functions : getName(f) = "main" /\ Starts(getStmts(FunctionAt(f)), Prologue)

Ended == pass \in {"typed", "UnificationError", "SemanticError"}

-----------------------------------------------------------------------------
(* Properties.                                                              *)

(* When main is told the types of its variables, it is accepted exactly if  *)
(* every statement is well typed: no equation is missing or too many.       *)
AcceptedIffWellTyped == Ended /\ Told => (pass = "typed" <=> MainIsWellTyped)

(* A program that is accepted does not get stuck, whatever it passes to     *)
(* whom: no operation meets a value it is not defined for.                  *)
Semantics == INSTANCE TipSemantics
AcceptedRunsDoNotGetStuck == pass = "typed" => Semantics!Run(program).end # "stuck"

(* An equation relates nodes of one function, and declarations of others    *)
(* only when these are functions: scopes that are never popped do not mix.  *)
RECURSIVE NodesOf(_)
NodesOf(t) == (IF isVar(t) THEN {t.at} ELSE {}) \cup UNION {NodesOf(t.args[i]) : i \in DOMAIN t.args}

EquationsAreLocal ==
    todo = << >> => \A i \in DOMAIN constraints :
        LET nodes == (NodesOf(constraints[i].lhs) \cup NodesOf(constraints[i].rhs)) \ {getDecl(f) : f \in Functions}
        IN \A m, n \in nodes : m[1] = n[1]
=============================================================================
