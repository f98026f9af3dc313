---------------------------- MODULE TipSemantics ----------------------------
(***************************************************************************)
(* What a run of a program does: the reference against which the static    *)
(* analyses are checked.  An evaluation ends "ok", "stuck" when an         *)
(* operation meets a value it is not defined for, or "halt" when the run   *)
(* stops for another reason: an error statement, a null pointer, an index  *)
(* out of bounds, a variable without a value, a for loop (GeneratedLoops is *)
(* about those), no main to start with, or the bound of this module.       *)
(***************************************************************************)
EXTENDS TreeTypes, Integers

LOCAL INSTANCE SequencesExt

Depth == 5   \* bound: how deep calls and loops nest

\* A value: its sort, a number (of a pointer the cell, of a function its
\* position), and for arrays and records the cells of their parts.
Value(tag, n, cells, names) == [tag |-> tag, n |-> n, cells |-> cells, names |-> names]
IntValue(n) == Value("int", n, << >>, << >>)
BoolValue(b) == Value("bool", IF b THEN 1 ELSE 0, << >>, << >>)
Undefined == Value("undefined", 0, << >>, << >>)

\* The state of a run: its memory and the calls made so far.
Ok(vals, s) == [end |-> "ok", vals |-> vals, state |-> s]
Stuck(s) == [end |-> "stuck", vals |-> << >>, state |-> s]
Halt(s) == [end |-> "halt", vals |-> << >>, state |-> s]

New(s, vals) == [s EXCEPT !.mem = @ \o vals]
NewCells(s, k) == [i \in 1..k |-> Len(s.mem) + i]
Allocate(s, tag, n, vals, names) == Ok(<<Value(tag, n, NewCells(s, Len(vals)), names)>>, New(s, vals))

Position(seq, Test(_)) == CHOOSE i \in DOMAIN seq : Test(seq[i])
FunctionNamed(p, x) == Position(p.kids, LAMBDA f : f.kids[1].names[1] = x)
Numeral(s) == IF s = "0" THEN 0 ELSE 1

\* What comes after r if that ends well, with its values and its state.
After(r, Then(_, _)) == IF r.end # "ok" THEN r ELSE Then(r.vals, r.state)

Load(r) ==
    After(r, LAMBDA vs, s : LET v == s.mem[vs[1].n] IN IF v.tag = "undefined" THEN Halt(s) ELSE Ok(<<v>>, s))

\* The environment: the program, the function that runs, the cells of its
\* variables and how many calls may still nest.
RECURSIVE Eval(_, _, _)

\* Expressions or statements, one after the other, with the values of all.
EvalAll(nodes, env, s) ==
    LET Then(r, n) == After(r, LAMBDA vs, t : After(Eval(n, env, t), LAMBDA ws, u : Ok(vs \o ws, u)))
    IN FoldLeft(Then, Ok(<< >>, s), nodes)

\* A pointer to the cell an expression stands for, the values of whose
\* children are vs.
Pointer(n, s) == Ok(<<Value("ref", n, << >>, << >>)>>, s)

Part(e, vs, s) ==
    LET v == vs[1]
    IN CASE e.cls = "ASTDeRefExpr" -> IF v.tag # "ref" THEN Stuck(s) ELSE IF v.n = 0 THEN Halt(s) ELSE Ok(vs, s)
         [] e.cls = "ASTAccessExpr" ->
               IF v.tag # "record" \/ \A i \in DOMAIN v.names : v.names[i] # e.names[1] THEN Stuck(s)
               ELSE Pointer(v.cells[Position(v.names, LAMBDA f : f = e.names[1])], s)
         [] e.cls = "ASTElementRefrenceOperatorExpr" ->
               IF v.tag # "array" \/ vs[2].tag # "int" THEN Stuck(s)
               ELSE IF vs[2].n + 1 \notin DOMAIN v.cells THEN Halt(s)
               ELSE Pointer(v.cells[vs[2].n + 1], s)

CellOf(e, env, s) ==
    IF e.cls = "ASTVariableExpr" THEN Pointer(env.cells[e.names[1]], s)
    ELSE After(EvalAll(e.kids, env, s), LAMBDA vs, t : Part(e, vs, t))

Operands(e) ==
    IF e.cls = "ASTRecordExpr" THEN [i \in DOMAIN e.kids |-> e.kids[i].kids[1]] ELSE e.kids

\* The variables of a function are its formals and then its locals.
Names(decls) == [i \in DOMAIN decls |-> decls[i].names[1]]
LocalNames(f) == FlattenSeq([i \in DOMAIN getDeclarations(f) |-> Names(getDeclarations(f)[i].kids)])

Call(n, args, env, s) ==
    LET f == env.program.kids[n]
        names == Names(getFormals(f)) \o LocalNames(f)
        cells == [x \in {names[i] : i \in DOMAIN names} |->
                     Len(s.mem) + Position(names, LAMBDA y : x = y)]
        blanks == [i \in 1..Len(names) - Len(args) |-> Undefined]
    IN IF Len(args) # Len(getFormals(f)) THEN Stuck(s)
       ELSE IF env.depth = 0 THEN Halt(s)
       ELSE EvalAll(getStmts(f), [env EXCEPT !.function = n, !.cells = cells, !.depth = @ - 1],
                    New(s, args \o blanks))

\* The operators on integers and booleans: their operands' sort and result.
Arithmetic(op, m, n) == CASE op = "+" -> m + n [] op = "-" -> m - n [] op = "*" -> m * n [] OTHER -> 0
Comparison(op, m, n) == CASE op = "<" -> m < n [] op = "<=" -> m <= n [] op = ">" -> m > n [] OTHER -> m >= n

Apply(e, vs, env, s) ==
    LET tags == {vs[i].tag : i \in DOMAIN vs}
        If(test, v) == IF test THEN Ok(<<v>>, s) ELSE Stuck(s)
    IN CASE e.cls = "ASTNumberExpr" -> Ok(<<IntValue(Numeral(e.names[1]))>>, s)
         [] e.cls = "ASTInputExpr" -> Ok(<<IntValue(1)>>, s)
         [] e.cls \in {"ASTTrueExpr", "ASTFalseExpr"} -> Ok(<<BoolValue(e.cls = "ASTTrueExpr")>>, s)
         [] e.cls = "ASTNullExpr" -> Ok(<<Value("ref", 0, << >>, << >>)>>, s)
         [] e.cls = "ASTBinaryExpr" /\ e.names[1] \in {"==", "!="} ->
               If(vs[1].tag = vs[2].tag, BoolValue((vs[1] = vs[2]) = (e.names[1] = "==")))
         [] e.cls = "ASTBinaryExpr" /\ e.names[1] \in {"<", "<=", ">", ">="} ->
               If(tags = {"int"}, BoolValue(Comparison(e.names[1], vs[1].n, vs[2].n)))
         [] e.cls = "ASTBinaryExpr" /\ e.names[1] \in {"+", "-", "*", "/", "%"} ->
               If(tags = {"int"}, IntValue(Arithmetic(e.names[1], vs[1].n, vs[2].n)))
         [] e.cls = "ASTAndExpr" -> If(tags = {"bool"}, BoolValue(vs[1].n * vs[2].n = 1))
         [] e.cls = "ASTOrExpr" -> If(tags = {"bool"}, BoolValue(vs[1].n + vs[2].n > 0))
         [] e.cls = "ASTNotExpr" -> If(tags = {"bool"}, BoolValue(vs[1].n = 0))
         [] e.cls = "ASTNegationExpr" -> If(tags = {"int"}, IntValue(0 - vs[1].n))
         [] e.cls = "ASTTernaryExpr" -> If(vs[1].tag = "bool", IF vs[1].n = 1 THEN vs[2] ELSE vs[3])
         [] e.cls = "ASTAllocExpr" -> Ok(<<Value("ref", Len(s.mem) + 1, << >>, << >>)>>, New(s, vs))
         [] e.cls = "ASTArrayExpr" -> Allocate(s, "array", 0, vs, << >>)
         [] e.cls = "ASTOfArrayExpr" ->
               IF vs[1].tag # "int" THEN Stuck(s)
               ELSE Allocate(s, "array", 0, [i \in 1..vs[1].n |-> vs[2]], << >>)
         [] e.cls = "ASTArrayLengthExpr" -> If(tags = {"array"}, IntValue(Len(vs[1].cells)))
         [] e.cls = "ASTRecordExpr" ->
               Allocate(s, "record", 0, vs, [i \in DOMAIN e.kids |-> e.kids[i].names[1]])
         [] e.cls = "ASTFunAppExpr" ->
               IF vs[1].tag # "function" THEN Stuck(s)
               ELSE Call(vs[1].n, Tail(vs), env, [s EXCEPT !.calls = @ \cup {<<env.function, vs[1].n>>}])

Store(target, e, env, s) ==
    After(CellOf(target, env, s), LAMBDA to, t :
        After(Eval(e, env, t), LAMBDA vs, u : Ok(<< >>, [u EXCEPT !.mem[to[1].n] = vs[1]])))

\* A statement whose expression has come out as v; it has no value of its own.
Exec(stmt, v, env, s) ==
    LET k == stmt.kids
        op == IF stmt.cls = "ASTIncrementStmt" THEN "+" ELSE "-"
        branch == IF v.n = 1 THEN <<k[2]>> ELSE SubSeq(k, 3, Len(k))
    IN CASE stmt.cls \in {"ASTIncrementStmt", "ASTDecrementStmt"} ->
               Store(k[1], ASTBinaryExpr(op, k[1], ASTNumberExpr("1")), env, s)
         [] stmt.cls = "ASTReturnStmt" -> Ok(<<v>>, s)
         [] stmt.cls = "ASTOutputStmt" -> IF v.tag # "int" THEN Stuck(s) ELSE Ok(<< >>, s)
         [] stmt.cls = "ASTErrorStmt" -> IF v.tag # "int" THEN Stuck(s) ELSE Halt(s)
         [] stmt.cls = "ASTIfStmt" -> IF v.tag # "bool" THEN Stuck(s) ELSE EvalAll(branch, env, s)
         [] stmt.cls = "ASTWhileStmt" ->
               IF v.tag # "bool" THEN Stuck(s)
               ELSE IF v.n = 0 THEN Ok(<< >>, s)
               ELSE IF env.depth = 0 THEN Halt(s)
               ELSE EvalAll(<<k[2], stmt>>, [env EXCEPT !.depth = @ - 1], s)
         [] stmt.cls \in {"ASTForIterStmt", "ASTForRangeStmt"} -> Halt(s)

Statements ==
    {"ASTIncrementStmt", "ASTDecrementStmt", "ASTReturnStmt", "ASTOutputStmt", "ASTErrorStmt",
     "ASTIfStmt", "ASTWhileStmt", "ASTForIterStmt", "ASTForRangeStmt"}

Eval(e, env, s) ==
    CASE e.cls = "ASTVariableExpr" /\ e.names[1] \notin DOMAIN env.cells ->
            Ok(<<Value("function", FunctionNamed(env.program, e.names[1]), << >>, << >>)>>, s)
      [] \/ e.cls = "ASTVariableExpr" /\ e.names[1] \in DOMAIN env.cells
         \/ e.cls \in {"ASTDeRefExpr", "ASTAccessExpr", "ASTElementRefrenceOperatorExpr"} ->
            Load(CellOf(e, env, s))
      [] e.cls = "ASTRefExpr" -> CellOf(e.kids[1], env, s)
      [] e.cls = "ASTBlockStmt" -> EvalAll(e.kids, env, s)
      [] e.cls = "ASTAssignStmt" -> Store(e.kids[1], e.kids[2], env, s)
      [] e.cls \in Statements ->
            After(Eval(e.kids[1], env, s), LAMBDA vs, t : Exec(e, vs[1], env, t))
      [] OTHER -> After(EvalAll(Operands(e), env, s), LAMBDA vs, t : Apply(e, vs, env, t))

Run(p) ==
    LET start == [mem |-> << >>, calls |-> {}]
        env == [program |-> p, function |-> 0, cells |-> << >>, depth |-> Depth]
        main == FunctionNamed(p, "main")
    IN IF \E i \in DOMAIN p.kids : p.kids[i].kids[1].names[1] = "main"
       THEN Call(main, [i \in DOMAIN getFormals(p.kids[main]) |-> IntValue(1)], env, start)
       ELSE Halt(start)
=============================================================================
