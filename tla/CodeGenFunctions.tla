-------------------------- MODULE CodeGenFunctions --------------------------
(***************************************************************************)
(* What each codegen() does, in order, as a list of steps.  A step either  *)
(* generates a child, sets a global flag, or makes one call of the         *)
(* IRBuilder.  The steps name the local variables of codegen() that hold   *)
(* LLVM values; every list ends with the local "result" defined, the value *)
(* that codegen() returns.                                                 *)
(*                                                                         *)
(* Of a value the model keeps the block that computes it and its LLVM      *)
(* type: "i64", "i1" or "ptr".  "need" gives the type each operand must    *)
(* have: "int" is either integer type, and operands needed as "same" are   *)
(* integers of one type.                                                   *)
(***************************************************************************)
EXTENDS AST, Naturals, Sequences

CONSTANT
    Actual           \* names for the arguments of a call: locals of its codegen()

ASSUME ActualAssumption ==
    /\ Actual \in Seq(STRING)
    /\ \A i, j \in DOMAIN Actual : Actual[i] = Actual[j] => i = j
    /\ \A i \in DOMAIN Actual : Actual[i] \notin {"funVal", "gep", "castFunPtr", "result"}

-----------------------------------------------------------------------------
(* The steps.                                                              *)

\* dst = child->codegen()
Gen(child, dst) == [do |-> "codegen", child |-> child, dst |-> dst]

NoOperands == [x \in {} |-> "i64"]

\* dst = Builder.Create...(operands)
Emit(dst, type, need) ==
    [do |-> "emit", dst |-> dst, type |-> type, need |-> need]

\* Builder.CreateStore(value, address)
Store(value, address) ==
    [do |-> "store", value |-> value,
     need |-> [x \in {value, address} |-> IF x = value THEN "i64" ELSE "ptr"]]

\* A value that no instruction computes: a constant, an alloca found by name.
Known(dst, v) == [do |-> "known", dst |-> dst, value |-> v]

lValueFlag(b) == [do |-> "lValueGen", to |-> b]
allocationFlag(b) == [do |-> "allocFlag", to |-> b]

\* labelNum++ and the blocks: the first is added to the function at once.
Blocks(first, others) == [do |-> "blocks", first |-> first, others |-> others]

\* getBasicBlockList().push_back(b), and Builder.SetInsertPoint(b)
Place(b) == [do |-> "place", block |-> b]
At(b) == [do |-> "at", block |-> b]

Branch(b) == [do |-> "terminate", need |-> NoOperands, to |-> {b}]
CondBranch(v, b1, b2) ==
    [do |-> "terminate", need |-> [x \in {v} |-> "i1"], to |-> {b1, b2}]

\* CreateEntryBlockAlloca, the store of its first value, NamedValues[x] = it
Local(x) == [do |-> "local", name |-> x]

EnterFunction(f) == [do |-> "enter", name |-> f]

NoBlock == [fn |-> "", label |-> 0, name |-> ""]
ConstantInt == [type |-> "i64", block |-> NoBlock]

Nop == Emit("result", "void", NoOperands)

\* All children, one after the other, into the same local.
GenAll(n, dst) == [i \in 1..Len(n.kids) |-> Gen(i, dst)]

\* The steps of a loop of codegen() that makes three for each child.
Threes(steps) ==
    [j \in 1..(3 * Len(steps)) |-> steps[(j + 2) \div 3][((j + 2) % 3) + 1]]

-----------------------------------------------------------------------------
(* Programs and functions.                                                 *)

ASTProgram(n) == GenAll(n, "function") \o <<Known("result", ConstantInt)>>

\* n.names: the function and its formals; n.kids: declarations and statements.
ASTFunction(n) ==
    <<EnterFunction(n.names[1])>>
    \o [i \in 1..(Len(n.names) - 1) |-> Local(n.names[i + 1])]
    \o GenAll(n, "statement")
    \o <<Known("result", ConstantInt)>>

ASTDeclStmt(n) ==
    [i \in 1..Len(n.names) |-> Local(n.names[i])]
    \o <<Known("result", ConstantInt)>>

-----------------------------------------------------------------------------
(* Expressions.                                                            *)

\* Numbers, true, false and null are constants.
ASTNumberExpr == <<Known("result", ConstantInt)>>

\* A name is a local, else a function, which is an index into the table.
ASTVariableExpr(n, isLValue, NamedValues) ==
    IF n.names[1] \notin DOMAIN NamedValues
    THEN <<Known("result", ConstantInt)>>
    ELSE IF isLValue
    THEN <<Known("result", NamedValues[n.names[1]])>>
    ELSE <<Known("alloca", NamedValues[n.names[1]]),
           Emit("result", "i64", [alloca |-> "ptr"])>>

ASTBinaryExpr(n) ==
    <<Gen(1, "L"), Gen(2, "R"),
      Emit("result",
           IF n.names[1] \in {">", "<", ">=", "<=", "==", "!="} THEN "i1" ELSE "i64",
           [L |-> "same", R |-> "same"])>>

ASTAndExpr ==
    <<Gen(1, "L"), Gen(2, "R"),
      Emit("castLeft", "i64", [L |-> "int"]), Emit("castRight", "i64", [R |-> "int"]),
      Emit("result", "i64", [castLeft |-> "i64", castRight |-> "i64"])>>

ASTOrExpr ==
    <<Gen(1, "L"), Gen(2, "R"),
      Emit("castLeft", "i64", [L |-> "int"]), Emit("castRight", "i64", [R |-> "int"]),
      Emit("addBool", "i64", [castLeft |-> "i64", castRight |-> "i64"]),
      Emit("comp", "i1", [addBool |-> "i64"]),
      Emit("result", "i64", [comp |-> "int"])>>

ASTNotExpr ==
    <<Gen(1, "L"), Emit("casted", "i1", [L |-> "int"]),
      Emit("n", "i1", [casted |-> "i1"]), Emit("result", "i64", [n |-> "int"])>>

ASTNegationExpr == <<Gen(1, "E"), Emit("result", "i64", [E |-> "i64"])>>

\* Both arms are generated, and run, before one of the two values is selected.
ASTTernaryExpr ==
    <<Gen(1, "condV"), Gen(2, "thenV"), Gen(3, "elseV"),
      Emit("cond", "i1", [condV |-> "int"]),
      Emit("result", "same", [cond |-> "i1", thenV |-> "same", elseV |-> "same"])>>

ASTInputExpr == <<Emit("result", "i64", NoOperands)>>

ASTFunAppExpr(n) ==
    <<Gen(1, "funVal"), Emit("gep", "ptr", [funVal |-> "i64"]),
      Emit("castFunPtr", "ptr", [gep |-> "ptr"])>>
    \o [i \in 1..(Len(n.kids) - 1) |-> Gen(i + 1, Actual[i])]
    \o <<Emit("result", "i64",
              [x \in {"castFunPtr"} \cup {Actual[i] : i \in 1..(Len(n.kids) - 1)} |->
                   IF x = "castFunPtr" THEN "ptr" ELSE "i64"])>>

ASTAllocExpr_FlagKept ==       \* mutated form: allocFlag stays set
    <<allocationFlag(TRUE), Gen(1, "argVal"),
      Emit("castPtr", "ptr", NoOperands), Store("argVal", "castPtr"),
      Emit("result", "i64", [castPtr |-> "ptr"])>>

ASTAllocExpr ==
    <<allocationFlag(TRUE), Gen(1, "argVal"), allocationFlag(FALSE),
      Emit("castPtr", "ptr", NoOperands), Store("argVal", "castPtr"),
      Emit("result", "i64", [castPtr |-> "ptr"])>>

\* CreatePtrToInt returns an operand that is an i64 already as it is.
ASTRefExpr ==
    <<lValueFlag(TRUE), Gen(1, "lValue"), lValueFlag(FALSE),
      Emit("result", "i64", [lValue |-> "ptr"])>>

ASTDeRefExpr_FlagKept(isLValue) ==    \* mutated form: lValueGen is not reset
    <<Gen(1, "argVal"), Emit("address", "ptr", [argVal |-> "i64"]),
      IF isLValue THEN Emit("result", "ptr", [address |-> "ptr"])
                  ELSE Emit("result", "i64", [address |-> "ptr"])>>

ASTDeRefExpr(isLValue) ==
    (IF isLValue THEN <<lValueFlag(FALSE)>> ELSE << >>)
    \o <<Gen(1, "argVal"), Emit("address", "ptr", [argVal |-> "i64"]),
         IF isLValue THEN Emit("result", "ptr", [address |-> "ptr"])
                     ELSE Emit("result", "i64", [address |-> "ptr"])>>

\* In the heap while the flag of "alloc" is set, else in the function's frame.
ASTRecordExpr(n, isAlloc) ==
    (IF isAlloc THEN <<Emit("calloc", "ptr", NoOperands),
                       Emit("record", "ptr", [calloc |-> "ptr"])>>
                ELSE <<Emit("record", "ptr", NoOperands)>>)
    \o Threes([i \in 1..Len(n.kids) |->
                  <<Emit("gep", "ptr", [record |-> "ptr"]),
                    Gen(i, "value"), Store("value", "gep")>>])
    \o <<Emit("result", "i64", [record |-> "ptr"])>>

ASTAccessExpr(isLValue) ==
    (IF isLValue THEN <<lValueFlag(FALSE)>> ELSE << >>)
    \o <<Gen(1, "recordVal"), Emit("recordAddress", "ptr", [recordVal |-> "i64"]),
         IF isLValue THEN Emit("result", "ptr", [recordAddress |-> "ptr"])
                     ELSE Emit("result", "i64", [recordAddress |-> "ptr"])>>

-----------------------------------------------------------------------------
(* Arrays.                                                                 *)

ASTArrayExpr(n) ==
    <<Emit("castPtr", "ptr", NoOperands), Known("entryCount", ConstantInt),
      Store("entryCount", "castPtr")>>
    \o Threes([i \in 1..Len(n.kids) |->
                  <<Gen(i, "entry"), Emit("storePtr", "ptr", [castPtr |-> "ptr"]),
                    Store("entry", "storePtr")>>])
    \o <<Emit("result", "i64", [castPtr |-> "ptr"])>>

ASTOfArrayExpr ==
    <<Gen(1, "count"), Known("oneV", ConstantInt),
      Emit("arraySize", "i64", [count |-> "i64"]),
      Emit("castPtr", "ptr", [arraySize |-> "i64"]), Store("count", "castPtr"),
      Emit("iterPtr", "ptr", NoOperands), Store("oneV", "iterPtr"),
      Blocks("header", {"body", "exit"}), Branch("header"),
      At("header"), Emit("iterVal", "i64", [iterPtr |-> "ptr"]),
      Emit("cond", "i1", [iterVal |-> "i64", count |-> "i64"]),
      CondBranch("cond", "body", "exit"),
      Place("body"), At("body"), Emit("iterVal", "i64", [iterPtr |-> "ptr"]),
      Emit("storePtr", "ptr", [castPtr |-> "ptr", iterVal |-> "i64"]),
      Gen(2, "arrayValue"), Store("arrayValue", "storePtr"),
      Emit("newIterVal", "i64", [iterVal |-> "i64"]), Store("newIterVal", "iterPtr"),
      Branch("header"),
      Place("exit"), At("exit"), Emit("result", "i64", [castPtr |-> "ptr"])>>

ASTArrayLengthExpr ==
    <<Gen(1, "array"), Emit("arrayPtr", "ptr", [array |-> "i64"]),
      Emit("result", "i64", [arrayPtr |-> "ptr"])>>

ASTElementRefrenceOperatorExpr_Reused(isLValue) ==    \* mutated form: the element's
    (IF isLValue THEN <<lValueFlag(FALSE)>> ELSE << >>)     \* address is computed once
    \o <<Gen(1, "array"), Emit("arrayPtr", "ptr", [array |-> "i64"]),
         Gen(2, "index"), Emit("offset", "i64", [index |-> "i64"]),
         Emit("length", "i64", [arrayPtr |-> "ptr"]),
         Emit("cond", "i1", [index |-> "i64", length |-> "i64"]),
         Blocks("then", {"else", "ifmerge"}), CondBranch("cond", "then", "else"),
         At("then"), Emit("error", "void", [index |-> "i64"]), Branch("ifmerge"),
         Place("else"), At("else"),
         Emit("loadPtr", "ptr", [arrayPtr |-> "ptr", offset |-> "i64"]),
         Branch("ifmerge"), Place("ifmerge"), At("ifmerge"),
         IF isLValue THEN Emit("result", "ptr", [loadPtr |-> "ptr"])
                     ELSE Emit("result", "i64", [loadPtr |-> "ptr"])>>

ASTElementRefrenceOperatorExpr(isLValue) ==
    (IF isLValue THEN <<lValueFlag(FALSE)>> ELSE << >>)
    \o <<Gen(1, "array"), Emit("arrayPtr", "ptr", [array |-> "i64"]),
         Gen(2, "index"), Emit("offset", "i64", [index |-> "i64"]),
         Emit("length", "i64", [arrayPtr |-> "ptr"]),
         Emit("cond", "i1", [index |-> "i64", length |-> "i64"]),
         Emit("theArrayElement", "ptr", NoOperands),
         Blocks("then", {"else", "ifmerge"}), CondBranch("cond", "then", "else"),
         At("then"), Emit("error", "void", [index |-> "i64"]), Branch("ifmerge"),
         Place("else"), At("else"),
         Emit("loadPtr", "ptr", [arrayPtr |-> "ptr", offset |-> "i64"]),
         Emit("value", "i64", [loadPtr |-> "ptr"]), Store("value", "theArrayElement"),
         Branch("ifmerge"),
         Place("ifmerge"), At("ifmerge"),
         IF isLValue THEN Emit("result", "ptr", [arrayPtr |-> "ptr", offset |-> "i64"])
                     ELSE Emit("result", "i64", [theArrayElement |-> "ptr"])>>

-----------------------------------------------------------------------------
(* Statements.                                                             *)

ASTAssignStmt ==
    <<lValueFlag(TRUE), Gen(1, "lValue"), lValueFlag(FALSE), Gen(2, "rValue"),
      Store("rValue", "lValue"), Known("result", ConstantInt)>>

\* Increments and decrements differ in the operation alone.
ASTIncrementStmt ==
    <<lValueFlag(TRUE), Gen(1, "lValue"), lValueFlag(FALSE),
      Emit("incTarget", "i64", [lValue |-> "ptr"]),
      Emit("inctmp", "i64", [incTarget |-> "i64"]), Store("inctmp", "lValue"),
      Known("result", ConstantInt)>>

ASTOutputStmt == <<Gen(1, "argVal"), Emit("result", "i64", [argVal |-> "i64"])>>

ASTReturnStmt ==
    <<Gen(1, "argVal"),
      [do |-> "terminate", need |-> [argVal |-> "i64"], to |-> {}],
      Known("result", ConstantInt)>>

ASTBlockStmt(n) ==
    GenAll(n, "result")
    \o (IF Len(n.kids) = 0 THEN <<Nop>> ELSE << >>)

ASTWhileStmt ==
    <<Blocks("header", {"body", "exit"}), Branch("header"),
      At("header"), Gen(1, "CondV"), Emit("loopcond", "i1", [CondV |-> "int"]),
      CondBranch("loopcond", "body", "exit"),
      Place("body"), At("body"), Gen(2, "BodyV"), Branch("header"),
      Place("exit"), At("exit"), Nop>>

ASTIfStmt_BranchToThen(n) ==   \* mutated form: ends the block "then" by its name
    <<Gen(1, "CondV"), Emit("ifcond", "i1", [CondV |-> "int"]),
      Blocks("then", {"else", "ifmerge"}), CondBranch("ifcond", "then", "else"),
      At("then"), Gen(2, "ThenV"), At("then"), Branch("ifmerge"),
      Place("else"), At("else"),
      IF Len(n.kids) = 3 THEN Gen(3, "ElseV") ELSE Nop, At("else"), Branch("ifmerge"),
      Place("ifmerge"), At("ifmerge"), Nop>>

ASTIfStmt(n) ==
    <<Gen(1, "CondV"), Emit("ifcond", "i1", [CondV |-> "int"]),
      Blocks("then", {"else", "ifmerge"}), CondBranch("ifcond", "then", "else"),
      At("then"), Gen(2, "ThenV"), Branch("ifmerge"),
      Place("else"), At("else"),
      IF Len(n.kids) = 3 THEN Gen(3, "ElseV") ELSE Nop, Branch("ifmerge"),
      Place("ifmerge"), At("ifmerge"), Nop>>

ASTForIterStmt ==
    <<Gen(2, "array"), lValueFlag(TRUE), Gen(1, "iterator"), lValueFlag(FALSE),
      Emit("arrayPtr", "ptr", [array |-> "i64"]),
      Emit("length", "i64", [arrayPtr |-> "ptr"]),
      Emit("indexPtr", "ptr", NoOperands), Known("oneV", ConstantInt),
      Store("oneV", "indexPtr"),
      Blocks("header", {"body", "exit"}), Branch("header"),
      At("header"), Emit("curIndex", "i64", [indexPtr |-> "ptr"]),
      Emit("loopcond", "i1", [curIndex |-> "i64", length |-> "i64"]),
      CondBranch("loopcond", "body", "exit"),
      Place("body"), At("body"), Emit("curIndex", "i64", [indexPtr |-> "ptr"]),
      Emit("loadPtr", "ptr", [arrayPtr |-> "ptr", curIndex |-> "i64"]),
      Emit("arrayElementValue", "i64", [loadPtr |-> "ptr"]), Store("arrayElementValue", "iterator"),
      Gen(3, "BodyV"),
      Emit("inctmp", "i64", [curIndex |-> "i64"]), Store("inctmp", "indexPtr"),
      Branch("header"),
      Place("exit"), At("exit"), Nop>>

\* The step, when there is one, is the fourth child and the body the fifth.
ASTForRangeStmt(n) ==
    <<lValueFlag(TRUE), Gen(1, "iterator"), lValueFlag(FALSE),
      Gen(2, "start"), Gen(3, "end"),
      IF Len(n.kids) = 5 THEN Gen(4, "step") ELSE Known("step", ConstantInt),
      Store("start", "iterator"),
      Blocks("header", {"body", "exit"}), Branch("header"),
      At("header"), Emit("curVal", "i64", [iterator |-> "ptr"]),
      Emit("loopcond", "i1", [curVal |-> "i64", end |-> "i64"]),
      CondBranch("loopcond", "body", "exit"),
      Place("body"), At("body"), Emit("cur", "i64", [iterator |-> "ptr"]),
      Gen(Len(n.kids), "BodyV"),
      Emit("inctmp", "i64", [cur |-> "i64", step |-> "i64"]),
      Store("inctmp", "iterator"), Branch("header"),
      Place("exit"), At("exit"), Nop>>
=============================================================================
