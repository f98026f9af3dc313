------------------------------- MODULE CodeGen -------------------------------
(***************************************************************************)
(* Code generation.  The codegen() functions call each other down the      *)
(* syntax tree and share module globals: the flags lValueGen and           *)
(* allocFlag, the names of the current function, the counter of labels and *)
(* the block the IRBuilder inserts into.  "calls" is the C++ stack: one    *)
(* frame per active codegen(), with the steps it still has to do, its      *)
(* local variables and the flags it read on entry.                         *)
(*                                                                         *)
(* What the IRBuilder makes is kept as far as the properties need it: the  *)
(* control-flow graph, and which blocks use values of which.  Its own      *)
(* checks of types are assertions, compiled out of a release build, and    *)
(* the results of verifyFunction and verifyModule are ignored: ill-typed   *)
(* operands stop nothing.                                                  *)
(***************************************************************************)
EXTENDS CodeGenFunctions, FiniteSets

CONSTANTS
    Nodes,           \* the nodes of the syntax trees
    Programs         \* the ASTProgram nodes that may be compiled

\* What the grammar says of the children of a node.
ConstantClasses == {"ASTNumberExpr", "ASTTrueExpr", "ASTFalseExpr", "ASTNullExpr"}
UnaryClasses ==
    {"ASTNotExpr", "ASTNegationExpr", "ASTAllocExpr", "ASTRefExpr", "ASTDeRefExpr",
     "ASTAccessExpr", "ASTArrayLengthExpr"}
BinaryClasses ==
    {"ASTBinaryExpr", "ASTAndExpr", "ASTOrExpr", "ASTOfArrayExpr", "ASTElementRefrenceOperatorExpr"}
ExprClasses ==
    {"ASTVariableExpr", "ASTInputExpr", "ASTTernaryExpr", "ASTFunAppExpr", "ASTRecordExpr",
     "ASTArrayExpr"} \cup ConstantClasses \cup UnaryClasses \cup BinaryClasses
UpdateClasses == {"ASTIncrementStmt", "ASTDecrementStmt", "ASTOutputStmt", "ASTErrorStmt"}
StmtClasses ==
    {"ASTAssignStmt", "ASTBlockStmt", "ASTWhileStmt", "ASTIfStmt", "ASTForIterStmt",
     "ASTForRangeStmt"} \cup UpdateClasses

Sort(n) ==
    IF n.cls \in ExprClasses THEN "expr" ELSE IF n.cls \in StmtClasses THEN "statement" ELSE n.cls
Kids(n) == {n.kids[i] : i \in DOMAIN n.kids}
Sorts(n) == [i \in DOMAIN n.kids |-> Sort(n.kids[i])]
AllOf(n, sorts) == \A kid \in Kids(n) : Sort(kid) \in sorts

Grammatical(n) ==
    CASE n.cls \in ConstantClasses \cup {"ASTVariableExpr", "ASTInputExpr", "ASTDeclStmt"} ->
             Sorts(n) = << >>
      [] n.cls \in UnaryClasses \cup UpdateClasses \cup {"ASTReturnStmt"} -> Sorts(n) = <<"expr">>
      [] n.cls \in BinaryClasses \cup {"ASTAssignStmt"} -> Sorts(n) = <<"expr", "expr">>
      [] n.cls = "ASTTernaryExpr" -> Sorts(n) = <<"expr", "expr", "expr">>
      [] n.cls \in {"ASTRecordExpr", "ASTArrayExpr"} -> AllOf(n, {"expr"})
      [] n.cls = "ASTFunAppExpr" -> AllOf(n, {"expr"}) /\ Len(n.kids) > 0
      [] n.cls = "ASTBlockStmt" -> AllOf(n, {"statement"})
      [] n.cls = "ASTWhileStmt" -> Sorts(n) = <<"expr", "statement">>
      [] n.cls = "ASTIfStmt" ->
             Sorts(n) \in {<<"expr", "statement">>, <<"expr", "statement", "statement">>}
      [] n.cls = "ASTForIterStmt" -> Sorts(n) = <<"expr", "expr", "statement">>
      [] n.cls = "ASTForRangeStmt" ->
             Sorts(n) \in {<<"expr", "expr", "expr", "statement">>,
                           <<"expr", "expr", "expr", "expr", "statement">>}
      [] n.cls = "ASTFunction" ->
             /\ Len(n.names) > 0 /\ Len(n.kids) > 0
             /\ AllOf(n, {"ASTDeclStmt", "statement", "ASTReturnStmt"})
             /\ \A i \in DOMAIN n.kids : n.kids[i].cls = "ASTReturnStmt" <=> i = Len(n.kids)
      [] n.cls = "ASTProgram" ->
             /\ AllOf(n, {"ASTFunction"})
             /\ \A i, j \in DOMAIN n.kids : n.kids[i].names[1] = n.kids[j].names[1] => i = j
      [] OTHER -> FALSE

Weeding == INSTANCE Assignable

\* The trees are parsed and weeded, and "Actual" has enough names for any call.
ASSUME NodesAssumption ==
    /\ Programs \subseteq Nodes /\ \A p \in Programs : p.cls = "ASTProgram"
    /\ UNION {Kids(n) : n \in Nodes} \subseteq Nodes
    /\ \A n \in Nodes :
          /\ n.names \in Seq(STRING) /\ n.kids \in Seq(Kids(n))
          /\ Grammatical(n) /\ Weeding!endVisit(n)
          /\ n.cls = "ASTFunAppExpr" => Len(n.kids) <= Len(Actual) + 1

VARIABLES
    calls,           \* the stack of codegen() frames
    lValueGen,
    allocFlag,
    NamedValues,     \* names of the current function to their allocas
    labelNum,
    insertAt,        \* the block instructions are appended to
    blocks,          \* blocks made so far: placed in a function?, terminated
                     \* how often, with which successors
    uses             \* <<b, c>>: block c uses a value that block b computes

vars == <<calls, lValueGen, allocFlag, NamedValues, labelNum, insertAt, blocks, uses>>

-----------------------------------------------------------------------------

\* The virtual function of a node's class.
codegen(n) ==
    CASE n.cls = "ASTProgram" -> ASTProgram(n)
      [] n.cls = "ASTFunction" -> ASTFunction(n)
      [] n.cls = "ASTDeclStmt" -> ASTDeclStmt(n)
      [] n.cls \in ConstantClasses -> ASTNumberExpr
      [] n.cls = "ASTVariableExpr" -> ASTVariableExpr(n, lValueGen, NamedValues)
      [] n.cls = "ASTBinaryExpr" -> ASTBinaryExpr(n)
      [] n.cls = "ASTAndExpr" -> ASTAndExpr
      [] n.cls = "ASTOrExpr" -> ASTOrExpr
      [] n.cls = "ASTNotExpr" -> ASTNotExpr
      [] n.cls = "ASTNegationExpr" -> ASTNegationExpr
      [] n.cls = "ASTTernaryExpr" -> ASTTernaryExpr
      [] n.cls = "ASTInputExpr" -> ASTInputExpr
      [] n.cls = "ASTFunAppExpr" -> ASTFunAppExpr(n)
      [] n.cls = "ASTAllocExpr" -> ASTAllocExpr
      [] n.cls = "ASTRefExpr" -> ASTRefExpr
      [] n.cls = "ASTDeRefExpr" -> ASTDeRefExpr(lValueGen)
      [] n.cls = "ASTRecordExpr" -> ASTRecordExpr(n, allocFlag)
      [] n.cls = "ASTAccessExpr" -> ASTAccessExpr(lValueGen)
      [] n.cls = "ASTArrayExpr" -> ASTArrayExpr(n)
      [] n.cls = "ASTOfArrayExpr" -> ASTOfArrayExpr
      [] n.cls = "ASTArrayLengthExpr" -> ASTArrayLengthExpr
      [] n.cls = "ASTElementRefrenceOperatorExpr" ->
             ASTElementRefrenceOperatorExpr(lValueGen)
      [] n.cls = "ASTAssignStmt" -> ASTAssignStmt
      [] n.cls \in {"ASTIncrementStmt", "ASTDecrementStmt"} -> ASTIncrementStmt
      [] n.cls \in {"ASTOutputStmt", "ASTErrorStmt"} -> ASTOutputStmt
      [] n.cls = "ASTReturnStmt" -> ASTReturnStmt
      [] n.cls = "ASTBlockStmt" -> ASTBlockStmt(n)
      [] n.cls = "ASTWhileStmt" -> ASTWhileStmt
      [] n.cls = "ASTIfStmt" -> ASTIfStmt(n)
      [] n.cls = "ASTForIterStmt" -> ASTForIterStmt
      [] n.cls = "ASTForRangeStmt" -> ASTForRangeStmt(n)

\* A frame: nothing has been assigned to its locals, no label taken.
Frame(n) ==
    [node |-> n, todo |-> codegen(n), local |-> [x \in {} |-> ConstantInt],
     label |-> 0, isAlloc |-> allocFlag]

Top == calls[Len(calls)]
Step == Head(Top.todo)

Running(what) == calls # << >> /\ Top.todo # << >> /\ Step.do = what

Assign(local, x, v) == [y \in DOMAIN local \cup {x} |-> IF y = x THEN v ELSE local[y]]

\* The current frame has made its step; these are now its locals.
Advance(local) ==
    calls' = [calls EXCEPT ![Len(calls)].todo = Tail(@), ![Len(calls)].local = local]

Block(name) == [fn |-> insertAt.fn, label |-> Top.label, name |-> name]

OpenBlock(isPlaced) == [placed |-> isPlaced, ends |-> 0, next |-> {}]

\* Appending an instruction uses its operands in the current block.
UseOperands ==
    uses' = uses \cup {<<Top.local[x].block, insertAt>> : x \in DOMAIN Step.need}

\* The type of an operand that others must agree with, and of the result.
OperandType ==
    Top.local[CHOOSE x \in DOMAIN Step.need : Step.need[x] = "same"].type

ResultType == IF Step.type = "same" THEN OperandType ELSE Step.type

-----------------------------------------------------------------------------

Init ==
    /\ lValueGen = FALSE
    /\ allocFlag = FALSE
    /\ NamedValues = [x \in {} |-> ConstantInt]
    /\ labelNum = 0
    /\ insertAt = NoBlock
    /\ blocks = [b \in {} |-> OpenBlock(TRUE)]
    /\ uses = {}
    /\ \E p \in Programs : calls = <<Frame(p)>>

\* A codegen() calls the one of a child, which reads the flags as they are now.
CallCodegen ==
    /\ Running("codegen")
    /\ calls' = Append(calls, Frame(Top.node.kids[Step.child]))
    /\ UNCHANGED <<lValueGen, allocFlag, NamedValues, labelNum, insertAt, blocks, uses>>

ReturnValue ==
    /\ calls # << >>
    /\ Top.todo = << >>
    /\ LET caller == Len(calls) - 1
           dst == Head(calls[caller].todo).dst
       IN calls' = IF caller = 0 THEN << >>
                   ELSE [SubSeq(calls, 1, caller) EXCEPT
                            ![caller].todo = Tail(@),
                            ![caller].local = Assign(@, dst, Top.local["result"])]
    /\ UNCHANGED <<lValueGen, allocFlag, NamedValues, labelNum, insertAt, blocks, uses>>

SetLValueGen ==
    /\ Running("lValueGen")
    /\ lValueGen' = Step.to
    /\ Advance(Top.local)
    /\ UNCHANGED <<allocFlag, NamedValues, labelNum, insertAt, blocks, uses>>

SetAllocFlag ==
    /\ Running("allocFlag")
    /\ allocFlag' = Step.to
    /\ Advance(Top.local)
    /\ UNCHANGED <<lValueGen, NamedValues, labelNum, insertAt, blocks, uses>>

UseKnownValue ==
    /\ Running("known")
    /\ Advance(Assign(Top.local, Step.dst, Step.value))
    /\ UNCHANGED <<lValueGen, allocFlag, NamedValues, labelNum, insertAt, blocks, uses>>

EmitInstruction ==
    /\ Running("emit")
    /\ Advance(Assign(Top.local, Step.dst, [type |-> ResultType, block |-> insertAt]))
    /\ UseOperands
    /\ UNCHANGED <<lValueGen, allocFlag, NamedValues, labelNum, insertAt, blocks>>

EmitStore ==
    /\ Running("store")
    /\ Advance(Top.local)
    /\ UseOperands
    /\ UNCHANGED <<lValueGen, allocFlag, NamedValues, labelNum, insertAt, blocks>>

\* Allocas go to the entry block, whatever the current block is.
AddLocal ==
    /\ Running("local")
    /\ NamedValues' = Assign(NamedValues, Step.name,
                             [type |-> "ptr", block |-> [insertAt EXCEPT !.label = 0, !.name = "entry"]])
    /\ Advance(Top.local)
    /\ UNCHANGED <<lValueGen, allocFlag, labelNum, insertAt, blocks, uses>>

StartFunction ==
    /\ Running("enter")
    /\ insertAt' = [fn |-> Step.name, label |-> 0, name |-> "entry"]
    /\ blocks' = Assign(blocks, insertAt', OpenBlock(TRUE))
    /\ NamedValues' = [x \in {} |-> ConstantInt]
    /\ Advance(Top.local)
    /\ UNCHANGED <<lValueGen, allocFlag, labelNum, uses>>

CreateBlocks ==
    /\ Running("blocks")
    /\ labelNum' = labelNum + 1
    /\ LET id(name) == [fn |-> insertAt.fn, label |-> labelNum', name |-> name]
           made == {id(name) : name \in {Step.first} \cup Step.others}
       IN blocks' = [b \in DOMAIN blocks \cup made |->
                        IF b \in made THEN OpenBlock(b = id(Step.first)) ELSE blocks[b]]
    /\ calls' = [calls EXCEPT ![Len(calls)].todo = Tail(@),
                              ![Len(calls)].label = labelNum']
    /\ UNCHANGED <<lValueGen, allocFlag, NamedValues, insertAt, uses>>

PlaceBlock ==
    /\ Running("place")
    /\ blocks' = [blocks EXCEPT ![Block(Step.block)].placed = TRUE]
    /\ Advance(Top.local)
    /\ UNCHANGED <<lValueGen, allocFlag, NamedValues, labelNum, insertAt, uses>>

SetInsertPoint ==
    /\ Running("at")
    /\ insertAt' = Block(Step.block)
    /\ Advance(Top.local)
    /\ UNCHANGED <<lValueGen, allocFlag, NamedValues, labelNum, blocks, uses>>

EmitTerminator ==
    /\ Running("terminate")
    /\ blocks' = [blocks EXCEPT ![insertAt].ends = @ + 1,
                                ![insertAt].next = @ \cup {Block(b) : b \in Step.to}]
    /\ Advance(Top.local)
    /\ UseOperands
    /\ UNCHANGED <<lValueGen, allocFlag, NamedValues, labelNum, insertAt>>

\* The module has been handed to the driver.
Done == calls = << >> /\ UNCHANGED vars

Next ==
    \/ CallCodegen \/ ReturnValue \/ SetLValueGen \/ SetAllocFlag \/ UseKnownValue
    \/ EmitInstruction \/ EmitStore \/ AddLocal \/ StartFunction \/ CreateBlocks
    \/ PlaceBlock \/ SetInsertPoint \/ EmitTerminator \/ Done

Spec == Init /\ [][Next]_vars

-----------------------------------------------------------------------------
(* Properties.                                                             *)

Fits(v, need) ==
    CASE need = "int" -> v.type \in {"i64", "i1"}
      [] need = "same" -> /\ v.type \in {"i64", "i1"}
                          /\ v.type = OperandType
      [] OTHER -> v.type = need

Appending == Running("emit") \/ Running("store") \/ Running("terminate")

Comparison(e) == e.cls = "ASTBinaryExpr" /\ e.names[1] \in {"<", "<=", ">", ">=", "==", "!="}

\* Where the code departs from its comments.  "A uniform representation of all
\* types in memory, Int64" (line 53): the one bit of a comparison is stored,
\* passed, returned and compared with what has 64 as it is.  "The argument must
\* be capable of generating an l-value.  This is checked in the weeding pass."
\* (line 614): the weeding pass takes the name of a function for a variable,
\* and its "address" is its index: that of f in &f, f = g and for (f : a).
OneBit(e) == Comparison(e) \/ e.cls = "ASTTernaryExpr"

OneBitIsUsed(x) ==
    /\ \E i \in DOMAIN Top.node.kids : OneBit(Top.node.kids[i])
    /\ \/ Step.need[x] = "i64" /\ Top.local[x].type = "i1"
       \/ /\ Step.need[x] = "same"
          /\ \E y \in DOMAIN Step.need : Step.need[y] = "same" /\ Top.local[y].type = "i1"

NamesFunction(e) == e.cls = "ASTVariableExpr" /\ e.names[1] \notin DOMAIN NamedValues

FunctionAddressed(x) ==
    x \in {"lValue", "iterator"} /\ Top.local[x] = ConstantInt /\ NamesFunction(Top.node.kids[1])

\* Every instruction gets operands of the types it needs, but for those two.
\* So an address is generated exactly where one is needed, though what an
\* expression generates hangs on a global flag that its callers set and that
\* its own class resets.
OperandsFit ==
    Appending =>
        \A x \in DOMAIN Step.need :
            Fits(Top.local[x], Step.need[x]) \/ OneBitIsUsed(x) \/ FunctionAddressed(x)

\* The blocks control can get to from block b without entering block avoided.
From(b, avoided) ==
    LET more(S) == S \cup ((UNION {blocks[c].next : c \in S}) \ {avoided})
        reached[k \in 0..Cardinality(DOMAIN blocks)] ==
            IF k = 0 THEN {b} \ {avoided} ELSE more(reached[k - 1])
    IN reached[Cardinality(DOMAIN blocks)]

Entry(b) == [b EXCEPT !.label = 0, !.name = "entry"]

\* Nothing is appended to a block that is terminated or in no function, and in
\* the module every block is in its function and ends in one terminator, which
\* branches to blocks of the function; control can reach every block, and the
\* return from every block, however the codegen()s of nested statements and
\* expressions move the insert point.
BlocksWellFormed ==
    /\ Appending => blocks[insertAt].placed /\ blocks[insertAt].ends = 0
    /\ calls = << >> =>
          \A b \in DOMAIN blocks :
              /\ blocks[b].placed
              /\ blocks[b].ends = 1
              /\ \A c \in blocks[b].next : blocks[c].placed /\ c.fn = b.fn
              /\ b \in From(Entry(b), NoBlock)
              /\ \E c \in From(b, NoBlock) : blocks[c].next = {}

\* In the module a value is computed before it is used on every path: codegen()
\* keeps values in C++ locals while its children add branches of their own.
DefinitionsDominateUses ==
    calls = << >> =>
        \A u \in uses :
            u[1] \in {NoBlock, u[2]} \/ u[2] \notin From(Entry(u[2]), u[1])

Enclosed(i) == \E j \in 1..(i - 1) : calls[j].node.cls = "ASTAllocExpr"

\* The record that is the argument of an alloc goes to the heap, and a record
\* that is within no alloc to the frame of its function.
RecordsWhereTheyBelong ==
    \A i \in 2..Len(calls) :
        calls[i].node.cls = "ASTRecordExpr" =>
            /\ calls[i - 1].node.cls = "ASTAllocExpr" => calls[i].isAlloc
            /\ calls[i].isAlloc => Enclosed(i)
=============================================================================
