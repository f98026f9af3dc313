------------------------ MODULE CodeGenTypingProofs ------------------------
(***************************************************************************)
(* The operands of every instruction fit, for every syntax tree that the   *)
(* weeding pass accepts.                                                   *)
(*                                                                         *)
(* What codegen() returns is an address if the global lValueGen was set    *)
(* when it was called and a value otherwise, and nothing in its type says  *)
(* so.  The invariant gives each local of each codegen() a kind, by its    *)
(* name, and says that what a frame's locals hold and what its steps still *)
(* expect of them are of that kind; that lValueGen is set exactly for the  *)
(* child whose address is wanted; and that such a child resets the flag    *)
(* before it calls another codegen(), or is a variable.                    *)
(*                                                                         *)
(* The first part of the module shows it of every list of steps as its     *)
(* frame starts, one lemma per codegen(), the rest of every step.          *)
(***************************************************************************)
EXTENDS CodeGenProofs

(* The locals of the codegen()s by what they hold: addresses, 64-bit words,  *)
(* bits, the address of a target, and values of children.                    *)
Pointers ==
    {"alloca", "gep", "castPtr", "address", "calloc", "record", "recordAddress",
     "storePtr", "iterPtr", "arrayPtr", "loadPtr", "theArrayElement", "indexPtr"}
Words ==
    {"castLeft", "castRight", "addBool", "oneV", "entryCount", "arraySize", "iterVal",
     "newIterVal", "offset", "length", "incTarget", "inctmp", "curIndex",
     "arrayElementValue", "curVal", "cur"}
Bits == {"comp", "casted", "n", "cond", "loopcond", "ifcond"}
Values ==
    {"L", "R", "E", "condV", "thenV", "elseV", "argVal", "value", "recordVal", "entry",
     "count", "arrayValue", "array", "index", "CondV", "rValue", "start", "end", "step"}

OuterClasses == {"ASTProgram", "ASTFunction", "ASTDeclStmt"}
TargetClasses ==
    {"ASTVariableExpr", "ASTDeRefExpr", "ASTAccessExpr", "ASTElementRefrenceOperatorExpr"}

(* What the local x of the codegen() of n holds.  The names of a program,   *)
(* of a function and of a declaration hold nothing that is used.            *)
Kind(n, x) ==
    IF n.cls \in OuterClasses THEN "none"
    ELSE IF x = "result" THEN IF n.cls \in ExprClasses THEN "result" ELSE "none"
    ELSE IF n.cls = "ASTFunAppExpr"
    THEN IF x \in {"gep", "castFunPtr"} THEN "pointer" ELSE "value"
    ELSE IF x \in Pointers THEN "pointer"
    ELSE IF x \in Words THEN "word"
    ELSE IF x \in Bits THEN "bit"
    ELSE IF x \in Values THEN "value"
    ELSE IF x \in {"lValue", "iterator"} THEN "target" ELSE "none"

(* The value of a local, by its kind.  What codegen() returns depends on    *)
(* lv, what lValueGen was when it was called.                               *)
IsFunctionName(e, names) == e.cls = "ASTVariableExpr" /\ e.names[1] \notin DOMAIN names
OneBitKid(n) == \E i \in DOMAIN n.kids : OneBit(n.kids[i])

Holds(n, x, v, lv, names) ==
    /\ Kind(n, x) = "pointer" => v.type = "ptr"
    /\ Kind(n, x) = "word" => v.type = "i64"
    /\ Kind(n, x) = "bit" => v.type = "i1"
    /\ Kind(n, x) = "value" => v.type = "i64" \/ (v.type = "i1" /\ OneBitKid(n))
    /\ Kind(n, x) = "target" => v.type = "ptr" \/ (v = ConstantInt /\ IsFunctionName(n.kids[1], names))
    /\ Kind(n, x) = "result" =>
          IF lv THEN v.type = "ptr" \/ (v = ConstantInt /\ IsFunctionName(n, names))
                ELSE v.type = "i64" \/ (v.type = "i1" /\ OneBit(n))

(* An operand that is needed as a t may be read from the local x.           *)
Gets(n, x, t) ==
    \/ t = "ptr" /\ Kind(n, x) \in {"pointer", "target"}
    \/ t = "i64" /\ Kind(n, x) \in {"word", "value"}
    \/ t = "i1" /\ Kind(n, x) = "bit"
    \/ t = "int" /\ Kind(n, x) \in {"bit", "value"}
    \/ t = "same" /\ Kind(n, x) = "value"

(* What a step reads and what it writes.                                    *)
HasNeeds(s) == s.do \in {"emit", "store", "terminate"}
Defines(s, x) == s.do \in {"codegen", "emit", "known"} /\ s.dst = x
IsTarget(n, s) == s.do = "codegen" /\ Kind(n, s.dst) = "target"

(* A step of the codegen() of n leaves in its local what is expected there, *)
(* and reads only locals that hold what it needs.                           *)
StepTyped(n, s, lv, names) ==
    /\ s.do = "codegen" =>
          /\ Kind(n, s.dst) \in {"value", "target", "none"}
          /\ Kind(n, s.dst) = "value" => n.kids[s.child].cls \in ExprClasses
          /\ Kind(n, s.dst) = "target" => s.child = 1 /\ n.kids[1].cls \in TargetClasses
    /\ s.do = "known" => Holds(n, s.dst, s.value, lv, names)
    /\ s.do = "emit" =>
          IF s.type = "same"
          THEN Kind(n, s.dst) = "result" /\ OneBit(n) /\ ~lv /\ \E x \in DOMAIN s.need : s.need[x] = "same"
          ELSE Kind(n, s.dst) # "target" /\ \A b : Holds(n, s.dst, [type |-> s.type, block |-> b], lv, names)
    /\ HasNeeds(s) => \A x \in DOMAIN s.need : Gets(n, x, s.need[x])
    /\ s.do \in {"local", "enter"} => n.cls \in OuterClasses

(* The steps of s read locals of X and those that an earlier step defines.  *)
Closed(X, s) ==
    \A j \in DOMAIN s : HasNeeds(s[j]) =>
        \A x \in DOMAIN s[j].need : x \in X \/ \E k \in 1 .. j - 1 : Defines(s[k], x)

(* lValueGen is set right before, and reset right after, a child is asked   *)
(* for an address.                                                          *)
FlagsPaired(n, s) ==
    \A j \in DOMAIN s :
        /\ s[j].do = "lValueGen" => s[j].to \in BOOLEAN
        /\ s[j].do = "lValueGen" /\ s[j].to => j + 1 \in DOMAIN s /\ IsTarget(n, s[j + 1])
        /\ IsTarget(n, s[j]) => j + 1 \in DOMAIN s /\ s[j + 1] = lValueFlag(FALSE)
        /\ IsTarget(n, s[j]) /\ j > 1 => s[j - 1] = lValueFlag(TRUE)

(* What lValueGen was when the codegen() of the frame i was called.         *)
LV(i) == i > 1 /\ Kind(calls[i - 1].node, Head(calls[i - 1].todo).dst) = "target"

(* The locals of a frame, and what is left of its steps.                    *)
FrameTyped(f, lv, names) ==
    /\ \A x \in DOMAIN f.local : Holds(f.node, x, f.local[x], lv, names)
    /\ \A j \in DOMAIN f.todo : StepTyped(f.node, f.todo[j], lv, names)
    /\ Closed(DOMAIN f.local, f.todo)
    /\ f.node.cls \in ExprClasses =>
          "result" \in DOMAIN f.local \/ \E k \in DOMAIN f.todo : Defines(f.todo[k], "result")
    /\ FlagsPaired(f.node, f.todo)

(* The names change under frames of programs and functions alone.           *)
OuterBelow ==
    \A i \in DOMAIN calls : calls[i].node.cls \in OuterClasses =>
        \A j \in 1 .. i - 1 : calls[j].node.cls \in {"ASTProgram", "ASTFunction"}

(* The flag is set only between the steps that set and reset it: before the *)
(* child is called, in the child before it resets the flag itself, in a     *)
(* variable, which does not, and after that.                                *)
FlagHasTarget ==
    lValueGen =>
        /\ calls # << >>
        /\ \/ Top.todo # << >> /\ (IsTarget(Top.node, Step) \/ Step = lValueFlag(FALSE))
           \/ Top.node.cls = "ASTVariableExpr" /\ LV(Len(calls))

(* And it is set when a child is called for its address.                    *)
FlagForTarget ==
    calls # << >> /\ Top.todo # << >> /\ IsTarget(Top.node, Step) => lValueGen

(* A frame is that of the child its caller asks for.                        *)
LinkedFrames ==
    \A i \in 1 .. Len(calls) - 1 : calls[i + 1].node = calls[i].node.kids[Head(calls[i].todo).child]

TypingInv ==
    /\ LinkedFrames
    /\ lValueGen \in BOOLEAN
    /\ \A x \in DOMAIN NamedValues : NamedValues[x].type = "ptr"
    /\ OuterBelow /\ FlagHasTarget /\ FlagForTarget
    /\ \A i \in DOMAIN calls : FrameTyped(calls[i], LV(i), NamedValues)

-----------------------------------------------------------------------------
(* The steps of a list as they are typed.  A step is quiet when it neither  *)
(* asks for an address nor sets the flag for one.                           *)
Quiet(n, e) == (e.do = "lValueGen" => e.to = FALSE) /\ ~IsTarget(n, e)

Typed(n, lv, names, X, s) ==
    IsList(s) /\ Closed(X, s) /\ \A j \in DOMAIN s : StepTyped(n, s[j], lv, names)

Good(n, lv, names, X, s) == Typed(n, lv, names, X, s) /\ \A j \in DOMAIN s : Quiet(n, s[j])

(* A whole list: an address is asked for between setting the flag and       *)
(* resetting it.                                                            *)
Paired(n, lv, names, s) ==
    /\ Typed(n, lv, names, {}, s) /\ FlagsPaired(n, s)
    /\ s # << >> => ~IsTarget(n, s[1])

(* A list that asks for one address, by the steps from its k-th.            *)
TripleAt(n, s, k) ==
    /\ k \in Nat \ {0} /\ k + 2 \in DOMAIN s
    /\ s[k] = lValueFlag(TRUE) /\ IsTarget(n, s[k + 1]) /\ s[k + 2] = lValueFlag(FALSE)
    /\ \A j \in DOMAIN s : j \notin {k, k + 1} => Quiet(n, s[j])

Has(s, x) == \E k \in DOMAIN s : Defines(s[k], x)

NeedsOnly(e, S) == HasNeeds(e) => DOMAIN e.need \subseteq S
Fair(n, lv, names, e, S) == StepTyped(n, e, lv, names) /\ NeedsOnly(e, S)
Fine(n, lv, names, e, S) == Fair(n, lv, names, e, S) /\ Quiet(n, e)

Makes(n, d, t) ==
    \/ Kind(n, d) = "pointer" /\ t = "ptr"
    \/ Kind(n, d) = "word" /\ t = "i64"
    \/ Kind(n, d) = "bit" /\ t = "i1"
    \/ Kind(n, d) = "value" /\ t = "i64"
    \/ Kind(n, d) = "none" /\ t # "same"

LEMMA Kinds ==
    ASSUME NEW n, n.cls \notin OuterClasses \cup {"ASTFunAppExpr"}
    PROVE  /\ \A x \in Pointers : Kind(n, x) = "pointer"
           /\ \A x \in Words : Kind(n, x) = "word"
           /\ \A x \in Bits : Kind(n, x) = "bit"
           /\ \A x \in Values : Kind(n, x) = "value"
           /\ Kind(n, "lValue") = "target" /\ Kind(n, "iterator") = "target"
           /\ \A x \in {"ThenV", "ElseV", "BodyV", "error"} : Kind(n, x) = "none"
           /\ n.cls \in ExprClasses => Kind(n, "result") = "result"
           /\ n.cls \notin ExprClasses => Kind(n, "result") = "none"
BY DEF Kind, Pointers, Words, Bits, Values

LEMMA StepDefines ==
    /\ \A c, d : Defines(Gen(c, d), d)
    /\ \A d, v : Defines(Known(d, v), d)
    /\ \A d, t, need : Defines(Emit(d, t, need), d)
    /\ Defines(Nop, "result")
BY DEF Defines, Gen, Known, Emit, Nop

LEMMA FineMoves ==
    ASSUME NEW n, NEW lv, NEW names
    PROVE  /\ \A b : /\ Fair(n, lv, names, lValueFlag(b), {})
                     /\ Fine(n, lv, names, Place(b), {})
                     /\ Fine(n, lv, names, At(b), {})
                     /\ Fine(n, lv, names, Branch(b), {})
                     /\ Fine(n, lv, names, allocationFlag(b), {})
           /\ \A b, c : Fine(n, lv, names, Blocks(b, c), {})
           /\ Fine(n, lv, names, lValueFlag(FALSE), {})
BY DEF Fine, Fair, Quiet, IsTarget, StepTyped, NeedsOnly, HasNeeds, lValueFlag, Place, At, Branch,
       NoOperands, Blocks, allocationFlag

LEMMA FineGens ==
    ASSUME NEW n, NEW lv, NEW names
    PROVE  /\ \A c, d : Kind(n, d) = "none" => Fine(n, lv, names, Gen(c, d), {})
           /\ \A c, d : Kind(n, d) = "value" /\ n.kids[c].cls \in ExprClasses
                        => Fine(n, lv, names, Gen(c, d), {})
           /\ \A d : Kind(n, d) = "target" /\ n.kids[1].cls \in TargetClasses
                     => Fair(n, lv, names, Gen(1, d), {})
BY DEF Fine, Fair, Quiet, IsTarget, StepTyped, NeedsOnly, HasNeeds, Gen

LEMMA FineSteps ==
    ASSUME NEW n, NEW lv, NEW names
    PROVE  /\ \A v, b, c : Kind(n, v) = "bit" => Fine(n, lv, names, CondBranch(v, b, c), {v})
           /\ \A v, a : /\ Kind(n, v) \in {"word", "value"} /\ Kind(n, a) \in {"pointer", "target"}
                        => Fine(n, lv, names, Store(v, a), {v, a})
           /\ \A d : Kind(n, d) \in {"word", "value", "none"} => Fine(n, lv, names, Known(d, ConstantInt), {})
<1> USE DEF Fine, Fair, Quiet, IsTarget, StepTyped, NeedsOnly, HasNeeds
<1>1. \A v, b, c : Kind(n, v) = "bit" => Fine(n, lv, names, CondBranch(v, b, c), {v})
  BY DEF CondBranch, Gets
<1>2. \A v, a : /\ Kind(n, v) \in {"word", "value"} /\ Kind(n, a) \in {"pointer", "target"}
                => Fine(n, lv, names, Store(v, a), {v, a})
  BY DEF Store, Gets
<1>3. \A d : Kind(n, d) \in {"word", "value", "none"} => Fine(n, lv, names, Known(d, ConstantInt), {})
  BY DEF Known, Holds, ConstantInt
<1> QED
  BY <1>1, <1>2, <1>3

LEMMA FineEmits ==
    ASSUME NEW n, NEW lv, NEW names
    PROVE  /\ \A d, t : Makes(n, d, t) => Fine(n, lv, names, Emit(d, t, NoOperands), {})
           /\ Kind(n, "result") = "none" => Fine(n, lv, names, Nop, {})
<1> USE DEF Fine, Fair, Quiet, IsTarget, StepTyped, NeedsOnly, HasNeeds
<1>1. \A d, t : Makes(n, d, t) => Fine(n, lv, names, Emit(d, t, NoOperands), {})
  BY DEF Emit, Makes, Holds, NoOperands
<1>2. Kind(n, "result") = "none" => Fine(n, lv, names, Nop, {})
  BY DEF Emit, Makes, Holds, NoOperands, Nop
<1> QED
  BY <1>1, <1>2

LEMMA TripleIsPaired ==
    ASSUME NEW n, NEW lv, NEW names, NEW s, NEW k, Typed(n, lv, names, {}, s), TripleAt(n, s, k)
    PROVE  Paired(n, lv, names, s)
<1>0. /\ IsList(s) /\ k \in Nat \ {0} /\ k + 2 \in DOMAIN s
      /\ s[k] = lValueFlag(TRUE) /\ IsTarget(n, s[k + 1]) /\ s[k + 2] = lValueFlag(FALSE)
      /\ \A j \in DOMAIN s : j \notin {k, k + 1} => Quiet(n, s[j])
  BY DEF Typed, TripleAt
<1>1. DOMAIN s = 1 .. Len(s) /\ Len(s) \in Nat /\ k \in DOMAIN s /\ k + 1 \in DOMAIN s
  BY <1>0, ListFacts
<1>2. ~IsTarget(n, s[k]) /\ s[k].do = "lValueGen" /\ s[k].to = TRUE /\ s[k + 1].do # "lValueGen"
  BY <1>0 DEF lValueFlag, IsTarget
<1>3. ASSUME NEW j \in DOMAIN s, s[j].do = "lValueGen"
      PROVE  s[j].to \in BOOLEAN /\ (s[j].to => j = k)
  BY <1>0, <1>1, <1>2, <1>3 DEF Quiet
<1>4. ASSUME NEW j \in DOMAIN s, IsTarget(n, s[j]) PROVE j = k + 1
  BY <1>0, <1>1, <1>2, <1>4 DEF Quiet
<1>5. s # << >> => ~IsTarget(n, s[1])
  <2>1. 1 # k + 1 /\ 1 \in DOMAIN s
    BY <1>0, <1>1
  <2> QED
    BY <1>4, <2>1
<1>6. FlagsPaired(n, s)
  <2> SUFFICES ASSUME NEW j \in DOMAIN s
               PROVE  /\ s[j].do = "lValueGen" => s[j].to \in BOOLEAN
                      /\ s[j].do = "lValueGen" /\ s[j].to => j + 1 \in DOMAIN s /\ IsTarget(n, s[j + 1])
                      /\ IsTarget(n, s[j]) => j + 1 \in DOMAIN s /\ s[j + 1] = lValueFlag(FALSE)
                      /\ IsTarget(n, s[j]) /\ j > 1 => s[j - 1] = lValueFlag(TRUE)
    BY DEF FlagsPaired
  <2>1. IsTarget(n, s[j]) => j + 1 = k + 2 /\ j - 1 = k
    BY <1>0, <1>1, <1>4
  <2> QED
    BY <1>0, <1>1, <1>2, <1>3, <1>4, <2>1
<1> QED
  BY <1>5, <1>6 DEF Paired

-----------------------------------------------------------------------------
(* The codegen()s that are one list, whatever their node.                   *)
LEMMA AndTyped ==
    ASSUME NEW n, NEW lv, NEW names,
           n.cls = "ASTAndExpr", n.kids[1].cls \in ExprClasses, n.kids[2].cls \in ExprClasses,
           lv = FALSE
    PROVE  Good(n, lv, names, {}, ASTAndExpr) /\ Has(ASTAndExpr, "result")
<1>0. PICK s : s = ASTAndExpr
  OBVIOUS
<1>1. n.cls \notin OuterClasses \cup {"ASTFunAppExpr"} /\ n.cls \in ExprClasses
  BY DEF OuterClasses, ExprClasses, ConstantClasses, UnaryClasses, BinaryClasses
<1>2. /\ Kind(n, "L") = "value" /\ Kind(n, "R") = "value" /\ Kind(n, "castLeft") = "word"
      /\ Kind(n, "castRight") = "word" /\ Kind(n, "result") = "result"
  BY <1>1, Kinds DEF Values, Words
<1>3. DOMAIN s = 1 .. 5 /\ s = [i \in 1 .. 5 |-> s[i]]
  BY <1>0 DEF ASTAndExpr
<1>4. /\ s[1] = Gen(1, "L") /\ s[2] = Gen(2, "R") /\ s[3] = Emit("castLeft", "i64", [L |-> "int"])
      /\ s[4] = Emit("castRight", "i64", [R |-> "int"])
      /\ s[5] = Emit("result", "i64", [castLeft |-> "i64", castRight |-> "i64"])
  BY <1>0 DEF ASTAndExpr
<1>5. /\ Fine(n, lv, names, Gen(1, "L"), {}) /\ Fine(n, lv, names, Gen(2, "R"), {})
  BY <1>2, FineGens
<1>6. /\ Fine(n, lv, names, Emit("castLeft", "i64", [L |-> "int"]), {"L"})
      /\ Fine(n, lv, names, Emit("castRight", "i64", [R |-> "int"]), {"R"})
      /\ Fine(n, lv, names, Emit("result", "i64", [castLeft |-> "i64", castRight |-> "i64"]), {"castLeft", "castRight"})
  BY <1>1, <1>2
     DEF Fine, Fair, Quiet, IsTarget, NeedsOnly, StepTyped, Holds, Gets, HasNeeds, Emit
<1>7. /\ Fine(n, lv, names, s[1], {}) /\ Fine(n, lv, names, s[2], {})
      /\ Fine(n, lv, names, s[3], {"L"}) /\ Fine(n, lv, names, s[4], {"R"})
      /\ Fine(n, lv, names, s[5], {"castLeft", "castRight"})
  BY <1>4, <1>5, <1>6
<1>8. /\ Defines(s[1], "L") /\ Defines(s[2], "R") /\ Defines(s[3], "castLeft")
      /\ Defines(s[4], "castRight") /\ Defines(s[5], "result")
  BY <1>4, StepDefines
<1>9. \A j \in 1 .. 5 : StepTyped(n, s[j], lv, names) /\ Quiet(n, s[j])
  BY <1>7 DEF Fine, Fair
<1>10. Closed({}, s)
  <2> SUFFICES ASSUME NEW j \in 1 .. 5, HasNeeds(s[j]), NEW x \in DOMAIN s[j].need
               PROVE  \E k \in 1 .. j - 1 : Defines(s[k], x)
    BY <1>3 DEF Closed
  <2> QED
    BY <1>7, <1>8 DEF Fine, Fair, NeedsOnly
<1>11. Has(s, "result")
  BY <1>3, <1>8 DEF Has
<1>12. Good(n, lv, names, {}, s)
  BY <1>3, <1>9, <1>10, FunctionList DEF Good, Typed
<1> QED
  BY <1>0, <1>12, <1>11

LEMMA OrTyped ==
    ASSUME NEW n, NEW lv, NEW names,
           n.cls = "ASTOrExpr", n.kids[1].cls \in ExprClasses, n.kids[2].cls \in ExprClasses,
           lv = FALSE
    PROVE  Good(n, lv, names, {}, ASTOrExpr) /\ Has(ASTOrExpr, "result")
<1>0. PICK s : s = ASTOrExpr
  OBVIOUS
<1>1. n.cls \notin OuterClasses \cup {"ASTFunAppExpr"} /\ n.cls \in ExprClasses
  BY DEF OuterClasses, ExprClasses, ConstantClasses, UnaryClasses, BinaryClasses
<1>2. /\ Kind(n, "L") = "value" /\ Kind(n, "R") = "value" /\ Kind(n, "castLeft") = "word"
      /\ Kind(n, "castRight") = "word" /\ Kind(n, "addBool") = "word" /\ Kind(n, "comp") = "bit"
      /\ Kind(n, "result") = "result"
  BY <1>1, Kinds DEF Bits, Values, Words
<1>3. DOMAIN s = 1 .. 7 /\ s = [i \in 1 .. 7 |-> s[i]]
  BY <1>0 DEF ASTOrExpr
<1>4. /\ s[1] = Gen(1, "L") /\ s[2] = Gen(2, "R") /\ s[3] = Emit("castLeft", "i64", [L |-> "int"])
      /\ s[4] = Emit("castRight", "i64", [R |-> "int"])
      /\ s[5] = Emit("addBool", "i64", [castLeft |-> "i64", castRight |-> "i64"])
      /\ s[6] = Emit("comp", "i1", [addBool |-> "i64"])
      /\ s[7] = Emit("result", "i64", [comp |-> "int"])
  BY <1>0 DEF ASTOrExpr
<1>5. /\ Fine(n, lv, names, Gen(1, "L"), {}) /\ Fine(n, lv, names, Gen(2, "R"), {})
  BY <1>2, FineGens
<1>6. /\ Fine(n, lv, names, Emit("castLeft", "i64", [L |-> "int"]), {"L"})
      /\ Fine(n, lv, names, Emit("castRight", "i64", [R |-> "int"]), {"R"})
      /\ Fine(n, lv, names, Emit("addBool", "i64", [castLeft |-> "i64", castRight |-> "i64"]), {"castLeft", "castRight"})
      /\ Fine(n, lv, names, Emit("comp", "i1", [addBool |-> "i64"]), {"addBool"})
  BY <1>1, <1>2
     DEF Fine, Fair, Quiet, IsTarget, NeedsOnly, StepTyped, Holds, Gets, HasNeeds, Emit
<1>7. Fine(n, lv, names, Emit("result", "i64", [comp |-> "int"]), {"comp"})
  BY <1>1, <1>2
     DEF Fine, Fair, Quiet, IsTarget, NeedsOnly, StepTyped, Holds, Gets, HasNeeds, Emit
<1>8. /\ Fine(n, lv, names, s[1], {}) /\ Fine(n, lv, names, s[2], {})
      /\ Fine(n, lv, names, s[3], {"L"}) /\ Fine(n, lv, names, s[4], {"R"})
      /\ Fine(n, lv, names, s[5], {"castLeft", "castRight"})
      /\ Fine(n, lv, names, s[6], {"addBool"}) /\ Fine(n, lv, names, s[7], {"comp"})
  BY <1>4, <1>5, <1>6, <1>7
<1>9. /\ Defines(s[1], "L") /\ Defines(s[2], "R") /\ Defines(s[3], "castLeft")
      /\ Defines(s[4], "castRight") /\ Defines(s[5], "addBool") /\ Defines(s[6], "comp")
      /\ Defines(s[7], "result")
  BY <1>4, StepDefines
<1>10. \A j \in 1 .. 7 : StepTyped(n, s[j], lv, names) /\ Quiet(n, s[j])
  BY <1>8 DEF Fine, Fair
<1>11. Closed({}, s)
  <2> SUFFICES ASSUME NEW j \in 1 .. 7, HasNeeds(s[j]), NEW x \in DOMAIN s[j].need
               PROVE  \E k \in 1 .. j - 1 : Defines(s[k], x)
    BY <1>3 DEF Closed
  <2> QED
    BY <1>8, <1>9 DEF Fine, Fair, NeedsOnly
<1>12. Has(s, "result")
  BY <1>3, <1>9 DEF Has
<1>13. Good(n, lv, names, {}, s)
  BY <1>3, <1>10, <1>11, FunctionList DEF Good, Typed
<1> QED
  BY <1>0, <1>13, <1>12

LEMMA NotTyped ==
    ASSUME NEW n, NEW lv, NEW names,
           n.cls = "ASTNotExpr", n.kids[1].cls \in ExprClasses, lv = FALSE
    PROVE  Good(n, lv, names, {}, ASTNotExpr) /\ Has(ASTNotExpr, "result")
<1>0. PICK s : s = ASTNotExpr
  OBVIOUS
<1>1. n.cls \notin OuterClasses \cup {"ASTFunAppExpr"} /\ n.cls \in ExprClasses
  BY DEF OuterClasses, ExprClasses, ConstantClasses, UnaryClasses, BinaryClasses
<1>2. /\ Kind(n, "L") = "value" /\ Kind(n, "casted") = "bit" /\ Kind(n, "n") = "bit"
      /\ Kind(n, "result") = "result"
  BY <1>1, Kinds DEF Bits, Values
<1>3. DOMAIN s = 1 .. 4 /\ s = [i \in 1 .. 4 |-> s[i]]
  BY <1>0 DEF ASTNotExpr
<1>4. /\ s[1] = Gen(1, "L") /\ s[2] = Emit("casted", "i1", [L |-> "int"])
      /\ s[3] = Emit("n", "i1", [casted |-> "i1"]) /\ s[4] = Emit("result", "i64", [n |-> "int"])
  BY <1>0 DEF ASTNotExpr
<1>5. Fine(n, lv, names, Gen(1, "L"), {})
  BY <1>2, FineGens
<1>6. /\ Fine(n, lv, names, Emit("casted", "i1", [L |-> "int"]), {"L"})
      /\ Fine(n, lv, names, Emit("n", "i1", [casted |-> "i1"]), {"casted"})
      /\ Fine(n, lv, names, Emit("result", "i64", [n |-> "int"]), {"n"})
  BY <1>1, <1>2
     DEF Fine, Fair, Quiet, IsTarget, NeedsOnly, StepTyped, Holds, Gets, HasNeeds, Emit
<1>7. /\ Fine(n, lv, names, s[1], {}) /\ Fine(n, lv, names, s[2], {"L"})
      /\ Fine(n, lv, names, s[3], {"casted"}) /\ Fine(n, lv, names, s[4], {"n"})
  BY <1>4, <1>5, <1>6
<1>8. /\ Defines(s[1], "L") /\ Defines(s[2], "casted") /\ Defines(s[3], "n")
      /\ Defines(s[4], "result")
  BY <1>4, StepDefines
<1>9. \A j \in 1 .. 4 : StepTyped(n, s[j], lv, names) /\ Quiet(n, s[j])
  BY <1>7 DEF Fine, Fair
<1>10. Closed({}, s)
  <2> SUFFICES ASSUME NEW j \in 1 .. 4, HasNeeds(s[j]), NEW x \in DOMAIN s[j].need
               PROVE  \E k \in 1 .. j - 1 : Defines(s[k], x)
    BY <1>3 DEF Closed
  <2> QED
    BY <1>7, <1>8 DEF Fine, Fair, NeedsOnly
<1>11. Has(s, "result")
  BY <1>3, <1>8 DEF Has
<1>12. Good(n, lv, names, {}, s)
  BY <1>3, <1>9, <1>10, FunctionList DEF Good, Typed
<1> QED
  BY <1>0, <1>12, <1>11

LEMMA NegationTyped ==
    ASSUME NEW n, NEW lv, NEW names,
           n.cls = "ASTNegationExpr", n.kids[1].cls \in ExprClasses, lv = FALSE
    PROVE  Good(n, lv, names, {}, ASTNegationExpr) /\ Has(ASTNegationExpr, "result")
<1>0. PICK s : s = ASTNegationExpr
  OBVIOUS
<1>1. n.cls \notin OuterClasses \cup {"ASTFunAppExpr"} /\ n.cls \in ExprClasses
  BY DEF OuterClasses, ExprClasses, ConstantClasses, UnaryClasses, BinaryClasses
<1>2. /\ Kind(n, "E") = "value" /\ Kind(n, "result") = "result"
  BY <1>1, Kinds DEF Values
<1>3. DOMAIN s = 1 .. 2 /\ s = [i \in 1 .. 2 |-> s[i]]
  BY <1>0 DEF ASTNegationExpr
<1>4. /\ s[1] = Gen(1, "E") /\ s[2] = Emit("result", "i64", [E |-> "i64"])
  BY <1>0 DEF ASTNegationExpr
<1>5. Fine(n, lv, names, Gen(1, "E"), {})
  BY <1>2, FineGens
<1>6. Fine(n, lv, names, Emit("result", "i64", [E |-> "i64"]), {"E"})
  BY <1>1, <1>2
     DEF Fine, Fair, Quiet, IsTarget, NeedsOnly, StepTyped, Holds, Gets, HasNeeds, Emit
<1>7. /\ Fine(n, lv, names, s[1], {}) /\ Fine(n, lv, names, s[2], {"E"})
  BY <1>4, <1>5, <1>6
<1>8. /\ Defines(s[1], "E") /\ Defines(s[2], "result")
  BY <1>4, StepDefines
<1>9. \A j \in 1 .. 2 : StepTyped(n, s[j], lv, names) /\ Quiet(n, s[j])
  BY <1>7 DEF Fine, Fair
<1>10. Closed({}, s)
  <2> SUFFICES ASSUME NEW j \in 1 .. 2, HasNeeds(s[j]), NEW x \in DOMAIN s[j].need
               PROVE  \E k \in 1 .. j - 1 : Defines(s[k], x)
    BY <1>3 DEF Closed
  <2> QED
    BY <1>7, <1>8 DEF Fine, Fair, NeedsOnly
<1>11. Has(s, "result")
  BY <1>3, <1>8 DEF Has
<1>12. Good(n, lv, names, {}, s)
  BY <1>3, <1>9, <1>10, FunctionList DEF Good, Typed
<1> QED
  BY <1>0, <1>12, <1>11

LEMMA TernaryTyped ==
    ASSUME NEW n, NEW lv, NEW names,
           n.cls = "ASTTernaryExpr", n.kids[1].cls \in ExprClasses, n.kids[2].cls \in ExprClasses,
           n.kids[3].cls \in ExprClasses, lv = FALSE
    PROVE  Good(n, lv, names, {}, ASTTernaryExpr) /\ Has(ASTTernaryExpr, "result")
<1>0. PICK s : s = ASTTernaryExpr
  OBVIOUS
<1>1. n.cls \notin OuterClasses \cup {"ASTFunAppExpr"} /\ n.cls \in ExprClasses
  BY DEF OuterClasses, ExprClasses, ConstantClasses, UnaryClasses, BinaryClasses
<1>2. /\ Kind(n, "condV") = "value" /\ Kind(n, "thenV") = "value" /\ Kind(n, "elseV") = "value"
      /\ Kind(n, "cond") = "bit" /\ Kind(n, "result") = "result"
  BY <1>1, Kinds DEF Bits, Values
<1>3. DOMAIN s = 1 .. 5 /\ s = [i \in 1 .. 5 |-> s[i]]
  BY <1>0 DEF ASTTernaryExpr
<1>4. /\ s[1] = Gen(1, "condV") /\ s[2] = Gen(2, "thenV") /\ s[3] = Gen(3, "elseV")
      /\ s[4] = Emit("cond", "i1", [condV |-> "int"])
      /\ s[5] = Emit("result", "same", [cond |-> "i1", thenV |-> "same", elseV |-> "same"])
  BY <1>0 DEF ASTTernaryExpr
<1>5. /\ Fine(n, lv, names, Gen(1, "condV"), {}) /\ Fine(n, lv, names, Gen(2, "thenV"), {})
      /\ Fine(n, lv, names, Gen(3, "elseV"), {})
  BY <1>2, FineGens
<1>6. /\ Fine(n, lv, names, Emit("cond", "i1", [condV |-> "int"]), {"condV"})
      /\ Fine(n, lv, names, Emit("result", "same", [cond |-> "i1", thenV |-> "same", elseV |-> "same"]), {"cond", "thenV", "elseV"})
  BY <1>1, <1>2
     DEF Fine, Fair, Quiet, IsTarget, NeedsOnly, StepTyped, Holds, Gets, HasNeeds, Emit, OneBit
<1>7. /\ Fine(n, lv, names, s[1], {}) /\ Fine(n, lv, names, s[2], {})
      /\ Fine(n, lv, names, s[3], {}) /\ Fine(n, lv, names, s[4], {"condV"})
      /\ Fine(n, lv, names, s[5], {"cond", "thenV", "elseV"})
  BY <1>4, <1>5, <1>6
<1>8. /\ Defines(s[1], "condV") /\ Defines(s[2], "thenV") /\ Defines(s[3], "elseV")
      /\ Defines(s[4], "cond") /\ Defines(s[5], "result")
  BY <1>4, StepDefines
<1>9. \A j \in 1 .. 5 : StepTyped(n, s[j], lv, names) /\ Quiet(n, s[j])
  BY <1>7 DEF Fine, Fair
<1>10. Closed({}, s)
  <2> SUFFICES ASSUME NEW j \in 1 .. 5, HasNeeds(s[j]), NEW x \in DOMAIN s[j].need
               PROVE  \E k \in 1 .. j - 1 : Defines(s[k], x)
    BY <1>3 DEF Closed
  <2> QED
    BY <1>7, <1>8 DEF Fine, Fair, NeedsOnly
<1>11. Has(s, "result")
  BY <1>3, <1>8 DEF Has
<1>12. Good(n, lv, names, {}, s)
  BY <1>3, <1>9, <1>10, FunctionList DEF Good, Typed
<1> QED
  BY <1>0, <1>12, <1>11

LEMMA AllocTyped ==
    ASSUME NEW n, NEW lv, NEW names,
           n.cls = "ASTAllocExpr", n.kids[1].cls \in ExprClasses, lv = FALSE
    PROVE  Good(n, lv, names, {}, ASTAllocExpr) /\ Has(ASTAllocExpr, "result")
<1>0. PICK s : s = ASTAllocExpr
  OBVIOUS
<1>1. n.cls \notin OuterClasses \cup {"ASTFunAppExpr"} /\ n.cls \in ExprClasses
  BY DEF OuterClasses, ExprClasses, ConstantClasses, UnaryClasses, BinaryClasses
<1>2. /\ Kind(n, "argVal") = "value" /\ Kind(n, "castPtr") = "pointer"
      /\ Kind(n, "result") = "result"
  BY <1>1, Kinds DEF Pointers, Values
<1>3. DOMAIN s = 1 .. 6 /\ s = [i \in 1 .. 6 |-> s[i]]
  BY <1>0 DEF ASTAllocExpr
<1>4. /\ s[1] = allocationFlag(TRUE) /\ s[2] = Gen(1, "argVal") /\ s[3] = allocationFlag(FALSE)
      /\ s[4] = Emit("castPtr", "ptr", NoOperands) /\ s[5] = Store("argVal", "castPtr")
      /\ s[6] = Emit("result", "i64", [castPtr |-> "ptr"])
  BY <1>0 DEF ASTAllocExpr
<1>5. /\ Fine(n, lv, names, allocationFlag(TRUE), {})
      /\ Fine(n, lv, names, allocationFlag(FALSE), {})
  BY FineMoves
<1>6. Fine(n, lv, names, Gen(1, "argVal"), {})
  BY <1>2, FineGens
<1>7. Fine(n, lv, names, Store("argVal", "castPtr"), {"argVal", "castPtr"})
  BY <1>2, FineSteps
<1>8. Fine(n, lv, names, Emit("castPtr", "ptr", NoOperands), {})
  BY <1>1, <1>2, FineEmits DEF Makes
<1>9. Fine(n, lv, names, Emit("result", "i64", [castPtr |-> "ptr"]), {"castPtr"})
  BY <1>1, <1>2
     DEF Fine, Fair, Quiet, IsTarget, NeedsOnly, StepTyped, Holds, Gets, HasNeeds, Emit
<1>10. /\ Fine(n, lv, names, s[1], {}) /\ Fine(n, lv, names, s[2], {})
      /\ Fine(n, lv, names, s[3], {}) /\ Fine(n, lv, names, s[4], {})
      /\ Fine(n, lv, names, s[5], {"argVal", "castPtr"}) /\ Fine(n, lv, names, s[6], {"castPtr"})
  BY <1>4, <1>5, <1>6, <1>7, <1>8, <1>9
<1>11. /\ Defines(s[2], "argVal") /\ Defines(s[4], "castPtr") /\ Defines(s[6], "result")
  BY <1>4, StepDefines
<1>12. \A j \in 1 .. 6 : StepTyped(n, s[j], lv, names) /\ Quiet(n, s[j])
  BY <1>10 DEF Fine, Fair
<1>13. Closed({}, s)
  <2> SUFFICES ASSUME NEW j \in 1 .. 6, HasNeeds(s[j]), NEW x \in DOMAIN s[j].need
               PROVE  \E k \in 1 .. j - 1 : Defines(s[k], x)
    BY <1>3 DEF Closed
  <2> QED
    BY <1>10, <1>11 DEF Fine, Fair, NeedsOnly
<1>14. Has(s, "result")
  BY <1>3, <1>11 DEF Has
<1>15. Good(n, lv, names, {}, s)
  BY <1>3, <1>12, <1>13, FunctionList DEF Good, Typed
<1> QED
  BY <1>0, <1>15, <1>14

LEMMA RefTyped ==
    ASSUME NEW n, NEW lv, NEW names,
           n.cls = "ASTRefExpr", n.kids[1].cls \in TargetClasses, lv = FALSE
    PROVE  Paired(n, lv, names, ASTRefExpr) /\ Has(ASTRefExpr, "result")
<1>0. PICK s : s = ASTRefExpr
  OBVIOUS
<1>1. n.cls \notin OuterClasses \cup {"ASTFunAppExpr"} /\ n.cls \in ExprClasses
  BY DEF OuterClasses, ExprClasses, ConstantClasses, UnaryClasses, BinaryClasses
<1>2. /\ Kind(n, "lValue") = "target" /\ Kind(n, "result") = "result"
  BY <1>1, Kinds
<1>3. DOMAIN s = 1 .. 4 /\ s = [i \in 1 .. 4 |-> s[i]]
  BY <1>0 DEF ASTRefExpr
<1>4. /\ s[1] = lValueFlag(TRUE) /\ s[2] = Gen(1, "lValue") /\ s[3] = lValueFlag(FALSE)
      /\ s[4] = Emit("result", "i64", [lValue |-> "ptr"])
  BY <1>0 DEF ASTRefExpr
<1>5. /\ Fair(n, lv, names, lValueFlag(TRUE), {}) /\ Fine(n, lv, names, lValueFlag(FALSE), {})
  BY FineMoves
<1>6. Fair(n, lv, names, Gen(1, "lValue"), {})
  BY <1>2, FineGens
<1>7. Fine(n, lv, names, Emit("result", "i64", [lValue |-> "ptr"]), {"lValue"})
  BY <1>1, <1>2
     DEF Fine, Fair, Quiet, IsTarget, NeedsOnly, StepTyped, Holds, Gets, HasNeeds, Emit
<1>8. /\ Fair(n, lv, names, s[1], {}) /\ Fair(n, lv, names, s[2], {})
      /\ Fine(n, lv, names, s[3], {}) /\ Fine(n, lv, names, s[4], {"lValue"})
  BY <1>4, <1>5, <1>6, <1>7
<1>9. /\ Defines(s[2], "lValue") /\ Defines(s[4], "result")
  BY <1>4, StepDefines
<1>10. /\ \A j \in 1 .. 4 : StepTyped(n, s[j], lv, names)
      /\ \A j \in 1 .. 4 : j \notin {1, 2} => Quiet(n, s[j])
  BY <1>8 DEF Fine, Fair
<1>11. Closed({}, s)
  <2> SUFFICES ASSUME NEW j \in 1 .. 4, HasNeeds(s[j]), NEW x \in DOMAIN s[j].need
               PROVE  \E k \in 1 .. j - 1 : Defines(s[k], x)
    BY <1>3 DEF Closed
  <2> QED
    BY <1>8, <1>9 DEF Fine, Fair, NeedsOnly
<1>12. Has(s, "result")
  BY <1>3, <1>9 DEF Has
<1>k. PICK k : k = 1
  OBVIOUS
<1>13. k \in Nat \ {0} /\ k + 1 = 2 /\ k + 2 = 3 /\ k + 2 \in DOMAIN s
  BY <1>k, <1>3
<1>14. IsTarget(n, Gen(1, "lValue"))
  BY <1>2 DEF IsTarget, Gen
<1>15. /\ s[k] = lValueFlag(TRUE) /\ IsTarget(n, s[k + 1]) /\ s[k + 2] = lValueFlag(FALSE)
      /\ \A j \in DOMAIN s : j \notin {k, k + 1} => Quiet(n, s[j])
  BY <1>k, <1>3, <1>4, <1>10, <1>13, <1>14
<1>16. TripleAt(n, s, k)
  BY <1>13, <1>15 DEF TripleAt
<1>17. Typed(n, lv, names, {}, s)
  BY <1>3, <1>10, <1>11, FunctionList DEF Typed
<1> QED
  BY <1>0, <1>16, <1>17, TripleIsPaired, <1>12

LEMMA OfArrayTyped ==
    ASSUME NEW n, NEW lv, NEW names,
           n.cls = "ASTOfArrayExpr", n.kids[1].cls \in ExprClasses, n.kids[2].cls \in ExprClasses,
           lv = FALSE
    PROVE  Good(n, lv, names, {}, ASTOfArrayExpr) /\ Has(ASTOfArrayExpr, "result")
<1>0. PICK s : s = ASTOfArrayExpr
  OBVIOUS
<1>1. n.cls \notin OuterClasses \cup {"ASTFunAppExpr"} /\ n.cls \in ExprClasses
  BY DEF OuterClasses, ExprClasses, ConstantClasses, UnaryClasses, BinaryClasses
<1>2. /\ Kind(n, "count") = "value" /\ Kind(n, "oneV") = "word" /\ Kind(n, "arraySize") = "word"
      /\ Kind(n, "castPtr") = "pointer" /\ Kind(n, "iterPtr") = "pointer"
      /\ Kind(n, "iterVal") = "word" /\ Kind(n, "cond") = "bit" /\ Kind(n, "storePtr") = "pointer"
      /\ Kind(n, "arrayValue") = "value" /\ Kind(n, "newIterVal") = "word"
      /\ Kind(n, "result") = "result"
  BY <1>1, Kinds DEF Bits, Pointers, Values, Words
<1>3. DOMAIN s = 1 .. 25 /\ s = [i \in 1 .. 25 |-> s[i]]
  BY <1>0 DEF ASTOfArrayExpr
<1>4. /\ s[1] = Gen(1, "count") /\ s[2] = Known("oneV", ConstantInt)
      /\ s[3] = Emit("arraySize", "i64", [count |-> "i64"])
      /\ s[4] = Emit("castPtr", "ptr", [arraySize |-> "i64"]) /\ s[5] = Store("count", "castPtr")
      /\ s[6] = Emit("iterPtr", "ptr", NoOperands) /\ s[7] = Store("oneV", "iterPtr")
      /\ s[8] = Blocks("header", {"body", "exit"}) /\ s[9] = Branch("header")
      /\ s[10] = At("header") /\ s[11] = Emit("iterVal", "i64", [iterPtr |-> "ptr"])
      /\ s[12] = Emit("cond", "i1", [iterVal |-> "i64", count |-> "i64"])
      /\ s[13] = CondBranch("cond", "body", "exit") /\ s[14] = Place("body") /\ s[15] = At("body")
      /\ s[16] = Emit("iterVal", "i64", [iterPtr |-> "ptr"])
      /\ s[17] = Emit("storePtr", "ptr", [castPtr |-> "ptr", iterVal |-> "i64"])
      /\ s[18] = Gen(2, "arrayValue") /\ s[19] = Store("arrayValue", "storePtr")
      /\ s[20] = Emit("newIterVal", "i64", [iterVal |-> "i64"])
      /\ s[21] = Store("newIterVal", "iterPtr") /\ s[22] = Branch("header") /\ s[23] = Place("exit")
      /\ s[24] = At("exit") /\ s[25] = Emit("result", "i64", [castPtr |-> "ptr"])
  BY <1>0 DEF ASTOfArrayExpr
<1>5. /\ Fine(n, lv, names, Blocks("header", {"body", "exit"}), {})
      /\ Fine(n, lv, names, Branch("header"), {}) /\ Fine(n, lv, names, At("header"), {})
      /\ Fine(n, lv, names, Place("body"), {}) /\ Fine(n, lv, names, At("body"), {})
      /\ Fine(n, lv, names, Place("exit"), {}) /\ Fine(n, lv, names, At("exit"), {})
  BY FineMoves
<1>6. /\ Fine(n, lv, names, Gen(1, "count"), {}) /\ Fine(n, lv, names, Gen(2, "arrayValue"), {})
  BY <1>2, FineGens
<1>7. Fine(n, lv, names, Known("oneV", ConstantInt), {})
  BY <1>2, FineSteps
<1>8. /\ Fine(n, lv, names, Store("count", "castPtr"), {"count", "castPtr"})
      /\ Fine(n, lv, names, Store("oneV", "iterPtr"), {"oneV", "iterPtr"})
      /\ Fine(n, lv, names, CondBranch("cond", "body", "exit"), {"cond"})
      /\ Fine(n, lv, names, Store("arrayValue", "storePtr"), {"arrayValue", "storePtr"})
      /\ Fine(n, lv, names, Store("newIterVal", "iterPtr"), {"newIterVal", "iterPtr"})
  BY <1>2, FineSteps
<1>9. Fine(n, lv, names, Emit("iterPtr", "ptr", NoOperands), {})
  BY <1>1, <1>2, FineEmits DEF Makes
<1>10. /\ Fine(n, lv, names, Emit("arraySize", "i64", [count |-> "i64"]), {"count"})
      /\ Fine(n, lv, names, Emit("castPtr", "ptr", [arraySize |-> "i64"]), {"arraySize"})
      /\ Fine(n, lv, names, Emit("iterVal", "i64", [iterPtr |-> "ptr"]), {"iterPtr"})
      /\ Fine(n, lv, names, Emit("cond", "i1", [iterVal |-> "i64", count |-> "i64"]), {"iterVal", "count"})
  BY <1>1, <1>2
     DEF Fine, Fair, Quiet, IsTarget, NeedsOnly, StepTyped, Holds, Gets, HasNeeds, Emit
<1>11. /\ Fine(n, lv, names, Emit("storePtr", "ptr", [castPtr |-> "ptr", iterVal |-> "i64"]), {"castPtr", "iterVal"})
      /\ Fine(n, lv, names, Emit("newIterVal", "i64", [iterVal |-> "i64"]), {"iterVal"})
      /\ Fine(n, lv, names, Emit("result", "i64", [castPtr |-> "ptr"]), {"castPtr"})
  BY <1>1, <1>2
     DEF Fine, Fair, Quiet, IsTarget, NeedsOnly, StepTyped, Holds, Gets, HasNeeds, Emit
<1>12. /\ Fine(n, lv, names, s[1], {}) /\ Fine(n, lv, names, s[2], {})
      /\ Fine(n, lv, names, s[3], {"count"}) /\ Fine(n, lv, names, s[4], {"arraySize"})
      /\ Fine(n, lv, names, s[5], {"count", "castPtr"}) /\ Fine(n, lv, names, s[6], {})
      /\ Fine(n, lv, names, s[7], {"oneV", "iterPtr"}) /\ Fine(n, lv, names, s[8], {})
      /\ Fine(n, lv, names, s[9], {}) /\ Fine(n, lv, names, s[10], {})
      /\ Fine(n, lv, names, s[11], {"iterPtr"}) /\ Fine(n, lv, names, s[12], {"iterVal", "count"})
      /\ Fine(n, lv, names, s[13], {"cond"}) /\ Fine(n, lv, names, s[14], {})
  BY <1>4, <1>5, <1>6, <1>7, <1>8, <1>9, <1>10, <1>11
<1>13. /\ Fine(n, lv, names, s[15], {}) /\ Fine(n, lv, names, s[16], {"iterPtr"})
      /\ Fine(n, lv, names, s[17], {"castPtr", "iterVal"}) /\ Fine(n, lv, names, s[18], {})
      /\ Fine(n, lv, names, s[19], {"arrayValue", "storePtr"})
      /\ Fine(n, lv, names, s[20], {"iterVal"})
      /\ Fine(n, lv, names, s[21], {"newIterVal", "iterPtr"}) /\ Fine(n, lv, names, s[22], {})
      /\ Fine(n, lv, names, s[23], {}) /\ Fine(n, lv, names, s[24], {})
      /\ Fine(n, lv, names, s[25], {"castPtr"})
  BY <1>4, <1>5, <1>6, <1>7, <1>8, <1>9, <1>10, <1>11
<1>14. /\ Defines(s[1], "count") /\ Defines(s[2], "oneV") /\ Defines(s[3], "arraySize")
      /\ Defines(s[4], "castPtr") /\ Defines(s[6], "iterPtr") /\ Defines(s[11], "iterVal")
      /\ Defines(s[12], "cond") /\ Defines(s[17], "storePtr") /\ Defines(s[18], "arrayValue")
      /\ Defines(s[20], "newIterVal") /\ Defines(s[25], "result")
  BY <1>4, StepDefines
<1>15. \A j \in 1 .. 25 : StepTyped(n, s[j], lv, names) /\ Quiet(n, s[j])
  BY <1>12, <1>13 DEF Fine, Fair
<1>16. Closed({}, s)
  <2> SUFFICES ASSUME NEW j \in 1 .. 25, HasNeeds(s[j]), NEW x \in DOMAIN s[j].need
               PROVE  \E k \in 1 .. j - 1 : Defines(s[k], x)
    BY <1>3 DEF Closed
  <2> QED
    BY <1>12, <1>13, <1>14 DEF Fine, Fair, NeedsOnly
<1>17. Has(s, "result")
  BY <1>3, <1>14 DEF Has
<1>18. Good(n, lv, names, {}, s)
  BY <1>3, <1>15, <1>16, FunctionList DEF Good, Typed
<1> QED
  BY <1>0, <1>18, <1>17

LEMMA ArrayLengthTyped ==
    ASSUME NEW n, NEW lv, NEW names,
           n.cls = "ASTArrayLengthExpr", n.kids[1].cls \in ExprClasses, lv = FALSE
    PROVE  Good(n, lv, names, {}, ASTArrayLengthExpr) /\ Has(ASTArrayLengthExpr, "result")
<1>0. PICK s : s = ASTArrayLengthExpr
  OBVIOUS
<1>1. n.cls \notin OuterClasses \cup {"ASTFunAppExpr"} /\ n.cls \in ExprClasses
  BY DEF OuterClasses, ExprClasses, ConstantClasses, UnaryClasses, BinaryClasses
<1>2. /\ Kind(n, "array") = "value" /\ Kind(n, "arrayPtr") = "pointer"
      /\ Kind(n, "result") = "result"
  BY <1>1, Kinds DEF Pointers, Values
<1>3. DOMAIN s = 1 .. 3 /\ s = [i \in 1 .. 3 |-> s[i]]
  BY <1>0 DEF ASTArrayLengthExpr
<1>4. /\ s[1] = Gen(1, "array") /\ s[2] = Emit("arrayPtr", "ptr", [array |-> "i64"])
      /\ s[3] = Emit("result", "i64", [arrayPtr |-> "ptr"])
  BY <1>0 DEF ASTArrayLengthExpr
<1>5. Fine(n, lv, names, Gen(1, "array"), {})
  BY <1>2, FineGens
<1>6. /\ Fine(n, lv, names, Emit("arrayPtr", "ptr", [array |-> "i64"]), {"array"})
      /\ Fine(n, lv, names, Emit("result", "i64", [arrayPtr |-> "ptr"]), {"arrayPtr"})
  BY <1>1, <1>2
     DEF Fine, Fair, Quiet, IsTarget, NeedsOnly, StepTyped, Holds, Gets, HasNeeds, Emit
<1>7. /\ Fine(n, lv, names, s[1], {}) /\ Fine(n, lv, names, s[2], {"array"})
      /\ Fine(n, lv, names, s[3], {"arrayPtr"})
  BY <1>4, <1>5, <1>6
<1>8. /\ Defines(s[1], "array") /\ Defines(s[2], "arrayPtr") /\ Defines(s[3], "result")
  BY <1>4, StepDefines
<1>9. \A j \in 1 .. 3 : StepTyped(n, s[j], lv, names) /\ Quiet(n, s[j])
  BY <1>7 DEF Fine, Fair
<1>10. Closed({}, s)
  <2> SUFFICES ASSUME NEW j \in 1 .. 3, HasNeeds(s[j]), NEW x \in DOMAIN s[j].need
               PROVE  \E k \in 1 .. j - 1 : Defines(s[k], x)
    BY <1>3 DEF Closed
  <2> QED
    BY <1>7, <1>8 DEF Fine, Fair, NeedsOnly
<1>11. Has(s, "result")
  BY <1>3, <1>8 DEF Has
<1>12. Good(n, lv, names, {}, s)
  BY <1>3, <1>9, <1>10, FunctionList DEF Good, Typed
<1> QED
  BY <1>0, <1>12, <1>11

LEMMA AssignTyped ==
    ASSUME NEW n, NEW lv, NEW names,
           n.cls = "ASTAssignStmt", n.kids[1].cls \in TargetClasses, n.kids[2].cls \in ExprClasses
    PROVE  Paired(n, lv, names, ASTAssignStmt)
<1>0. PICK s : s = ASTAssignStmt
  OBVIOUS
<1>1. n.cls \notin OuterClasses \cup {"ASTFunAppExpr"} /\ n.cls \notin ExprClasses
  BY DEF OuterClasses, ExprClasses, ConstantClasses, UnaryClasses, BinaryClasses
<1>2. /\ Kind(n, "lValue") = "target" /\ Kind(n, "rValue") = "value" /\ Kind(n, "result") = "none"
  BY <1>1, Kinds DEF Values
<1>3. DOMAIN s = 1 .. 6 /\ s = [i \in 1 .. 6 |-> s[i]]
  BY <1>0 DEF ASTAssignStmt
<1>4. /\ s[1] = lValueFlag(TRUE) /\ s[2] = Gen(1, "lValue") /\ s[3] = lValueFlag(FALSE)
      /\ s[4] = Gen(2, "rValue") /\ s[5] = Store("rValue", "lValue")
      /\ s[6] = Known("result", ConstantInt)
  BY <1>0 DEF ASTAssignStmt
<1>5. /\ Fair(n, lv, names, lValueFlag(TRUE), {}) /\ Fine(n, lv, names, lValueFlag(FALSE), {})
  BY FineMoves
<1>6. /\ Fair(n, lv, names, Gen(1, "lValue"), {}) /\ Fine(n, lv, names, Gen(2, "rValue"), {})
  BY <1>2, FineGens
<1>7. Fine(n, lv, names, Known("result", ConstantInt), {})
  BY <1>2, FineSteps
<1>8. Fine(n, lv, names, Store("rValue", "lValue"), {"rValue", "lValue"})
  BY <1>2, FineSteps
<1>9. /\ Fair(n, lv, names, s[1], {}) /\ Fair(n, lv, names, s[2], {})
      /\ Fine(n, lv, names, s[3], {}) /\ Fine(n, lv, names, s[4], {})
      /\ Fine(n, lv, names, s[5], {"rValue", "lValue"}) /\ Fine(n, lv, names, s[6], {})
  BY <1>4, <1>5, <1>6, <1>7, <1>8
<1>10. /\ Defines(s[2], "lValue") /\ Defines(s[4], "rValue")
  BY <1>4, StepDefines
<1>11. /\ \A j \in 1 .. 6 : StepTyped(n, s[j], lv, names)
      /\ \A j \in 1 .. 6 : j \notin {1, 2} => Quiet(n, s[j])
  BY <1>9 DEF Fine, Fair
<1>12. Closed({}, s)
  <2> SUFFICES ASSUME NEW j \in 1 .. 6, HasNeeds(s[j]), NEW x \in DOMAIN s[j].need
               PROVE  \E k \in 1 .. j - 1 : Defines(s[k], x)
    BY <1>3 DEF Closed
  <2> QED
    BY <1>9, <1>10 DEF Fine, Fair, NeedsOnly
<1>k. PICK k : k = 1
  OBVIOUS
<1>13. k \in Nat \ {0} /\ k + 1 = 2 /\ k + 2 = 3 /\ k + 2 \in DOMAIN s
  BY <1>k, <1>3
<1>14. IsTarget(n, Gen(1, "lValue"))
  BY <1>2 DEF IsTarget, Gen
<1>15. /\ s[k] = lValueFlag(TRUE) /\ IsTarget(n, s[k + 1]) /\ s[k + 2] = lValueFlag(FALSE)
      /\ \A j \in DOMAIN s : j \notin {k, k + 1} => Quiet(n, s[j])
  BY <1>k, <1>3, <1>4, <1>11, <1>13, <1>14
<1>16. TripleAt(n, s, k)
  BY <1>13, <1>15 DEF TripleAt
<1>17. Typed(n, lv, names, {}, s)
  BY <1>3, <1>11, <1>12, FunctionList DEF Typed
<1> QED
  BY <1>0, <1>16, <1>17, TripleIsPaired

LEMMA IncrementTyped ==
    ASSUME NEW n, NEW lv, NEW names,
           n.cls \in {"ASTIncrementStmt", "ASTDecrementStmt"}, n.kids[1].cls \in TargetClasses
    PROVE  Paired(n, lv, names, ASTIncrementStmt)
<1>0. PICK s : s = ASTIncrementStmt
  OBVIOUS
<1>1. n.cls \notin OuterClasses \cup {"ASTFunAppExpr"} /\ n.cls \notin ExprClasses
  BY DEF OuterClasses, ExprClasses, ConstantClasses, UnaryClasses, BinaryClasses
<1>2. /\ Kind(n, "lValue") = "target" /\ Kind(n, "incTarget") = "word" /\ Kind(n, "inctmp") = "word"
      /\ Kind(n, "result") = "none"
  BY <1>1, Kinds DEF Words
<1>3. DOMAIN s = 1 .. 7 /\ s = [i \in 1 .. 7 |-> s[i]]
  BY <1>0 DEF ASTIncrementStmt
<1>4. /\ s[1] = lValueFlag(TRUE) /\ s[2] = Gen(1, "lValue") /\ s[3] = lValueFlag(FALSE)
      /\ s[4] = Emit("incTarget", "i64", [lValue |-> "ptr"])
      /\ s[5] = Emit("inctmp", "i64", [incTarget |-> "i64"]) /\ s[6] = Store("inctmp", "lValue")
      /\ s[7] = Known("result", ConstantInt)
  BY <1>0 DEF ASTIncrementStmt
<1>5. /\ Fair(n, lv, names, lValueFlag(TRUE), {}) /\ Fine(n, lv, names, lValueFlag(FALSE), {})
  BY FineMoves
<1>6. Fair(n, lv, names, Gen(1, "lValue"), {})
  BY <1>2, FineGens
<1>7. Fine(n, lv, names, Known("result", ConstantInt), {})
  BY <1>2, FineSteps
<1>8. Fine(n, lv, names, Store("inctmp", "lValue"), {"inctmp", "lValue"})
  BY <1>2, FineSteps
<1>9. /\ Fine(n, lv, names, Emit("incTarget", "i64", [lValue |-> "ptr"]), {"lValue"})
      /\ Fine(n, lv, names, Emit("inctmp", "i64", [incTarget |-> "i64"]), {"incTarget"})
  BY <1>1, <1>2
     DEF Fine, Fair, Quiet, IsTarget, NeedsOnly, StepTyped, Holds, Gets, HasNeeds, Emit
<1>10. /\ Fair(n, lv, names, s[1], {}) /\ Fair(n, lv, names, s[2], {})
      /\ Fine(n, lv, names, s[3], {}) /\ Fine(n, lv, names, s[4], {"lValue"})
      /\ Fine(n, lv, names, s[5], {"incTarget"}) /\ Fine(n, lv, names, s[6], {"inctmp", "lValue"})
      /\ Fine(n, lv, names, s[7], {})
  BY <1>4, <1>5, <1>6, <1>7, <1>8, <1>9
<1>11. /\ Defines(s[2], "lValue") /\ Defines(s[4], "incTarget") /\ Defines(s[5], "inctmp")
  BY <1>4, StepDefines
<1>12. /\ \A j \in 1 .. 7 : StepTyped(n, s[j], lv, names)
      /\ \A j \in 1 .. 7 : j \notin {1, 2} => Quiet(n, s[j])
  BY <1>10 DEF Fine, Fair
<1>13. Closed({}, s)
  <2> SUFFICES ASSUME NEW j \in 1 .. 7, HasNeeds(s[j]), NEW x \in DOMAIN s[j].need
               PROVE  \E k \in 1 .. j - 1 : Defines(s[k], x)
    BY <1>3 DEF Closed
  <2> QED
    BY <1>10, <1>11 DEF Fine, Fair, NeedsOnly
<1>k. PICK k : k = 1
  OBVIOUS
<1>14. k \in Nat \ {0} /\ k + 1 = 2 /\ k + 2 = 3 /\ k + 2 \in DOMAIN s
  BY <1>k, <1>3
<1>15. IsTarget(n, Gen(1, "lValue"))
  BY <1>2 DEF IsTarget, Gen
<1>16. /\ s[k] = lValueFlag(TRUE) /\ IsTarget(n, s[k + 1]) /\ s[k + 2] = lValueFlag(FALSE)
      /\ \A j \in DOMAIN s : j \notin {k, k + 1} => Quiet(n, s[j])
  BY <1>k, <1>3, <1>4, <1>12, <1>14, <1>15
<1>17. TripleAt(n, s, k)
  BY <1>14, <1>16 DEF TripleAt
<1>18. Typed(n, lv, names, {}, s)
  BY <1>3, <1>12, <1>13, FunctionList DEF Typed
<1> QED
  BY <1>0, <1>17, <1>18, TripleIsPaired

LEMMA OutputTyped ==
    ASSUME NEW n, NEW lv, NEW names,
           n.cls \in {"ASTOutputStmt", "ASTErrorStmt"}, n.kids[1].cls \in ExprClasses
    PROVE  Good(n, lv, names, {}, ASTOutputStmt)
<1>0. PICK s : s = ASTOutputStmt
  OBVIOUS
<1>1. n.cls \notin OuterClasses \cup {"ASTFunAppExpr"} /\ n.cls \notin ExprClasses
  BY DEF OuterClasses, ExprClasses, ConstantClasses, UnaryClasses, BinaryClasses
<1>2. /\ Kind(n, "argVal") = "value" /\ Kind(n, "result") = "none"
  BY <1>1, Kinds DEF Values
<1>3. DOMAIN s = 1 .. 2 /\ s = [i \in 1 .. 2 |-> s[i]]
  BY <1>0 DEF ASTOutputStmt
<1>4. /\ s[1] = Gen(1, "argVal") /\ s[2] = Emit("result", "i64", [argVal |-> "i64"])
  BY <1>0 DEF ASTOutputStmt
<1>5. Fine(n, lv, names, Gen(1, "argVal"), {})
  BY <1>2, FineGens
<1>6. Fine(n, lv, names, Emit("result", "i64", [argVal |-> "i64"]), {"argVal"})
  BY <1>1, <1>2
     DEF Fine, Fair, Quiet, IsTarget, NeedsOnly, StepTyped, Holds, Gets, HasNeeds, Emit
<1>7. /\ Fine(n, lv, names, s[1], {}) /\ Fine(n, lv, names, s[2], {"argVal"})
  BY <1>4, <1>5, <1>6
<1>8. Defines(s[1], "argVal")
  BY <1>4, StepDefines
<1>9. \A j \in 1 .. 2 : StepTyped(n, s[j], lv, names) /\ Quiet(n, s[j])
  BY <1>7 DEF Fine, Fair
<1>10. Closed({}, s)
  <2> SUFFICES ASSUME NEW j \in 1 .. 2, HasNeeds(s[j]), NEW x \in DOMAIN s[j].need
               PROVE  \E k \in 1 .. j - 1 : Defines(s[k], x)
    BY <1>3 DEF Closed
  <2> QED
    BY <1>7, <1>8 DEF Fine, Fair, NeedsOnly
<1>11. Good(n, lv, names, {}, s)
  BY <1>3, <1>9, <1>10, FunctionList DEF Good, Typed
<1> QED
  BY <1>0, <1>11

LEMMA WhileTyped ==
    ASSUME NEW n, NEW lv, NEW names,
           n.cls = "ASTWhileStmt", n.kids[1].cls \in ExprClasses
    PROVE  Good(n, lv, names, {}, ASTWhileStmt)
<1>0. PICK s : s = ASTWhileStmt
  OBVIOUS
<1>1. n.cls \notin OuterClasses \cup {"ASTFunAppExpr"} /\ n.cls \notin ExprClasses
  BY DEF OuterClasses, ExprClasses, ConstantClasses, UnaryClasses, BinaryClasses
<1>2. /\ Kind(n, "CondV") = "value" /\ Kind(n, "loopcond") = "bit" /\ Kind(n, "BodyV") = "none"
      /\ Kind(n, "result") = "none"
  BY <1>1, Kinds DEF Bits, Values
<1>3. DOMAIN s = 1 .. 13 /\ s = [i \in 1 .. 13 |-> s[i]]
  BY <1>0 DEF ASTWhileStmt
<1>4. /\ s[1] = Blocks("header", {"body", "exit"}) /\ s[2] = Branch("header") /\ s[3] = At("header")
      /\ s[4] = Gen(1, "CondV") /\ s[5] = Emit("loopcond", "i1", [CondV |-> "int"])
      /\ s[6] = CondBranch("loopcond", "body", "exit") /\ s[7] = Place("body") /\ s[8] = At("body")
      /\ s[9] = Gen(2, "BodyV") /\ s[10] = Branch("header") /\ s[11] = Place("exit")
      /\ s[12] = At("exit") /\ s[13] = Nop
  BY <1>0 DEF ASTWhileStmt
<1>5. /\ Fine(n, lv, names, Blocks("header", {"body", "exit"}), {})
      /\ Fine(n, lv, names, Branch("header"), {}) /\ Fine(n, lv, names, At("header"), {})
      /\ Fine(n, lv, names, Place("body"), {}) /\ Fine(n, lv, names, At("body"), {})
      /\ Fine(n, lv, names, Place("exit"), {}) /\ Fine(n, lv, names, At("exit"), {})
  BY FineMoves
<1>6. /\ Fine(n, lv, names, Gen(1, "CondV"), {}) /\ Fine(n, lv, names, Gen(2, "BodyV"), {})
  BY <1>2, FineGens
<1>7. Fine(n, lv, names, CondBranch("loopcond", "body", "exit"), {"loopcond"})
  BY <1>2, FineSteps
<1>8. Fine(n, lv, names, Nop, {})
  BY <1>1, <1>2, FineEmits DEF Makes
<1>9. Fine(n, lv, names, Emit("loopcond", "i1", [CondV |-> "int"]), {"CondV"})
  BY <1>1, <1>2
     DEF Fine, Fair, Quiet, IsTarget, NeedsOnly, StepTyped, Holds, Gets, HasNeeds, Emit
<1>10. /\ Fine(n, lv, names, s[1], {}) /\ Fine(n, lv, names, s[2], {})
      /\ Fine(n, lv, names, s[3], {}) /\ Fine(n, lv, names, s[4], {})
      /\ Fine(n, lv, names, s[5], {"CondV"}) /\ Fine(n, lv, names, s[6], {"loopcond"})
      /\ Fine(n, lv, names, s[7], {}) /\ Fine(n, lv, names, s[8], {})
      /\ Fine(n, lv, names, s[9], {}) /\ Fine(n, lv, names, s[10], {})
      /\ Fine(n, lv, names, s[11], {}) /\ Fine(n, lv, names, s[12], {})
      /\ Fine(n, lv, names, s[13], {})
  BY <1>4, <1>5, <1>6, <1>7, <1>8, <1>9
<1>11. /\ Defines(s[4], "CondV") /\ Defines(s[5], "loopcond")
  BY <1>4, StepDefines
<1>12. \A j \in 1 .. 13 : StepTyped(n, s[j], lv, names) /\ Quiet(n, s[j])
  BY <1>10 DEF Fine, Fair
<1>13. Closed({}, s)
  <2> SUFFICES ASSUME NEW j \in 1 .. 13, HasNeeds(s[j]), NEW x \in DOMAIN s[j].need
               PROVE  \E k \in 1 .. j - 1 : Defines(s[k], x)
    BY <1>3 DEF Closed
  <2> QED
    BY <1>10, <1>11 DEF Fine, Fair, NeedsOnly
<1>14. Good(n, lv, names, {}, s)
  BY <1>3, <1>12, <1>13, FunctionList DEF Good, Typed
<1> QED
  BY <1>0, <1>14

LEMMA ForIterTyped ==
    ASSUME NEW n, NEW lv, NEW names,
           n.cls = "ASTForIterStmt", n.kids[1].cls \in TargetClasses, n.kids[2].cls \in ExprClasses
    PROVE  Paired(n, lv, names, ASTForIterStmt)
<1>0. PICK s : s = ASTForIterStmt
  OBVIOUS
<1>1. n.cls \notin OuterClasses \cup {"ASTFunAppExpr"} /\ n.cls \notin ExprClasses
  BY DEF OuterClasses, ExprClasses, ConstantClasses, UnaryClasses, BinaryClasses
<1>2. /\ Kind(n, "array") = "value" /\ Kind(n, "iterator") = "target"
      /\ Kind(n, "arrayPtr") = "pointer" /\ Kind(n, "length") = "word"
      /\ Kind(n, "indexPtr") = "pointer" /\ Kind(n, "oneV") = "word" /\ Kind(n, "curIndex") = "word"
      /\ Kind(n, "loopcond") = "bit" /\ Kind(n, "loadPtr") = "pointer"
      /\ Kind(n, "arrayElementValue") = "word" /\ Kind(n, "BodyV") = "none"
      /\ Kind(n, "inctmp") = "word" /\ Kind(n, "result") = "none"
  BY <1>1, Kinds DEF Bits, Pointers, Values, Words
<1>3. DOMAIN s = 1 .. 28 /\ s = [i \in 1 .. 28 |-> s[i]]
  BY <1>0 DEF ASTForIterStmt
<1>4. /\ s[1] = Gen(2, "array") /\ s[2] = lValueFlag(TRUE) /\ s[3] = Gen(1, "iterator")
      /\ s[4] = lValueFlag(FALSE) /\ s[5] = Emit("arrayPtr", "ptr", [array |-> "i64"])
      /\ s[6] = Emit("length", "i64", [arrayPtr |-> "ptr"])
      /\ s[7] = Emit("indexPtr", "ptr", NoOperands) /\ s[8] = Known("oneV", ConstantInt)
      /\ s[9] = Store("oneV", "indexPtr") /\ s[10] = Blocks("header", {"body", "exit"})
      /\ s[11] = Branch("header") /\ s[12] = At("header")
      /\ s[13] = Emit("curIndex", "i64", [indexPtr |-> "ptr"])
      /\ s[14] = Emit("loopcond", "i1", [curIndex |-> "i64", length |-> "i64"])
      /\ s[15] = CondBranch("loopcond", "body", "exit") /\ s[16] = Place("body")
      /\ s[17] = At("body") /\ s[18] = Emit("curIndex", "i64", [indexPtr |-> "ptr"])
      /\ s[19] = Emit("loadPtr", "ptr", [arrayPtr |-> "ptr", curIndex |-> "i64"])
      /\ s[20] = Emit("arrayElementValue", "i64", [loadPtr |-> "ptr"])
      /\ s[21] = Store("arrayElementValue", "iterator") /\ s[22] = Gen(3, "BodyV")
      /\ s[23] = Emit("inctmp", "i64", [curIndex |-> "i64"]) /\ s[24] = Store("inctmp", "indexPtr")
      /\ s[25] = Branch("header") /\ s[26] = Place("exit") /\ s[27] = At("exit") /\ s[28] = Nop
  BY <1>0 DEF ASTForIterStmt
<1>5. /\ Fair(n, lv, names, lValueFlag(TRUE), {}) /\ Fine(n, lv, names, lValueFlag(FALSE), {})
      /\ Fine(n, lv, names, Blocks("header", {"body", "exit"}), {})
      /\ Fine(n, lv, names, Branch("header"), {}) /\ Fine(n, lv, names, At("header"), {})
      /\ Fine(n, lv, names, Place("body"), {}) /\ Fine(n, lv, names, At("body"), {})
      /\ Fine(n, lv, names, Place("exit"), {}) /\ Fine(n, lv, names, At("exit"), {})
  BY FineMoves
<1>6. /\ Fine(n, lv, names, Gen(2, "array"), {}) /\ Fair(n, lv, names, Gen(1, "iterator"), {})
      /\ Fine(n, lv, names, Gen(3, "BodyV"), {})
  BY <1>2, FineGens
<1>7. Fine(n, lv, names, Known("oneV", ConstantInt), {})
  BY <1>2, FineSteps
<1>8. /\ Fine(n, lv, names, Store("oneV", "indexPtr"), {"oneV", "indexPtr"})
      /\ Fine(n, lv, names, CondBranch("loopcond", "body", "exit"), {"loopcond"})
      /\ Fine(n, lv, names, Store("arrayElementValue", "iterator"), {"arrayElementValue", "iterator"})
      /\ Fine(n, lv, names, Store("inctmp", "indexPtr"), {"inctmp", "indexPtr"})
  BY <1>2, FineSteps
<1>9. /\ Fine(n, lv, names, Emit("indexPtr", "ptr", NoOperands), {}) /\ Fine(n, lv, names, Nop, {})
  BY <1>1, <1>2, FineEmits DEF Makes
<1>10. /\ Fine(n, lv, names, Emit("arrayPtr", "ptr", [array |-> "i64"]), {"array"})
      /\ Fine(n, lv, names, Emit("length", "i64", [arrayPtr |-> "ptr"]), {"arrayPtr"})
      /\ Fine(n, lv, names, Emit("curIndex", "i64", [indexPtr |-> "ptr"]), {"indexPtr"})
      /\ Fine(n, lv, names, Emit("loopcond", "i1", [curIndex |-> "i64", length |-> "i64"]), {"curIndex", "length"})
  BY <1>1, <1>2
     DEF Fine, Fair, Quiet, IsTarget, NeedsOnly, StepTyped, Holds, Gets, HasNeeds, Emit
<1>11. /\ Fine(n, lv, names, Emit("loadPtr", "ptr", [arrayPtr |-> "ptr", curIndex |-> "i64"]), {"arrayPtr", "curIndex"})
      /\ Fine(n, lv, names, Emit("arrayElementValue", "i64", [loadPtr |-> "ptr"]), {"loadPtr"})
      /\ Fine(n, lv, names, Emit("inctmp", "i64", [curIndex |-> "i64"]), {"curIndex"})
  BY <1>1, <1>2
     DEF Fine, Fair, Quiet, IsTarget, NeedsOnly, StepTyped, Holds, Gets, HasNeeds, Emit
<1>12. /\ Fine(n, lv, names, s[1], {}) /\ Fair(n, lv, names, s[2], {})
      /\ Fair(n, lv, names, s[3], {}) /\ Fine(n, lv, names, s[4], {})
      /\ Fine(n, lv, names, s[5], {"array"}) /\ Fine(n, lv, names, s[6], {"arrayPtr"})
      /\ Fine(n, lv, names, s[7], {}) /\ Fine(n, lv, names, s[8], {})
      /\ Fine(n, lv, names, s[9], {"oneV", "indexPtr"}) /\ Fine(n, lv, names, s[10], {})
      /\ Fine(n, lv, names, s[11], {}) /\ Fine(n, lv, names, s[12], {})
      /\ Fine(n, lv, names, s[13], {"indexPtr"})
      /\ Fine(n, lv, names, s[14], {"curIndex", "length"})
  BY <1>4, <1>5, <1>6, <1>7, <1>8, <1>9, <1>10, <1>11
<1>13. /\ Fine(n, lv, names, s[15], {"loopcond"}) /\ Fine(n, lv, names, s[16], {})
      /\ Fine(n, lv, names, s[17], {}) /\ Fine(n, lv, names, s[18], {"indexPtr"})
      /\ Fine(n, lv, names, s[19], {"arrayPtr", "curIndex"})
      /\ Fine(n, lv, names, s[20], {"loadPtr"})
      /\ Fine(n, lv, names, s[21], {"arrayElementValue", "iterator"})
      /\ Fine(n, lv, names, s[22], {}) /\ Fine(n, lv, names, s[23], {"curIndex"})
      /\ Fine(n, lv, names, s[24], {"inctmp", "indexPtr"}) /\ Fine(n, lv, names, s[25], {})
      /\ Fine(n, lv, names, s[26], {}) /\ Fine(n, lv, names, s[27], {})
      /\ Fine(n, lv, names, s[28], {})
  BY <1>4, <1>5, <1>6, <1>7, <1>8, <1>9, <1>10, <1>11
<1>14. /\ Defines(s[1], "array") /\ Defines(s[3], "iterator") /\ Defines(s[5], "arrayPtr")
      /\ Defines(s[6], "length") /\ Defines(s[7], "indexPtr") /\ Defines(s[8], "oneV")
      /\ Defines(s[13], "curIndex") /\ Defines(s[14], "loopcond") /\ Defines(s[19], "loadPtr")
      /\ Defines(s[20], "arrayElementValue") /\ Defines(s[23], "inctmp")
  BY <1>4, StepDefines
<1>15. /\ \A j \in 1 .. 28 : StepTyped(n, s[j], lv, names)
      /\ \A j \in 1 .. 28 : j \notin {2, 3} => Quiet(n, s[j])
  BY <1>12, <1>13 DEF Fine, Fair
<1>16. Closed({}, s)
  <2> SUFFICES ASSUME NEW j \in 1 .. 28, HasNeeds(s[j]), NEW x \in DOMAIN s[j].need
               PROVE  \E k \in 1 .. j - 1 : Defines(s[k], x)
    BY <1>3 DEF Closed
  <2> QED
    BY <1>12, <1>13, <1>14 DEF Fine, Fair, NeedsOnly
<1>k. PICK k : k = 2
  OBVIOUS
<1>17. k \in Nat \ {0} /\ k + 1 = 3 /\ k + 2 = 4 /\ k + 2 \in DOMAIN s
  BY <1>k, <1>3
<1>18. IsTarget(n, Gen(1, "iterator"))
  BY <1>2 DEF IsTarget, Gen
<1>19. /\ s[k] = lValueFlag(TRUE) /\ IsTarget(n, s[k + 1]) /\ s[k + 2] = lValueFlag(FALSE)
      /\ \A j \in DOMAIN s : j \notin {k, k + 1} => Quiet(n, s[j])
  BY <1>k, <1>3, <1>4, <1>15, <1>17, <1>18
<1>20. TripleAt(n, s, k)
  BY <1>17, <1>19 DEF TripleAt
<1>21. Typed(n, lv, names, {}, s)
  BY <1>3, <1>15, <1>16, FunctionList DEF Typed
<1> QED
  BY <1>0, <1>20, <1>21, TripleIsPaired

LEMMA InputTyped ==
    ASSUME NEW n, NEW lv, NEW names,
           n.cls = "ASTInputExpr", lv = FALSE
    PROVE  Good(n, lv, names, {}, ASTInputExpr) /\ Has(ASTInputExpr, "result")
<1>0. PICK s : s = ASTInputExpr
  OBVIOUS
<1>1. n.cls \notin OuterClasses \cup {"ASTFunAppExpr"} /\ n.cls \in ExprClasses
  BY DEF OuterClasses, ExprClasses, ConstantClasses, UnaryClasses, BinaryClasses
<1>2. Kind(n, "result") = "result"
  BY <1>1, Kinds
<1>3. DOMAIN s = 1 .. 1 /\ s = [i \in 1 .. 1 |-> s[i]]
  BY <1>0 DEF ASTInputExpr
<1>4. s[1] = Emit("result", "i64", NoOperands)
  BY <1>0 DEF ASTInputExpr
<1>5. Fine(n, lv, names, Emit("result", "i64", NoOperands), {})
  BY <1>1, <1>2
     DEF Fine, Fair, Quiet, IsTarget, NeedsOnly, StepTyped, Holds, HasNeeds, Emit, NoOperands
<1>6. Fine(n, lv, names, s[1], {})
  BY <1>4, <1>5
<1>7. Defines(s[1], "result")
  BY <1>4, StepDefines
<1>8. \A j \in 1 .. 1 : StepTyped(n, s[j], lv, names) /\ Quiet(n, s[j])
  BY <1>6 DEF Fine, Fair
<1>9. Closed({}, s)
  <2> SUFFICES ASSUME NEW j \in 1 .. 1, HasNeeds(s[j]), NEW x \in DOMAIN s[j].need
               PROVE  \E k \in 1 .. j - 1 : Defines(s[k], x)
    BY <1>3 DEF Closed
  <2> QED
    BY <1>6, <1>7 DEF Fine, Fair, NeedsOnly
<1>10. Has(s, "result")
  BY <1>3, <1>7 DEF Has
<1>11. Good(n, lv, names, {}, s)
  BY <1>3, <1>8, <1>9, FunctionList DEF Good, Typed
<1> QED
  BY <1>0, <1>11, <1>10

LEMMA NumberTyped ==
    ASSUME NEW n, NEW lv, NEW names,
           n.cls \in ConstantClasses, lv = FALSE
    PROVE  Good(n, lv, names, {}, ASTNumberExpr) /\ Has(ASTNumberExpr, "result")
<1>0. PICK s : s = ASTNumberExpr
  OBVIOUS
<1>1. n.cls \notin OuterClasses \cup {"ASTFunAppExpr"} /\ n.cls \in ExprClasses
  BY DEF OuterClasses, ExprClasses, ConstantClasses, UnaryClasses, BinaryClasses
<1>2. Kind(n, "result") = "result"
  BY <1>1, Kinds
<1>3. DOMAIN s = 1 .. 1 /\ s = [i \in 1 .. 1 |-> s[i]]
  BY <1>0 DEF ASTNumberExpr
<1>4. s[1] = Known("result", ConstantInt)
  BY <1>0 DEF ASTNumberExpr
<1>5. Fine(n, lv, names, Known("result", ConstantInt), {})
  BY <1>1, <1>2
     DEF Fine, Fair, Quiet, IsTarget, NeedsOnly, StepTyped, Holds, HasNeeds, Known, ConstantInt
<1>6. Fine(n, lv, names, s[1], {})
  BY <1>4, <1>5
<1>7. Defines(s[1], "result")
  BY <1>4, StepDefines
<1>8. \A j \in 1 .. 1 : StepTyped(n, s[j], lv, names) /\ Quiet(n, s[j])
  BY <1>6 DEF Fine, Fair
<1>9. Closed({}, s)
  <2> SUFFICES ASSUME NEW j \in 1 .. 1, HasNeeds(s[j]), NEW x \in DOMAIN s[j].need
               PROVE  \E k \in 1 .. j - 1 : Defines(s[k], x)
    BY <1>3 DEF Closed
  <2> QED
    BY <1>6, <1>7 DEF Fine, Fair, NeedsOnly
<1>10. Has(s, "result")
  BY <1>3, <1>7 DEF Has
<1>11. Good(n, lv, names, {}, s)
  BY <1>3, <1>8, <1>9, FunctionList DEF Good, Typed
<1> QED
  BY <1>0, <1>11, <1>10

LEMMA BinaryTyped ==
    ASSUME NEW n, NEW lv, NEW names,
           n.cls = "ASTBinaryExpr", n.kids[1].cls \in ExprClasses, n.kids[2].cls \in ExprClasses,
           lv = FALSE
    PROVE  Good(n, lv, names, {}, ASTBinaryExpr(n)) /\ Has(ASTBinaryExpr(n), "result")
<1>0. PICK s : s = ASTBinaryExpr(n)
  OBVIOUS
<1>1. n.cls \notin OuterClasses \cup {"ASTFunAppExpr"} /\ n.cls \in ExprClasses
  BY DEF OuterClasses, ExprClasses, ConstantClasses, UnaryClasses, BinaryClasses
<1>2. /\ Kind(n, "L") = "value" /\ Kind(n, "R") = "value" /\ Kind(n, "result") = "result"
  BY <1>1, Kinds DEF Values
<1>e. PICK t : t = IF n.names[1] \in {">", "<", ">=", "<=", "==", "!="} THEN "i1" ELSE "i64"
  OBVIOUS
<1>f. t \in {"i1", "i64"} /\ (t = "i1" => OneBit(n))
  BY <1>e DEF OneBit, Comparison
<1>3. DOMAIN s = 1 .. 3 /\ s = [i \in 1 .. 3 |-> s[i]]
  BY <1>0 DEF ASTBinaryExpr
<1>4. /\ s[1] = Gen(1, "L") /\ s[2] = Gen(2, "R")
      /\ s[3] = Emit("result", t, [L |-> "same", R |-> "same"])
  BY <1>0, <1>e DEF ASTBinaryExpr
<1>5. /\ Fine(n, lv, names, Gen(1, "L"), {}) /\ Fine(n, lv, names, Gen(2, "R"), {})
  BY <1>2, FineGens
<1>6. Fine(n, lv, names, Emit("result", t, [L |-> "same", R |-> "same"]), {"L", "R"})
  BY <1>f, <1>1, <1>2
     DEF Fine, Fair, Quiet, IsTarget, NeedsOnly, StepTyped, Holds, Gets, HasNeeds, Emit
<1>7. /\ Fine(n, lv, names, s[1], {}) /\ Fine(n, lv, names, s[2], {})
      /\ Fine(n, lv, names, s[3], {"L", "R"})
  BY <1>4, <1>5, <1>6
<1>8. /\ Defines(s[1], "L") /\ Defines(s[2], "R") /\ Defines(s[3], "result")
  BY <1>4, <1>e, StepDefines
<1>9. \A j \in 1 .. 3 : StepTyped(n, s[j], lv, names) /\ Quiet(n, s[j])
  BY <1>7 DEF Fine, Fair
<1>10. Closed({}, s)
  <2> SUFFICES ASSUME NEW j \in 1 .. 3, HasNeeds(s[j]), NEW x \in DOMAIN s[j].need
               PROVE  \E k \in 1 .. j - 1 : Defines(s[k], x)
    BY <1>3 DEF Closed
  <2> QED
    BY <1>7, <1>8 DEF Fine, Fair, NeedsOnly
<1>11. Has(s, "result")
  BY <1>3, <1>8 DEF Has
<1>12. Good(n, lv, names, {}, s)
  BY <1>3, <1>9, <1>10, FunctionList DEF Good, Typed
<1> QED
  BY <1>0, <1>12, <1>11

LEMMA ReturnTyped ==
    ASSUME NEW n, NEW lv, NEW names,
           n.cls = "ASTReturnStmt", n.kids[1].cls \in ExprClasses
    PROVE  Good(n, lv, names, {}, ASTReturnStmt)
<1>0. PICK s : s = ASTReturnStmt
  OBVIOUS
<1>1. n.cls \notin OuterClasses \cup {"ASTFunAppExpr"} /\ n.cls \notin ExprClasses
  BY DEF OuterClasses, ExprClasses, ConstantClasses, UnaryClasses, BinaryClasses
<1>2. /\ Kind(n, "argVal") = "value" /\ Kind(n, "result") = "none"
  BY <1>1, Kinds DEF Values
<1>e. PICK e : e = [do |-> "terminate", need |-> [argVal |-> "i64"], to |-> {}]
  OBVIOUS
<1>3. DOMAIN s = 1 .. 3 /\ s = [i \in 1 .. 3 |-> s[i]]
  BY <1>0 DEF ASTReturnStmt
<1>4. /\ s[1] = Gen(1, "argVal") /\ s[2] = e /\ s[3] = Known("result", ConstantInt)
  BY <1>0, <1>e DEF ASTReturnStmt
<1>5. Fine(n, lv, names, Gen(1, "argVal"), {})
  BY <1>2, FineGens
<1>6. Fine(n, lv, names, Known("result", ConstantInt), {})
  BY <1>2, FineSteps
<1>7. Fine(n, lv, names, e, {"argVal"})
  BY <1>e, <1>2 DEF Fine, Fair, Quiet, IsTarget, NeedsOnly, StepTyped, Gets, HasNeeds
<1>8. /\ Fine(n, lv, names, s[1], {}) /\ Fine(n, lv, names, s[2], {"argVal"})
      /\ Fine(n, lv, names, s[3], {})
  BY <1>4, <1>5, <1>6, <1>7
<1>9. Defines(s[1], "argVal")
  BY <1>4, <1>e, StepDefines
<1>10. \A j \in 1 .. 3 : StepTyped(n, s[j], lv, names) /\ Quiet(n, s[j])
  BY <1>8 DEF Fine, Fair
<1>11. Closed({}, s)
  <2> SUFFICES ASSUME NEW j \in 1 .. 3, HasNeeds(s[j]), NEW x \in DOMAIN s[j].need
               PROVE  \E k \in 1 .. j - 1 : Defines(s[k], x)
    BY <1>3 DEF Closed
  <2> QED
    BY <1>8, <1>9 DEF Fine, Fair, NeedsOnly
<1>12. Good(n, lv, names, {}, s)
  BY <1>3, <1>10, <1>11, FunctionList DEF Good, Typed
<1> QED
  BY <1>0, <1>12

LEMMA IfTyped ==
    ASSUME NEW n, NEW lv, NEW names,
           n.cls = "ASTIfStmt", n.kids[1].cls \in ExprClasses
    PROVE  Good(n, lv, names, {}, ASTIfStmt(n))
<1>0. PICK s : s = ASTIfStmt(n)
  OBVIOUS
<1>1. n.cls \notin OuterClasses \cup {"ASTFunAppExpr"} /\ n.cls \notin ExprClasses
  BY DEF OuterClasses, ExprClasses, ConstantClasses, UnaryClasses, BinaryClasses
<1>2. /\ Kind(n, "CondV") = "value" /\ Kind(n, "ifcond") = "bit" /\ Kind(n, "ThenV") = "none"
      /\ Kind(n, "ElseV") = "none" /\ Kind(n, "result") = "none"
  BY <1>1, Kinds DEF Bits, Values
<1>e. PICK e : e = IF Len(n.kids) = 3 THEN Gen(3, "ElseV") ELSE Nop
  OBVIOUS
<1>3. DOMAIN s = 1 .. 14 /\ s = [i \in 1 .. 14 |-> s[i]]
  BY <1>0 DEF ASTIfStmt
<1>4. /\ s[1] = Gen(1, "CondV") /\ s[2] = Emit("ifcond", "i1", [CondV |-> "int"])
      /\ s[3] = Blocks("then", {"else", "ifmerge"}) /\ s[4] = CondBranch("ifcond", "then", "else")
      /\ s[5] = At("then") /\ s[6] = Gen(2, "ThenV") /\ s[7] = Branch("ifmerge")
      /\ s[8] = Place("else") /\ s[9] = At("else") /\ s[10] = e /\ s[11] = Branch("ifmerge")
      /\ s[12] = Place("ifmerge") /\ s[13] = At("ifmerge") /\ s[14] = Nop
  BY <1>0, <1>e DEF ASTIfStmt
<1>5. /\ Fine(n, lv, names, Blocks("then", {"else", "ifmerge"}), {})
      /\ Fine(n, lv, names, At("then"), {}) /\ Fine(n, lv, names, Branch("ifmerge"), {})
      /\ Fine(n, lv, names, Place("else"), {}) /\ Fine(n, lv, names, At("else"), {})
      /\ Fine(n, lv, names, Place("ifmerge"), {}) /\ Fine(n, lv, names, At("ifmerge"), {})
  BY FineMoves
<1>6. /\ Fine(n, lv, names, Gen(1, "CondV"), {}) /\ Fine(n, lv, names, Gen(2, "ThenV"), {})
  BY <1>2, FineGens
<1>7. Fine(n, lv, names, CondBranch("ifcond", "then", "else"), {"ifcond"})
  BY <1>2, FineSteps
<1>8. Fine(n, lv, names, Nop, {})
  BY <1>1, <1>2, FineEmits DEF Makes
<1>9. Fine(n, lv, names, Emit("ifcond", "i1", [CondV |-> "int"]), {"CondV"})
  BY <1>1, <1>2
     DEF Fine, Fair, Quiet, IsTarget, NeedsOnly, StepTyped, Holds, Gets, HasNeeds, Emit
<1>10. Fine(n, lv, names, e, {})
  BY <1>e, <1>1, <1>2, FineGens, FineSteps, FineEmits
<1>11. /\ Fine(n, lv, names, s[1], {}) /\ Fine(n, lv, names, s[2], {"CondV"})
      /\ Fine(n, lv, names, s[3], {}) /\ Fine(n, lv, names, s[4], {"ifcond"})
      /\ Fine(n, lv, names, s[5], {}) /\ Fine(n, lv, names, s[6], {})
      /\ Fine(n, lv, names, s[7], {}) /\ Fine(n, lv, names, s[8], {})
      /\ Fine(n, lv, names, s[9], {}) /\ Fine(n, lv, names, s[10], {})
      /\ Fine(n, lv, names, s[11], {}) /\ Fine(n, lv, names, s[12], {})
      /\ Fine(n, lv, names, s[13], {}) /\ Fine(n, lv, names, s[14], {})
  BY <1>4, <1>5, <1>6, <1>7, <1>8, <1>9, <1>10
<1>12. /\ Defines(s[1], "CondV") /\ Defines(s[2], "ifcond")
  BY <1>4, <1>e, StepDefines
<1>13. \A j \in 1 .. 14 : StepTyped(n, s[j], lv, names) /\ Quiet(n, s[j])
  BY <1>11 DEF Fine, Fair
<1>14. Closed({}, s)
  <2> SUFFICES ASSUME NEW j \in 1 .. 14, HasNeeds(s[j]), NEW x \in DOMAIN s[j].need
               PROVE  \E k \in 1 .. j - 1 : Defines(s[k], x)
    BY <1>3 DEF Closed
  <2> QED
    BY <1>11, <1>12 DEF Fine, Fair, NeedsOnly
<1>15. Good(n, lv, names, {}, s)
  BY <1>3, <1>13, <1>14, FunctionList DEF Good, Typed
<1> QED
  BY <1>0, <1>15

LEMMA ForRangeTyped ==
    ASSUME NEW n, NEW lv, NEW names,
           n.cls = "ASTForRangeStmt", n.kids[1].cls \in TargetClasses,
           n.kids[2].cls \in ExprClasses, n.kids[3].cls \in ExprClasses,
           Len(n.kids) = 5 => n.kids[4].cls \in ExprClasses
    PROVE  Paired(n, lv, names, ASTForRangeStmt(n))
<1>0. PICK s : s = ASTForRangeStmt(n)
  OBVIOUS
<1>1. n.cls \notin OuterClasses \cup {"ASTFunAppExpr"} /\ n.cls \notin ExprClasses
  BY DEF OuterClasses, ExprClasses, ConstantClasses, UnaryClasses, BinaryClasses
<1>2. /\ Kind(n, "iterator") = "target" /\ Kind(n, "start") = "value" /\ Kind(n, "end") = "value"
      /\ Kind(n, "step") = "value" /\ Kind(n, "curVal") = "word" /\ Kind(n, "loopcond") = "bit"
      /\ Kind(n, "cur") = "word" /\ Kind(n, "BodyV") = "none" /\ Kind(n, "inctmp") = "word"
      /\ Kind(n, "result") = "none"
  BY <1>1, Kinds DEF Bits, Values, Words
<1>e. PICK e : e = IF Len(n.kids) = 5 THEN Gen(4, "step") ELSE Known("step", ConstantInt)
  OBVIOUS
<1>3. DOMAIN s = 1 .. 23 /\ s = [i \in 1 .. 23 |-> s[i]]
  BY <1>0 DEF ASTForRangeStmt
<1>4. /\ s[1] = lValueFlag(TRUE) /\ s[2] = Gen(1, "iterator") /\ s[3] = lValueFlag(FALSE)
      /\ s[4] = Gen(2, "start") /\ s[5] = Gen(3, "end") /\ s[6] = e
      /\ s[7] = Store("start", "iterator") /\ s[8] = Blocks("header", {"body", "exit"})
      /\ s[9] = Branch("header") /\ s[10] = At("header")
      /\ s[11] = Emit("curVal", "i64", [iterator |-> "ptr"])
      /\ s[12] = Emit("loopcond", "i1", [curVal |-> "i64", end |-> "i64"])
      /\ s[13] = CondBranch("loopcond", "body", "exit") /\ s[14] = Place("body")
      /\ s[15] = At("body") /\ s[16] = Emit("cur", "i64", [iterator |-> "ptr"])
      /\ s[17] = Gen(Len(n.kids), "BodyV")
      /\ s[18] = Emit("inctmp", "i64", [cur |-> "i64", step |-> "i64"])
      /\ s[19] = Store("inctmp", "iterator") /\ s[20] = Branch("header") /\ s[21] = Place("exit")
      /\ s[22] = At("exit") /\ s[23] = Nop
  BY <1>0, <1>e DEF ASTForRangeStmt
<1>5. /\ Fair(n, lv, names, lValueFlag(TRUE), {}) /\ Fine(n, lv, names, lValueFlag(FALSE), {})
      /\ Fine(n, lv, names, Blocks("header", {"body", "exit"}), {})
      /\ Fine(n, lv, names, Branch("header"), {}) /\ Fine(n, lv, names, At("header"), {})
      /\ Fine(n, lv, names, Place("body"), {}) /\ Fine(n, lv, names, At("body"), {})
      /\ Fine(n, lv, names, Place("exit"), {}) /\ Fine(n, lv, names, At("exit"), {})
  BY FineMoves
<1>6. /\ Fair(n, lv, names, Gen(1, "iterator"), {}) /\ Fine(n, lv, names, Gen(2, "start"), {})
      /\ Fine(n, lv, names, Gen(3, "end"), {}) /\ Fine(n, lv, names, Gen(Len(n.kids), "BodyV"), {})
  BY <1>2, FineGens
<1>7. /\ Fine(n, lv, names, Store("start", "iterator"), {"start", "iterator"})
      /\ Fine(n, lv, names, CondBranch("loopcond", "body", "exit"), {"loopcond"})
      /\ Fine(n, lv, names, Store("inctmp", "iterator"), {"inctmp", "iterator"})
  BY <1>2, FineSteps
<1>8. Fine(n, lv, names, Nop, {})
  BY <1>1, <1>2, FineEmits DEF Makes
<1>9. /\ Fine(n, lv, names, Emit("curVal", "i64", [iterator |-> "ptr"]), {"iterator"})
      /\ Fine(n, lv, names, Emit("loopcond", "i1", [curVal |-> "i64", end |-> "i64"]), {"curVal", "end"})
      /\ Fine(n, lv, names, Emit("cur", "i64", [iterator |-> "ptr"]), {"iterator"})
      /\ Fine(n, lv, names, Emit("inctmp", "i64", [cur |-> "i64", step |-> "i64"]), {"cur", "step"})
  BY <1>1, <1>2
     DEF Fine, Fair, Quiet, IsTarget, NeedsOnly, StepTyped, Holds, Gets, HasNeeds, Emit
<1>10. Fine(n, lv, names, e, {})
  BY <1>e, <1>1, <1>2, FineGens, FineSteps, FineEmits
<1>11. /\ Fair(n, lv, names, s[1], {}) /\ Fair(n, lv, names, s[2], {})
      /\ Fine(n, lv, names, s[3], {}) /\ Fine(n, lv, names, s[4], {})
      /\ Fine(n, lv, names, s[5], {}) /\ Fine(n, lv, names, s[6], {})
      /\ Fine(n, lv, names, s[7], {"start", "iterator"}) /\ Fine(n, lv, names, s[8], {})
      /\ Fine(n, lv, names, s[9], {}) /\ Fine(n, lv, names, s[10], {})
      /\ Fine(n, lv, names, s[11], {"iterator"}) /\ Fine(n, lv, names, s[12], {"curVal", "end"})
      /\ Fine(n, lv, names, s[13], {"loopcond"}) /\ Fine(n, lv, names, s[14], {})
  BY <1>4, <1>5, <1>6, <1>7, <1>8, <1>9, <1>10
<1>12. /\ Fine(n, lv, names, s[15], {}) /\ Fine(n, lv, names, s[16], {"iterator"})
      /\ Fine(n, lv, names, s[17], {}) /\ Fine(n, lv, names, s[18], {"cur", "step"})
      /\ Fine(n, lv, names, s[19], {"inctmp", "iterator"}) /\ Fine(n, lv, names, s[20], {})
      /\ Fine(n, lv, names, s[21], {}) /\ Fine(n, lv, names, s[22], {})
      /\ Fine(n, lv, names, s[23], {})
  BY <1>4, <1>5, <1>6, <1>7, <1>8, <1>9, <1>10
<1>13. /\ Defines(s[2], "iterator") /\ Defines(s[4], "start") /\ Defines(s[5], "end")
      /\ Defines(s[6], "step") /\ Defines(s[11], "curVal") /\ Defines(s[12], "loopcond")
      /\ Defines(s[16], "cur") /\ Defines(s[18], "inctmp")
  BY <1>4, <1>e, StepDefines
<1>14. /\ \A j \in 1 .. 23 : StepTyped(n, s[j], lv, names)
      /\ \A j \in 1 .. 23 : j \notin {1, 2} => Quiet(n, s[j])
  BY <1>11, <1>12 DEF Fine, Fair
<1>15. Closed({}, s)
  <2> SUFFICES ASSUME NEW j \in 1 .. 23, HasNeeds(s[j]), NEW x \in DOMAIN s[j].need
               PROVE  \E k \in 1 .. j - 1 : Defines(s[k], x)
    BY <1>3 DEF Closed
  <2> QED
    BY <1>11, <1>12, <1>13 DEF Fine, Fair, NeedsOnly
<1>k. PICK k : k = 1
  OBVIOUS
<1>16. k \in Nat \ {0} /\ k + 1 = 2 /\ k + 2 = 3 /\ k + 2 \in DOMAIN s
  BY <1>k, <1>3
<1>17. IsTarget(n, Gen(1, "iterator"))
  BY <1>2 DEF IsTarget, Gen
<1>18. /\ s[k] = lValueFlag(TRUE) /\ IsTarget(n, s[k + 1]) /\ s[k + 2] = lValueFlag(FALSE)
      /\ \A j \in DOMAIN s : j \notin {k, k + 1} => Quiet(n, s[j])
  BY <1>k, <1>3, <1>4, <1>14, <1>16, <1>17
<1>19. TripleAt(n, s, k)
  BY <1>16, <1>18 DEF TripleAt
<1>20. Typed(n, lv, names, {}, s)
  BY <1>3, <1>14, <1>15, FunctionList DEF Typed
<1> QED
  BY <1>0, <1>19, <1>20, TripleIsPaired

-----------------------------------------------------------------------------
(* Lists that are put together from others.                                 *)
LEMMA GoodAll ==
    ASSUME NEW n, NEW lv, NEW names, NEW X, NEW s, IsList(s),
           \A j \in DOMAIN s : Fine(n, lv, names, s[j], X)
    PROVE  Good(n, lv, names, X, s)
<1>1. \A j \in DOMAIN s : StepTyped(n, s[j], lv, names) /\ Quiet(n, s[j]) /\ NeedsOnly(s[j], X)
  BY DEF Fine, Fair
<1>2. Closed(X, s)
  BY <1>1 DEF Closed, NeedsOnly
<1> QED
  BY <1>1, <1>2 DEF Good, Typed

LEMMA GoodOne ==
    ASSUME NEW n, NEW lv, NEW names, NEW X, NEW e, Fine(n, lv, names, e, X)
    PROVE  Good(n, lv, names, X, <<e>>) /\ \A x : Defines(e, x) => Has(<<e>>, x)
<1>1. PICK s : s = <<e>>
  OBVIOUS
<1>2. DOMAIN s = 1 .. 1 /\ s = [i \in 1 .. 1 |-> s[i]] /\ s[1] = e
  BY <1>1
<1>3. \A j \in DOMAIN s : Fine(n, lv, names, s[j], X)
  BY <1>2
<1>4. IsList(s)
  BY <1>2, FunctionList
<1>5. Good(n, lv, names, X, s)
  BY <1>3, <1>4, GoodAll
<1>6. \A x : Defines(e, x) => Has(s, x)
  BY <1>2 DEF Has
<1> QED
  BY <1>1, <1>5, <1>6

LEMMA GoodEmpty == ASSUME NEW n, NEW lv, NEW names, NEW X PROVE Good(n, lv, names, X, << >>)
<1>1. PICK s : s = << >>
  OBVIOUS
<1>2. s \in Seq({}) /\ DOMAIN s = {}
  BY <1>1
<1>3. IsList(s) /\ \A j \in DOMAIN s : Fine(n, lv, names, s[j], X)
  BY <1>2, AnyList
<1> QED
  BY <1>1, <1>3, GoodAll

LEMMA GoodConcat ==
    ASSUME NEW n, NEW lv, NEW names, NEW X, NEW Y, NEW s, NEW t,
           Good(n, lv, names, X, s), Good(n, lv, names, Y, t),
           \A y \in Y : y \in X \/ Has(s, y)
    PROVE  Good(n, lv, names, X, s \o t)
<1>1. /\ IsList(s) /\ Closed(X, s) /\ IsList(t) /\ Closed(Y, t)
      /\ \A j \in DOMAIN s : StepTyped(n, s[j], lv, names) /\ Quiet(n, s[j])
      /\ \A j \in DOMAIN t : StepTyped(n, t[j], lv, names) /\ Quiet(n, t[j])
  BY DEF Good, Typed
<1>2. PICK u : u = s \o t
  OBVIOUS
<1>3. /\ IsList(u) /\ Len(u) = Len(s) + Len(t)
      /\ \A i \in 1 .. Len(s) : u[i] = s[i]
      /\ \A i \in 1 .. Len(t) : u[Len(s) + i] = t[i]
      /\ \A i \in DOMAIN u : \/ i \in DOMAIN s /\ u[i] = s[i]
                             \/ i - Len(s) \in DOMAIN t /\ u[i] = t[i - Len(s)]
  BY <1>1, <1>2, ConcatList
<1>4. PICK a, b \in Nat : /\ a = Len(s) /\ b = Len(t) /\ DOMAIN s = 1 .. a /\ DOMAIN t = 1 .. b
                          /\ DOMAIN u = 1 .. a + b
  BY <1>1, <1>3, ListFacts
<1>5. \A j \in DOMAIN u : StepTyped(n, u[j], lv, names) /\ Quiet(n, u[j])
  BY <1>1, <1>3
<1>6. Closed(X, u)
  <2> SUFFICES ASSUME NEW j \in DOMAIN u, HasNeeds(u[j]), NEW x \in DOMAIN u[j].need
               PROVE  x \in X \/ \E k \in 1 .. j - 1 : Defines(u[k], x)
    BY DEF Closed
  <2>1. CASE j \in DOMAIN s /\ u[j] = s[j]
    <3>1. x \in X \/ \E k \in 1 .. j - 1 : Defines(s[k], x)
      BY <1>1, <2>1 DEF Closed
    <3>2. \A k \in 1 .. j - 1 : u[k] = s[k]
      BY <1>3, <1>4, <2>1
    <3> QED
      BY <3>1, <3>2
  <2>2. CASE j - a \in DOMAIN t /\ u[j] = t[j - a]
    <3>1. x \in Y \/ \E k \in 1 .. (j - a) - 1 : Defines(t[k], x)
      BY <1>1, <2>2 DEF Closed
    <3>2. ASSUME NEW k \in 1 .. (j - a) - 1, Defines(t[k], x) PROVE \E i \in 1 .. j - 1 : Defines(u[i], x)
      <4>1. a + k \in 1 .. j - 1 /\ k \in 1 .. b
        BY <1>4, <2>2
      <4>2. u[a + k] = t[k]
        BY <1>3, <1>4, <4>1
      <4> QED
        BY <3>2, <4>1, <4>2
    <3>3. ASSUME NEW k \in DOMAIN s, Defines(s[k], x) PROVE \E i \in 1 .. j - 1 : Defines(u[i], x)
      <4>1. k \in 1 .. j - 1 /\ u[k] = s[k]
        BY <1>3, <1>4, <2>2
      <4> QED
        BY <3>3, <4>1
    <3> QED
      BY <3>1, <3>2, <3>3 DEF Has
  <2> QED
    BY <1>3, <1>4, <2>1, <2>2
<1> QED
  BY <1>2, <1>3, <1>5, <1>6 DEF Good, Typed

LEMMA HasConcat ==
    ASSUME NEW s, NEW t, IsList(s), IsList(t), NEW x, Has(s, x) \/ Has(t, x)
    PROVE  Has(s \o t, x)
<1>2. PICK u : u = s \o t
  OBVIOUS
<1>3. /\ IsList(u) /\ Len(u) = Len(s) + Len(t)
      /\ \A i \in 1 .. Len(s) : u[i] = s[i]
      /\ \A i \in 1 .. Len(t) : u[Len(s) + i] = t[i]
  BY <1>2, ConcatList
<1>4. PICK a, b \in Nat : /\ a = Len(s) /\ b = Len(t) /\ DOMAIN s = 1 .. a /\ DOMAIN t = 1 .. b
                          /\ DOMAIN u = 1 .. a + b
  BY <1>3, ListFacts
<1>7. ASSUME Has(t, x) PROVE Has(u, x)
  <2>1. PICK k \in 1 .. b : Defines(t[k], x)
    BY <1>4, <1>7 DEF Has
  <2>2. a + k \in DOMAIN u /\ u[a + k] = t[k]
    BY <1>3, <1>4
  <2> QED
    BY <2>1, <2>2 DEF Has
<1>8. ASSUME Has(s, x) PROVE Has(u, x)
  BY <1>3, <1>4, <1>8 DEF Has
<1> QED
  BY <1>2, <1>7, <1>8

LEMMA GoodList == ASSUME NEW n, NEW lv, NEW names, NEW X, NEW s, Good(n, lv, names, X, s) PROVE IsList(s)
BY DEF Good, Typed

LEMMA GoodThrees ==
    ASSUME NEW n, NEW lv, NEW names, NEW X, NEW a, NEW b, NEW ss, IsList(ss),
           \A i \in DOMAIN ss :
              /\ Fine(n, lv, names, ss[i][1], X) /\ Fine(n, lv, names, ss[i][2], X)
              /\ Fine(n, lv, names, ss[i][3], {a, b})
              /\ Defines(ss[i][1], a) /\ Defines(ss[i][2], b)
    PROVE  Good(n, lv, names, X, Threes(ss))
<1>1. PICK m \in Nat : m = Len(ss) /\ DOMAIN ss = 1 .. m
  BY ListFacts
<1>2. PICK u : u = Threes(ss)
  OBVIOUS
<1>3. DOMAIN u = 1 .. 3 * m /\ u = [j \in 1 .. 3 * m |-> u[j]]
      /\ \A j \in 1 .. 3 * m : u[j] = ss[(j + 2) \div 3][((j + 2) % 3) + 1]
  BY <1>1, <1>2 DEF Threes
<1>4. IsList(u)
  <2>1. 3 * m \in Nat
    BY <1>1
  <2> QED
    BY <1>3, <2>1, FunctionList
<1>5. ASSUME NEW j \in 1 .. 3 * m
      PROVE  \E i \in 1 .. m : \/ j = 3 * i - 2 /\ u[j] = ss[i][1]
                               \/ j = 3 * i - 1 /\ u[j] = ss[i][2]
                               \/ /\ j = 3 * i /\ u[j] = ss[i][3]
                                  /\ j - 1 \in 1 .. 3 * m /\ u[j - 1] = ss[i][2]
                                  /\ j - 2 \in 1 .. 3 * m /\ u[j - 2] = ss[i][1]
  <2>1. PICK i \in 1 .. m : j = 3 * i - 2 \/ j = 3 * i - 1 \/ j = 3 * i
    <3>1. (j + 2) \div 3 \in 1 .. m /\ LET i == (j + 2) \div 3 IN j = 3 * i - 2 \/ j = 3 * i - 1 \/ j = 3 * i
      OBVIOUS
    <3> QED
      BY <3>1
  <2>2. /\ 3 * i - 2 \in 1 .. 3 * m /\ 3 * i - 1 \in 1 .. 3 * m /\ 3 * i \in 1 .. 3 * m
        /\ ((3 * i - 2) + 2) \div 3 = i /\ ((3 * i - 2) + 2) % 3 = 0
        /\ ((3 * i - 1) + 2) \div 3 = i /\ ((3 * i - 1) + 2) % 3 = 1
        /\ (3 * i + 2) \div 3 = i /\ (3 * i + 2) % 3 = 2
    OBVIOUS
  <2>3. u[3 * i - 2] = ss[i][1] /\ u[3 * i - 1] = ss[i][2] /\ u[3 * i] = ss[i][3]
    <3>1. /\ u[3 * i - 2] = ss[((3 * i - 2) + 2) \div 3][(((3 * i - 2) + 2) % 3) + 1]
          /\ u[3 * i - 1] = ss[((3 * i - 1) + 2) \div 3][(((3 * i - 1) + 2) % 3) + 1]
          /\ u[3 * i] = ss[(3 * i + 2) \div 3][((3 * i + 2) % 3) + 1]
      BY <1>3, <2>2
    <3>2. 0 + 1 = 1 /\ 1 + 1 = 2 /\ 2 + 1 = 3
      OBVIOUS
    <3> QED
      BY <2>2, <3>1, <3>2, Zenon
  <2>4. (3 * i) - 1 = 3 * i - 1 /\ (3 * i) - 2 = 3 * i - 2
    OBVIOUS
  <2> QED
    BY <2>1, <2>2, <2>3, <2>4
<1>6. ASSUME NEW j \in DOMAIN u PROVE StepTyped(n, u[j], lv, names) /\ Quiet(n, u[j])
  <2>1. PICK i \in 1 .. m : u[j] = ss[i][1] \/ u[j] = ss[i][2] \/ u[j] = ss[i][3]
    BY <1>3, <1>5
  <2>2. Fine(n, lv, names, ss[i][1], X) /\ Fine(n, lv, names, ss[i][2], X) /\ Fine(n, lv, names, ss[i][3], {a, b})
    BY <1>1
  <2> QED
    BY <2>1, <2>2 DEF Fine, Fair
<1>7. Closed(X, u)
  <2> SUFFICES ASSUME NEW j \in 1 .. 3 * m, HasNeeds(u[j]), NEW x \in DOMAIN u[j].need
               PROVE  x \in X \/ \E k \in 1 .. j - 1 : Defines(u[k], x)
    BY <1>3 DEF Closed
  <2>1. PICK i \in 1 .. m : \/ j = 3 * i - 2 /\ u[j] = ss[i][1]
                            \/ j = 3 * i - 1 /\ u[j] = ss[i][2]
                            \/ /\ j = 3 * i /\ u[j] = ss[i][3]
                               /\ j - 1 \in 1 .. 3 * m /\ u[j - 1] = ss[i][2]
                               /\ j - 2 \in 1 .. 3 * m /\ u[j - 2] = ss[i][1]
    BY <1>5
  <2>2. /\ NeedsOnly(ss[i][1], X) /\ NeedsOnly(ss[i][2], X) /\ NeedsOnly(ss[i][3], {a, b})
        /\ Defines(ss[i][1], a) /\ Defines(ss[i][2], b)
    BY <1>1 DEF Fine, Fair
  <2>3. CASE u[j] = ss[i][1] \/ u[j] = ss[i][2]
    BY <2>2, <2>3 DEF NeedsOnly
  <2>4. CASE /\ u[j] = ss[i][3]
             /\ j - 1 \in 1 .. 3 * m /\ u[j - 1] = ss[i][2]
             /\ j - 2 \in 1 .. 3 * m /\ u[j - 2] = ss[i][1]
    <3>1. x \in {a, b}
      BY <2>2, <2>4 DEF NeedsOnly
    <3>2. j - 1 \in 1 .. j - 1 /\ j - 2 \in 1 .. j - 1
      BY <2>4
    <3> QED
      BY <2>2, <2>4, <3>1, <3>2
  <2> QED
    BY <2>1, <2>3, <2>4
<1> QED
  BY <1>2, <1>3, <1>4, <1>6, <1>7 DEF Good, Typed

(* A list of quiet steps asks for no address.                               *)
LEMMA GoodIsPaired ==
    ASSUME NEW n, NEW lv, NEW names, NEW s, Good(n, lv, names, {}, s)
    PROVE  Paired(n, lv, names, s)
<1>1. IsList(s) /\ \A j \in DOMAIN s : Quiet(n, s[j])
  BY DEF Good, Typed
<1>2. s # << >> => 1 \in DOMAIN s
  BY <1>1, ListFacts
<1>3. FlagsPaired(n, s)
  BY <1>1 DEF FlagsPaired, Quiet
<1> QED
  BY <1>1, <1>2, <1>3 DEF Paired, Good, Quiet

-----------------------------------------------------------------------------
(* The lists of a program and of its functions.                             *)
LEMMA OuterKinds ==
    ASSUME NEW n, n.cls \in OuterClasses
    PROVE  n.cls \notin ExprClasses /\ \A x : Kind(n, x) = "none"
BY DEF OuterClasses, ExprClasses, ConstantClasses, UnaryClasses, BinaryClasses, Kind

LEMMA GenAllTyped ==
    ASSUME NEW n, NEW lv, NEW names, NEW d, Kind(n, d) = "none", Len(n.kids) \in Nat
    PROVE  Good(n, lv, names, {}, GenAll(n, d))
<1>1. PICK m \in Nat : m = Len(n.kids)
  OBVIOUS
<1>2. PICK s : s = GenAll(n, d)
  OBVIOUS
<1>3. DOMAIN s = 1 .. m /\ s = [i \in 1 .. m |-> s[i]] /\ \A i \in 1 .. m : s[i] = Gen(i, d)
  BY <1>1, <1>2 DEF GenAll
<1>4. \A i \in DOMAIN s : Fine(n, lv, names, s[i], {})
  BY <1>3, FineGens
<1>5. IsList(s)
  BY <1>3, FunctionList
<1> QED
  BY <1>2, <1>4, <1>5, GoodAll

LEMMA OuterTyped ==
    ASSUME NEW n, NEW lv, NEW names, n.cls \in OuterClasses, Len(n.kids) \in Nat, Len(n.names) \in Nat
    PROVE  /\ Good(n, lv, names, {}, ASTProgram(n)) /\ Good(n, lv, names, {}, ASTDeclStmt(n))
           /\ Len(n.names) > 0 => Good(n, lv, names, {}, ASTFunction(n))
<1>1. \A x : Kind(n, x) = "none"
  BY OuterKinds
<1>2. Good(n, lv, names, {}, <<Known("result", ConstantInt)>>)
  <2>1. Fine(n, lv, names, Known("result", ConstantInt), {})
    BY <1>1, FineSteps
  <2> QED
    BY <2>1, GoodOne
<1>3. /\ Good(n, lv, names, {}, GenAll(n, "function"))
      /\ Good(n, lv, names, {}, GenAll(n, "statement"))
  BY <1>1, GenAllTyped
<1>4. ASSUME NEW x PROVE Fine(n, lv, names, Local(x), {}) /\ Fine(n, lv, names, EnterFunction(x), {})
  BY DEF Fine, Fair, Quiet, IsTarget, StepTyped, NeedsOnly, HasNeeds, Local, EnterFunction
<1>5. ASSUME NEW l \in Nat, NEW s, DOMAIN s = 1 .. l, s = [i \in 1 .. l |-> s[i]],
             \A i \in 1 .. l : \E x : s[i] = Local(x)
      PROVE  Good(n, lv, names, {}, s)
  <2>1. IsList(s)
    BY <1>5, FunctionList
  <2>2. \A i \in DOMAIN s : Fine(n, lv, names, s[i], {})
    BY <1>4, <1>5
  <2> QED
    BY <2>1, <2>2, GoodAll
<1>6. Good(n, lv, names, {}, ASTProgram(n))
  BY <1>2, <1>3, GoodConcat DEF ASTProgram
<1>7. Good(n, lv, names, {}, ASTDeclStmt(n))
  <2>1. PICK s : s = [i \in 1..Len(n.names) |-> Local(n.names[i])]
    OBVIOUS
  <2>2. PICK l \in Nat : l = Len(n.names)
    OBVIOUS
  <2>3. DOMAIN s = 1 .. l /\ s = [i \in 1 .. l |-> s[i]] /\ \A i \in 1 .. l : \E x : s[i] = Local(x)
    BY <2>1, <2>2
  <2>4. Good(n, lv, names, {}, s)
    BY <1>5, <2>3
  <2>5. ASTDeclStmt(n) = s \o <<Known("result", ConstantInt)>>
    BY <2>1 DEF ASTDeclStmt
  <2> QED
    BY <1>2, <2>4, <2>5, GoodConcat
<1>8. ASSUME Len(n.names) > 0 PROVE Good(n, lv, names, {}, ASTFunction(n))
  <2>1. PICK s : s = [i \in 1..(Len(n.names) - 1) |-> Local(n.names[i + 1])]
    OBVIOUS
  <2>2. PICK l \in Nat : l = Len(n.names) - 1
    <3>1. Len(n.names) - 1 \in Nat
      BY <1>8
    <3> QED
      BY <3>1
  <2>3. DOMAIN s = 1 .. l /\ s = [i \in 1 .. l |-> s[i]] /\ \A i \in 1 .. l : \E x : s[i] = Local(x)
    BY <2>1, <2>2
  <2>4. Good(n, lv, names, {}, s)
    BY <1>5, <2>3
  <2>5. Good(n, lv, names, {}, <<EnterFunction(n.names[1])>>)
    BY <1>4, GoodOne
  <2>6. PICK e, a, r : /\ e = <<EnterFunction(n.names[1])>> /\ a = GenAll(n, "statement")
                       /\ r = <<Known("result", ConstantInt)>>
    OBVIOUS
  <2>7. ASTFunction(n) = ((e \o s) \o a) \o r
    BY <2>1, <2>6 DEF ASTFunction
  <2>8. Good(n, lv, names, {}, e \o s)
    BY <2>4, <2>5, <2>6, GoodConcat
  <2>9. Good(n, lv, names, {}, (e \o s) \o a)
    BY <1>3, <2>6, <2>8, GoodConcat
  <2>10. Good(n, lv, names, {}, ((e \o s) \o a) \o r)
    BY <1>2, <2>6, <2>9, GoodConcat
  <2> QED
    BY <2>7, <2>10
<1> QED
  BY <1>6, <1>7, <1>8

LEMMA BlockTyped ==
    ASSUME NEW n, NEW lv, NEW names, n.cls = "ASTBlockStmt", Len(n.kids) \in Nat
    PROVE  Good(n, lv, names, {}, ASTBlockStmt(n))
<1>1. n.cls \notin OuterClasses \cup {"ASTFunAppExpr"} /\ n.cls \notin ExprClasses
  BY DEF OuterClasses, ExprClasses, ConstantClasses, UnaryClasses, BinaryClasses
<1>2. Kind(n, "result") = "none"
  BY <1>1, Kinds
<1>3. Good(n, lv, names, {}, GenAll(n, "result"))
  BY <1>2, GenAllTyped
<1>4. Good(n, lv, names, {}, <<Nop>>) /\ Good(n, lv, names, {}, << >>)
  <2>1. Fine(n, lv, names, Nop, {})
    BY <1>2, FineEmits
  <2> QED
    BY <2>1, GoodOne, GoodEmpty
<1>5. PICK t : t = IF Len(n.kids) = 0 THEN <<Nop>> ELSE << >>
  OBVIOUS
<1>6. Good(n, lv, names, {}, t)
  BY <1>4, <1>5
<1>7. ASTBlockStmt(n) = GenAll(n, "result") \o t
  BY <1>5 DEF ASTBlockStmt
<1> QED
  BY <1>3, <1>6, <1>7, GoodConcat

(* What an alloca holds, or the address of it; a function is an index.       *)
LEMMA VariableTyped ==
    ASSUME NEW n, NEW lv, NEW names, n.cls = "ASTVariableExpr", lv \in BOOLEAN,
           \A x \in DOMAIN names : names[x].type = "ptr"
    PROVE  LET s == ASTVariableExpr(n, lv, names)
           IN  Good(n, lv, names, {}, s) /\ Has(s, "result")
<1>1. n.cls \notin OuterClasses \cup {"ASTFunAppExpr"} /\ n.cls \in ExprClasses
  BY DEF OuterClasses, ExprClasses, ConstantClasses, UnaryClasses, BinaryClasses
<1>2. Kind(n, "result") = "result" /\ Kind(n, "alloca") = "pointer"
  BY <1>1, Kinds DEF Pointers
<1>3. CASE n.names[1] \notin DOMAIN names
  <2>1. ASTVariableExpr(n, lv, names) = <<Known("result", ConstantInt)>>
    BY <1>3 DEF ASTVariableExpr
  <2>2. Fine(n, lv, names, Known("result", ConstantInt), {})
    BY <1>2, <1>3
       DEF Fine, Fair, Quiet, IsTarget, StepTyped, NeedsOnly, HasNeeds, Known, Holds, ConstantInt, IsFunctionName
  <2> QED
    BY <2>1, <2>2, GoodOne, StepDefines
<1>4. CASE n.names[1] \in DOMAIN names /\ lv
  <2>1. ASTVariableExpr(n, lv, names) = <<Known("result", names[n.names[1]])>>
    BY <1>4 DEF ASTVariableExpr
  <2>2. Fine(n, lv, names, Known("result", names[n.names[1]]), {})
    BY <1>2, <1>4
       DEF Fine, Fair, Quiet, IsTarget, StepTyped, NeedsOnly, HasNeeds, Known, Holds
  <2> QED
    BY <2>1, <2>2, GoodOne, StepDefines
<1>5. CASE n.names[1] \in DOMAIN names /\ ~lv
  <2>1. ASTVariableExpr(n, lv, names)
           = <<Known("alloca", names[n.names[1]]), Emit("result", "i64", [alloca |-> "ptr"])>>
    BY <1>5 DEF ASTVariableExpr
  <2>2. PICK a, e : a = Known("alloca", names[n.names[1]]) /\ e = Emit("result", "i64", [alloca |-> "ptr"])
    OBVIOUS
  <2>3. Fine(n, lv, names, a, {}) /\ Defines(a, "alloca")
    BY <1>2, <1>5, <2>2, StepDefines
       DEF Fine, Fair, Quiet, IsTarget, StepTyped, NeedsOnly, HasNeeds, Known, Holds
  <2>4. Fine(n, lv, names, e, {"alloca"}) /\ Defines(e, "result")
    BY <1>2, <1>5, <2>2, StepDefines
       DEF Fine, Fair, Quiet, IsTarget, StepTyped, NeedsOnly, HasNeeds, Emit, Holds, Gets
  <2>5. /\ Good(n, lv, names, {}, <<a>>) /\ Has(<<a>>, "alloca")
        /\ Good(n, lv, names, {"alloca"}, <<e>>) /\ Has(<<e>>, "result")
    BY <2>3, <2>4, GoodOne
  <2>6. PICK s, t : s = <<a>> /\ t = <<e>>
    OBVIOUS
  <2>7. \A y \in {"alloca"} : y \in {} \/ Has(s, y)
    BY <2>5, <2>6
  <2>8. Good(n, lv, names, {}, s \o t)
    BY <2>5, <2>6, <2>7, GoodConcat
  <2>9. Has(s \o t, "result")
    BY <2>5, <2>6, GoodList, HasConcat
  <2>10. ASTVariableExpr(n, lv, names) = s \o t
    BY <2>1, <2>2, <2>6
  <2> QED
    BY <2>8, <2>9, <2>10
<1> QED
  BY <1>3, <1>4, <1>5

(* A call: the arguments are locals of their own.                           *)
LEMMA CallTyped ==
    ASSUME NEW n, NEW lv, NEW names, n.cls = "ASTFunAppExpr", lv = FALSE,
           NEW m \in Nat, Len(n.kids) = m + 1, m <= Len(Actual),
           \A i \in 1 .. m + 1 : n.kids[i].cls \in ExprClasses
    PROVE  Good(n, lv, names, {}, ASTFunAppExpr(n)) /\ Has(ASTFunAppExpr(n), "result")
<1>1. n.cls \notin OuterClasses /\ n.cls \in ExprClasses
  BY DEF OuterClasses, ExprClasses, ConstantClasses, UnaryClasses, BinaryClasses
<1>2. /\ Kind(n, "result") = "result" /\ Kind(n, "gep") = "pointer" /\ Kind(n, "castFunPtr") = "pointer"
      /\ \A x : x \notin {"gep", "castFunPtr", "result"} => Kind(n, x) = "value"
  BY <1>1 DEF Kind
<1>3. PICK f, g, c : /\ f = Gen(1, "funVal") /\ g = Emit("gep", "ptr", [funVal |-> "i64"])
                     /\ c = Emit("castFunPtr", "ptr", [gep |-> "ptr"])
  OBVIOUS
<1>4. PICK s : s = <<f, g, c>>
  OBVIOUS
<1>5. DOMAIN s = 1 .. 3 /\ s = [i \in 1 .. 3 |-> s[i]] /\ s[1] = f /\ s[2] = g /\ s[3] = c
  BY <1>4
<1>6. Fine(n, lv, names, f, {}) /\ Defines(f, "funVal")
  <2>1. n.kids[1].cls \in ExprClasses
    OBVIOUS
  <2> QED
    BY <1>2, <1>3, <2>1, FineGens, StepDefines
<1>7. Fine(n, lv, names, g, {"funVal"}) /\ Defines(g, "gep")
  BY <1>2, <1>3, StepDefines
     DEF Fine, Fair, Quiet, IsTarget, StepTyped, NeedsOnly, HasNeeds, Emit, Holds, Gets
<1>8. Fine(n, lv, names, c, {"gep"}) /\ Defines(c, "castFunPtr")
  BY <1>2, <1>3, StepDefines
     DEF Fine, Fair, Quiet, IsTarget, StepTyped, NeedsOnly, HasNeeds, Emit, Holds, Gets
<1>9. Good(n, lv, names, {}, s)
  <2>1. IsList(s)
    BY <1>5, FunctionList
  <2>2. \A j \in DOMAIN s : StepTyped(n, s[j], lv, names) /\ Quiet(n, s[j])
    BY <1>5, <1>6, <1>7, <1>8 DEF Fine, Fair
  <2>3. Closed({}, s)
    BY <1>5, <1>6, <1>7, <1>8 DEF Fine, Fair, NeedsOnly, Closed
  <2> QED
    BY <2>1, <2>2, <2>3 DEF Good, Typed
<1>10. PICK a : a = [i \in 1..(Len(n.kids) - 1) |-> Gen(i + 1, Actual[i])]
  OBVIOUS
<1>11. DOMAIN a = 1 .. m /\ a = [i \in 1 .. m |-> a[i]] /\ \A i \in 1 .. m : a[i] = Gen(i + 1, Actual[i])
  BY <1>10
<1>12. \A i \in 1 .. m : Kind(n, Actual[i]) = "value" /\ Actual[i] \notin {"castFunPtr", "result"}
  <2>1. \A i \in 1 .. m : i \in DOMAIN Actual
    BY ActualAssumption
  <2> QED
    BY <1>2, <2>1, ActualAssumption
<1>13. \A i \in 1 .. m : Fine(n, lv, names, a[i], {}) /\ Defines(a[i], Actual[i])
  <2> SUFFICES ASSUME NEW i \in 1 .. m PROVE Fine(n, lv, names, a[i], {}) /\ Defines(a[i], Actual[i])
    OBVIOUS
  <2>1. n.kids[i + 1].cls \in ExprClasses
    OBVIOUS
  <2>2. Kind(n, Actual[i]) = "value" /\ a[i] = Gen(i + 1, Actual[i])
    BY <1>11, <1>12
  <2>3. Fine(n, lv, names, Gen(i + 1, Actual[i]), {})
    BY <2>1, <2>2, FineGens
  <2>4. Defines(Gen(i + 1, Actual[i]), Actual[i])
    BY StepDefines
  <2> QED
    BY <2>2, <2>3, <2>4
<1>14. Good(n, lv, names, {}, a)
  <2>1. IsList(a)
    BY <1>11, FunctionList
  <2> QED
    BY <1>11, <1>13, <2>1, GoodAll
<1>15. PICK Y, need, e :
          /\ Y = {"castFunPtr"} \cup {Actual[i] : i \in 1 .. m}
          /\ need = [x \in Y |-> IF x = "castFunPtr" THEN "ptr" ELSE "i64"]
          /\ e = Emit("result", "i64", need)
  OBVIOUS
<1>16. DOMAIN need = Y /\ \A x \in Y : Gets(n, x, need[x])
  <2>1. \A x \in Y : x = "castFunPtr" \/ (x # "castFunPtr" /\ Kind(n, x) = "value")
    BY <1>12, <1>15
  <2> QED
    BY <1>2, <1>15, <2>1 DEF Gets
<1>17. Fine(n, lv, names, e, Y) /\ Defines(e, "result")
  BY <1>2, <1>15, <1>16, StepDefines
     DEF Fine, Fair, Quiet, IsTarget, StepTyped, NeedsOnly, HasNeeds, Emit, Holds
<1>18. Good(n, lv, names, Y, <<e>>) /\ Has(<<e>>, "result")
  BY <1>17, GoodOne
<1>19. ASTFunAppExpr(n) = (s \o a) \o <<e>>
  <2>1. 1..(Len(n.kids) - 1) = 1 .. m
    OBVIOUS
  <2> QED
    BY <1>3, <1>4, <1>10, <1>15, <2>1 DEF ASTFunAppExpr
<1>20. Has(s, "castFunPtr") /\ \A i \in 1 .. m : Has(a, Actual[i])
  BY <1>5, <1>8, <1>11, <1>13 DEF Has
<1>21. PICK u, r : u = s \o a /\ r = <<e>>
  OBVIOUS
<1>22. Good(n, lv, names, {}, u)
  BY <1>9, <1>14, <1>21, GoodConcat
<1>23. \A y \in Y : y \in {} \/ Has(u, y)
  <2> SUFFICES ASSUME NEW y \in Y PROVE Has(s \o a, y)
    BY <1>21
  <2>1. Has(s, y) \/ Has(a, y)
    BY <1>15, <1>20
  <2> QED
    BY <1>9, <1>14, <2>1, GoodList, HasConcat
<1>24. Good(n, lv, names, {}, u \o r)
  BY <1>18, <1>21, <1>22, <1>23, GoodConcat
<1>25. Has(u \o r, "result")
  BY <1>18, <1>21, <1>22, GoodList, HasConcat
<1> QED
  BY <1>19, <1>21, <1>24, <1>25

LEMMA RecordTyped ==
    ASSUME NEW n, NEW lv, NEW names, NEW b, n.cls = "ASTRecordExpr", lv = FALSE,
           NEW m \in Nat, Len(n.kids) = m, \A i \in 1 .. m : n.kids[i].cls \in ExprClasses
    PROVE  Good(n, lv, names, {}, ASTRecordExpr(n, b)) /\ Has(ASTRecordExpr(n, b), "result")
<1>1. n.cls \notin OuterClasses \cup {"ASTFunAppExpr"} /\ n.cls \in ExprClasses
  BY DEF OuterClasses, ExprClasses, ConstantClasses, UnaryClasses, BinaryClasses
<1>2. /\ Kind(n, "calloc") = "pointer" /\ Kind(n, "record") = "pointer" /\ Kind(n, "gep") = "pointer"
      /\ Kind(n, "value") = "value" /\ Kind(n, "result") = "result"
  BY <1>1, Kinds DEF Pointers, Values
<1>3. PICK c, r, o : /\ c = Emit("calloc", "ptr", NoOperands) /\ r = Emit("record", "ptr", [calloc |-> "ptr"])
                     /\ o = Emit("record", "ptr", NoOperands)
  OBVIOUS
<1>4. /\ Fine(n, lv, names, c, {}) /\ Fine(n, lv, names, o, {})
      /\ Defines(c, "calloc") /\ Defines(r, "record") /\ Defines(o, "record")
  BY <1>2, <1>3, FineEmits, StepDefines DEF Makes
<1>5. Fine(n, lv, names, r, {"calloc"})
  BY <1>2, <1>3 DEF Fine, Fair, Quiet, IsTarget, StepTyped, NeedsOnly, HasNeeds, Emit, Holds, Gets
<1>6. PICK s : s = IF b THEN <<c, r>> ELSE <<o>>
  OBVIOUS
<1>7. Good(n, lv, names, {}, s) /\ Has(s, "record")
  <2>1. PICK p : p = <<c, r>>
    OBVIOUS
  <2>2. DOMAIN p = 1 .. 2 /\ p = [i \in 1 .. 2 |-> p[i]] /\ p[1] = c /\ p[2] = r
    BY <2>1
  <2>3. IsList(p)
    BY <2>2, FunctionList
  <2>4. \A j \in DOMAIN p : StepTyped(n, p[j], lv, names) /\ Quiet(n, p[j])
    BY <1>4, <1>5, <2>2 DEF Fine, Fair
  <2>5. Closed({}, p)
    BY <1>4, <1>5, <2>2 DEF Fine, Fair, NeedsOnly, Closed
  <2>6. Good(n, lv, names, {}, p) /\ Has(p, "record")
    BY <1>4, <2>2, <2>3, <2>4, <2>5 DEF Good, Typed, Has
  <2>7. Good(n, lv, names, {}, <<o>>) /\ Has(<<o>>, "record")
    BY <1>4, GoodOne
  <2>8. s = p \/ s = <<o>>
    BY <1>6, <2>1
  <2> QED
    BY <2>6, <2>7, <2>8
<1>8. PICK ss : ss = [i \in 1..Len(n.kids) |->
                        <<Emit("gep", "ptr", [record |-> "ptr"]), Gen(i, "value"), Store("value", "gep")>>]
  OBVIOUS
<1>9. IsList(ss) /\ DOMAIN ss = 1 .. m
  <2>1. DOMAIN ss = 1 .. m /\ ss = [i \in 1 .. m |-> ss[i]]
    BY <1>8
  <2> QED
    BY <2>1, FunctionList
<1>10. \A i \in 1 .. m : /\ ss[i][1] = Emit("gep", "ptr", [record |-> "ptr"]) /\ ss[i][2] = Gen(i, "value")
                         /\ ss[i][3] = Store("value", "gep")
  BY <1>8
<1>11. /\ Fine(n, lv, names, Emit("gep", "ptr", [record |-> "ptr"]), {"record"})
       /\ Defines(Emit("gep", "ptr", [record |-> "ptr"]), "gep")
  BY <1>2, StepDefines
     DEF Fine, Fair, Quiet, IsTarget, StepTyped, NeedsOnly, HasNeeds, Emit, Holds, Gets
<1>12. ASSUME NEW i \in 1 .. m
       PROVE  /\ Fine(n, lv, names, Gen(i, "value"), {"record"}) /\ Defines(Gen(i, "value"), "value")
  <2>1. Fine(n, lv, names, Gen(i, "value"), {})
    BY <1>2, FineGens
  <2> QED
    BY <2>1, StepDefines DEF Fine, Fair, NeedsOnly
<1>13. Fine(n, lv, names, Store("value", "gep"), {"value", "gep"}) /\ {"value", "gep"} = {"gep", "value"}
  BY <1>2, FineSteps
<1>14. Good(n, lv, names, {"record"}, Threes(ss))
  <2>1. \A i \in DOMAIN ss :
           /\ Fine(n, lv, names, ss[i][1], {"record"}) /\ Fine(n, lv, names, ss[i][2], {"record"})
           /\ Fine(n, lv, names, ss[i][3], {"gep", "value"})
           /\ Defines(ss[i][1], "gep") /\ Defines(ss[i][2], "value")
    BY <1>9, <1>10, <1>11, <1>12, <1>13
  <2> QED
    BY <1>9, <2>1, GoodThrees
<1>15. PICK e : e = Emit("result", "i64", [record |-> "ptr"])
  OBVIOUS
<1>16. Good(n, lv, names, {"record"}, <<e>>) /\ Has(<<e>>, "result")
  <2>1. Fine(n, lv, names, e, {"record"}) /\ Defines(e, "result")
    BY <1>2, <1>15, StepDefines
       DEF Fine, Fair, Quiet, IsTarget, StepTyped, NeedsOnly, HasNeeds, Emit, Holds, Gets
  <2> QED
    BY <2>1, GoodOne
<1>17. PICK w, z : w = Threes(ss) /\ z = <<e>>
  OBVIOUS
<1>18. \A y \in {"record"} : y \in {} \/ Has(s, y)
  BY <1>7
<1>19. Good(n, lv, names, {}, s \o w)
  BY <1>7, <1>14, <1>17, <1>18, GoodConcat
<1>20. Has(s \o w, "record")
  BY <1>7, <1>14, <1>17, GoodList, HasConcat
<1>21. \A y \in {"record"} : y \in {} \/ Has(s \o w, y)
  BY <1>20
<1>22. PICK u : u = s \o w
  OBVIOUS
<1>23. Good(n, lv, names, {}, u \o z)
  BY <1>16, <1>17, <1>19, <1>21, <1>22, GoodConcat
<1>24. Has(u \o z, "result")
  BY <1>16, <1>17, <1>19, <1>22, GoodList, HasConcat
<1>25. ASTRecordExpr(n, b) = (s \o w) \o z
  BY <1>3, <1>6, <1>8, <1>15, <1>17 DEF ASTRecordExpr
<1> QED
  BY <1>22, <1>23, <1>24, <1>25

LEMMA ArrayTyped ==
    ASSUME NEW n, NEW lv, NEW names, n.cls = "ASTArrayExpr", lv = FALSE,
           NEW m \in Nat, Len(n.kids) = m, \A i \in 1 .. m : n.kids[i].cls \in ExprClasses
    PROVE  Good(n, lv, names, {}, ASTArrayExpr(n)) /\ Has(ASTArrayExpr(n), "result")
<1>1. n.cls \notin OuterClasses \cup {"ASTFunAppExpr"} /\ n.cls \in ExprClasses
  BY DEF OuterClasses, ExprClasses, ConstantClasses, UnaryClasses, BinaryClasses
<1>2. /\ Kind(n, "castPtr") = "pointer" /\ Kind(n, "storePtr") = "pointer"
      /\ Kind(n, "entryCount") = "word" /\ Kind(n, "entry") = "value" /\ Kind(n, "result") = "result"
  BY <1>1, Kinds DEF Pointers, Words, Values
<1>3. PICK c, k, f : /\ c = Emit("castPtr", "ptr", NoOperands) /\ k = Known("entryCount", ConstantInt)
                     /\ f = Store("entryCount", "castPtr")
  OBVIOUS
<1>4. /\ Fine(n, lv, names, c, {}) /\ Fine(n, lv, names, k, {})
      /\ Defines(c, "castPtr") /\ Defines(k, "entryCount")
  <2>1. Fine(n, lv, names, c, {})
    BY <1>2, <1>3, FineEmits DEF Makes
  <2>2. Fine(n, lv, names, k, {})
    BY <1>2, <1>3, FineSteps
  <2> QED
    BY <1>3, <2>1, <2>2, StepDefines
<1>5. Fine(n, lv, names, f, {"entryCount", "castPtr"})
  BY <1>2, <1>3, FineSteps
<1>6. PICK s : s = <<c, k, f>>
  OBVIOUS
<1>7. DOMAIN s = 1 .. 3 /\ s = [i \in 1 .. 3 |-> s[i]] /\ s[1] = c /\ s[2] = k /\ s[3] = f
  BY <1>6
<1>8. Good(n, lv, names, {}, s) /\ Has(s, "castPtr")
  <2>1. IsList(s)
    BY <1>7, FunctionList
  <2>2. \A j \in DOMAIN s : StepTyped(n, s[j], lv, names) /\ Quiet(n, s[j])
    BY <1>4, <1>5, <1>7 DEF Fine, Fair
  <2>3. Closed({}, s)
    BY <1>4, <1>5, <1>7 DEF Fine, Fair, NeedsOnly, Closed
  <2> QED
    BY <1>4, <1>7, <2>1, <2>2, <2>3 DEF Good, Typed, Has
<1>9. PICK ss : ss = [i \in 1..Len(n.kids) |->
                        <<Gen(i, "entry"), Emit("storePtr", "ptr", [castPtr |-> "ptr"]),
                          Store("entry", "storePtr")>>]
  OBVIOUS
<1>10. IsList(ss) /\ DOMAIN ss = 1 .. m
  <2>1. DOMAIN ss = 1 .. m /\ ss = [i \in 1 .. m |-> ss[i]]
    BY <1>9
  <2> QED
    BY <2>1, FunctionList
<1>11. \A i \in 1 .. m : /\ ss[i][1] = Gen(i, "entry") /\ ss[i][2] = Emit("storePtr", "ptr", [castPtr |-> "ptr"])
                         /\ ss[i][3] = Store("entry", "storePtr")
  BY <1>9
<1>12. /\ Fine(n, lv, names, Emit("storePtr", "ptr", [castPtr |-> "ptr"]), {"castPtr"})
       /\ Defines(Emit("storePtr", "ptr", [castPtr |-> "ptr"]), "storePtr")
  BY <1>2, StepDefines
     DEF Fine, Fair, Quiet, IsTarget, StepTyped, NeedsOnly, HasNeeds, Emit, Holds, Gets
<1>13. ASSUME NEW i \in 1 .. m
       PROVE  /\ Fine(n, lv, names, Gen(i, "entry"), {"castPtr"}) /\ Defines(Gen(i, "entry"), "entry")
  <2>1. Fine(n, lv, names, Gen(i, "entry"), {})
    BY <1>2, FineGens
  <2> QED
    BY <2>1, StepDefines DEF Fine, Fair, NeedsOnly
<1>14. Fine(n, lv, names, Store("entry", "storePtr"), {"entry", "storePtr"})
  BY <1>2, FineSteps
<1>15. Good(n, lv, names, {"castPtr"}, Threes(ss))
  <2>1. \A i \in DOMAIN ss :
           /\ Fine(n, lv, names, ss[i][1], {"castPtr"}) /\ Fine(n, lv, names, ss[i][2], {"castPtr"})
           /\ Fine(n, lv, names, ss[i][3], {"entry", "storePtr"})
           /\ Defines(ss[i][1], "entry") /\ Defines(ss[i][2], "storePtr")
    BY <1>10, <1>11, <1>12, <1>13, <1>14
  <2> QED
    BY <1>10, <2>1, GoodThrees
<1>16. PICK e : e = Emit("result", "i64", [castPtr |-> "ptr"])
  OBVIOUS
<1>17. Good(n, lv, names, {"castPtr"}, <<e>>) /\ Has(<<e>>, "result")
  <2>1. Fine(n, lv, names, e, {"castPtr"}) /\ Defines(e, "result")
    BY <1>2, <1>16, StepDefines
       DEF Fine, Fair, Quiet, IsTarget, StepTyped, NeedsOnly, HasNeeds, Emit, Holds, Gets
  <2> QED
    BY <2>1, GoodOne
<1>18. PICK w, z : w = Threes(ss) /\ z = <<e>>
  OBVIOUS
<1>19. \A y \in {"castPtr"} : y \in {} \/ Has(s, y)
  BY <1>8
<1>20. Good(n, lv, names, {}, s \o w)
  BY <1>8, <1>15, <1>18, <1>19, GoodConcat
<1>21. Has(s \o w, "castPtr")
  BY <1>8, <1>15, <1>18, GoodList, HasConcat
<1>22. \A y \in {"castPtr"} : y \in {} \/ Has(s \o w, y)
  BY <1>21
<1>23. PICK u : u = s \o w
  OBVIOUS
<1>24. Good(n, lv, names, {}, u \o z)
  BY <1>17, <1>18, <1>20, <1>22, <1>23, GoodConcat
<1>25. Has(u \o z, "result")
  BY <1>17, <1>18, <1>20, <1>23, GoodList, HasConcat
<1>26. ASTArrayExpr(n) = (s \o w) \o z
  BY <1>3, <1>6, <1>9, <1>16, <1>18 DEF ASTArrayExpr
<1> QED
  BY <1>23, <1>24, <1>25, <1>26

(* The codegen()s that reset the flag, if it is set, before anything else.   *)
ResetsFirst(s) == s # << >> /\ s[1] = lValueFlag(FALSE)

LEMMA PrefixTyped ==
    ASSUME NEW n, NEW lv \in BOOLEAN, NEW names, NEW s, NEW call,
           Good(n, lv, names, {}, s), Has(s, "result"),
           call = (IF lv THEN <<lValueFlag(FALSE)>> ELSE << >>) \o s
    PROVE  Good(n, lv, names, {}, call) /\ Has(call, "result") /\ (lv => ResetsFirst(call))
<1>1. PICK p : p = IF lv THEN <<lValueFlag(FALSE)>> ELSE << >>
  OBVIOUS
<1>2. Good(n, lv, names, {}, p)
  <2>1. Fine(n, lv, names, lValueFlag(FALSE), {})
    BY FineMoves
  <2>2. Good(n, lv, names, {}, <<lValueFlag(FALSE)>>) /\ Good(n, lv, names, {}, << >>)
    BY <2>1, GoodOne, GoodEmpty
  <2> QED
    BY <1>1, <2>2
<1>3. Good(n, lv, names, {}, p \o s)
  BY <1>2, GoodConcat
<1>4. Has(p \o s, "result")
  BY <1>2, GoodList, HasConcat
<1>5. ASSUME lv PROVE ResetsFirst(p \o s)
  <2>1. Len(p) = 1 /\ p[1] = lValueFlag(FALSE)
    BY <1>1, <1>5
  <2>2. PICK u, l : u = p \o s /\ l = Len(s)
    OBVIOUS
  <2>3. /\ IsList(u) /\ Len(u) = Len(p) + l /\ l \in Nat
        /\ \A i \in 1 .. Len(p) : u[i] = p[i]
    BY <1>2, <2>2, GoodList, ConcatList, ListFacts
  <2>4. Len(u) = 1 + l /\ u[1] = lValueFlag(FALSE)
    <3>1. \A i \in 1 .. 1 : u[i] = p[i]
      BY <2>1, <2>3
    <3>2. u[1] = p[1]
      BY <3>1
    <3> QED
      BY <2>1, <2>3, <3>2
  <2>5. u # << >>
    BY <2>3, <2>4
  <2> QED
    BY <2>2, <2>4, <2>5 DEF ResetsFirst
<1> QED
  BY <1>1, <1>3, <1>4, <1>5

LEMMA DeRefTyped ==
    ASSUME NEW n, NEW lv, NEW names,
           n.cls = "ASTDeRefExpr", lv \in BOOLEAN, n.kids[1].cls \in ExprClasses
    PROVE  LET s == ASTDeRefExpr(lv)
           IN  Good(n, lv, names, {}, s) /\ Has(s, "result") /\ (lv => ResetsFirst(s))
<1>e. PICK e : e = IF lv THEN Emit("result", "ptr", [address |-> "ptr"])
                  ELSE Emit("result", "i64", [address |-> "ptr"])
  OBVIOUS
<1>0. PICK s : s = <<Gen(1, "argVal"), Emit("address", "ptr", [argVal |-> "i64"]), e>>
  OBVIOUS
<1>1. n.cls \notin OuterClasses \cup {"ASTFunAppExpr"} /\ n.cls \in ExprClasses
  BY DEF OuterClasses, ExprClasses, ConstantClasses, UnaryClasses, BinaryClasses
<1>2. /\ Kind(n, "argVal") = "value" /\ Kind(n, "address") = "pointer"
      /\ Kind(n, "result") = "result"
  BY <1>1, Kinds DEF Pointers, Values
<1>3. DOMAIN s = 1 .. 3 /\ s = [i \in 1 .. 3 |-> s[i]]
  BY <1>0
<1>4. /\ s[1] = Gen(1, "argVal") /\ s[2] = Emit("address", "ptr", [argVal |-> "i64"]) /\ s[3] = e
  BY <1>0
<1>5. Fine(n, lv, names, Gen(1, "argVal"), {})
  BY <1>2, FineGens
<1>6. Fine(n, lv, names, Emit("address", "ptr", [argVal |-> "i64"]), {"argVal"})
  BY <1>1, <1>2
     DEF Fine, Fair, Quiet, IsTarget, NeedsOnly, StepTyped, Holds, Gets, HasNeeds, Emit
<1>7. Fine(n, lv, names, e, {"address"})
  BY <1>e, <1>1, <1>2
     DEF Fine, Fair, Quiet, IsTarget, NeedsOnly, StepTyped, Holds, Gets, HasNeeds, Emit
<1>8. /\ Fine(n, lv, names, s[1], {}) /\ Fine(n, lv, names, s[2], {"argVal"})
      /\ Fine(n, lv, names, s[3], {"address"})
  BY <1>4, <1>5, <1>6, <1>7
<1>9. /\ Defines(s[1], "argVal") /\ Defines(s[2], "address") /\ Defines(s[3], "result")
  BY <1>4, <1>e, StepDefines
<1>10. \A j \in 1 .. 3 : StepTyped(n, s[j], lv, names) /\ Quiet(n, s[j])
  BY <1>8 DEF Fine, Fair
<1>11. Closed({}, s)
  <2> SUFFICES ASSUME NEW j \in 1 .. 3, HasNeeds(s[j]), NEW x \in DOMAIN s[j].need
               PROVE  \E k \in 1 .. j - 1 : Defines(s[k], x)
    BY <1>3 DEF Closed
  <2> QED
    BY <1>8, <1>9 DEF Fine, Fair, NeedsOnly
<1>12. Has(s, "result")
  BY <1>3, <1>9 DEF Has
<1>13. Good(n, lv, names, {}, s)
  BY <1>3, <1>10, <1>11, FunctionList DEF Good, Typed
<1>14. ASTDeRefExpr(lv) = (IF lv THEN <<lValueFlag(FALSE)>> ELSE << >>) \o s
  BY <1>0, <1>e DEF ASTDeRefExpr
<1> QED
  BY <1>13, <1>12, <1>14, PrefixTyped

LEMMA AccessTyped ==
    ASSUME NEW n, NEW lv, NEW names,
           n.cls = "ASTAccessExpr", lv \in BOOLEAN, n.kids[1].cls \in ExprClasses
    PROVE  LET s == ASTAccessExpr(lv)
           IN  Good(n, lv, names, {}, s) /\ Has(s, "result") /\ (lv => ResetsFirst(s))
<1>e. PICK e : e = IF lv THEN Emit("result", "ptr", [recordAddress |-> "ptr"])
                  ELSE Emit("result", "i64", [recordAddress |-> "ptr"])
  OBVIOUS
<1>0. PICK s : s = <<Gen(1, "recordVal"), Emit("recordAddress", "ptr", [recordVal |-> "i64"]), e>>
  OBVIOUS
<1>1. n.cls \notin OuterClasses \cup {"ASTFunAppExpr"} /\ n.cls \in ExprClasses
  BY DEF OuterClasses, ExprClasses, ConstantClasses, UnaryClasses, BinaryClasses
<1>2. /\ Kind(n, "recordVal") = "value" /\ Kind(n, "recordAddress") = "pointer"
      /\ Kind(n, "result") = "result"
  BY <1>1, Kinds DEF Pointers, Values
<1>3. DOMAIN s = 1 .. 3 /\ s = [i \in 1 .. 3 |-> s[i]]
  BY <1>0
<1>4. /\ s[1] = Gen(1, "recordVal") /\ s[2] = Emit("recordAddress", "ptr", [recordVal |-> "i64"])
      /\ s[3] = e
  BY <1>0
<1>5. Fine(n, lv, names, Gen(1, "recordVal"), {})
  BY <1>2, FineGens
<1>6. Fine(n, lv, names, Emit("recordAddress", "ptr", [recordVal |-> "i64"]), {"recordVal"})
  BY <1>1, <1>2
     DEF Fine, Fair, Quiet, IsTarget, NeedsOnly, StepTyped, Holds, Gets, HasNeeds, Emit
<1>7. Fine(n, lv, names, e, {"recordAddress"})
  BY <1>e, <1>1, <1>2
     DEF Fine, Fair, Quiet, IsTarget, NeedsOnly, StepTyped, Holds, Gets, HasNeeds, Emit
<1>8. /\ Fine(n, lv, names, s[1], {}) /\ Fine(n, lv, names, s[2], {"recordVal"})
      /\ Fine(n, lv, names, s[3], {"recordAddress"})
  BY <1>4, <1>5, <1>6, <1>7
<1>9. /\ Defines(s[1], "recordVal") /\ Defines(s[2], "recordAddress") /\ Defines(s[3], "result")
  BY <1>4, <1>e, StepDefines
<1>10. \A j \in 1 .. 3 : StepTyped(n, s[j], lv, names) /\ Quiet(n, s[j])
  BY <1>8 DEF Fine, Fair
<1>11. Closed({}, s)
  <2> SUFFICES ASSUME NEW j \in 1 .. 3, HasNeeds(s[j]), NEW x \in DOMAIN s[j].need
               PROVE  \E k \in 1 .. j - 1 : Defines(s[k], x)
    BY <1>3 DEF Closed
  <2> QED
    BY <1>8, <1>9 DEF Fine, Fair, NeedsOnly
<1>12. Has(s, "result")
  BY <1>3, <1>9 DEF Has
<1>13. Good(n, lv, names, {}, s)
  BY <1>3, <1>10, <1>11, FunctionList DEF Good, Typed
<1>14. ASTAccessExpr(lv) = (IF lv THEN <<lValueFlag(FALSE)>> ELSE << >>) \o s
  BY <1>0, <1>e DEF ASTAccessExpr
<1> QED
  BY <1>13, <1>12, <1>14, PrefixTyped

LEMMA ElementTyped ==
    ASSUME NEW n, NEW lv, NEW names,
           n.cls = "ASTElementRefrenceOperatorExpr", lv \in BOOLEAN, n.kids[1].cls \in ExprClasses,
           n.kids[2].cls \in ExprClasses
    PROVE  LET s == ASTElementRefrenceOperatorExpr(lv)
           IN  Good(n, lv, names, {}, s) /\ Has(s, "result") /\ (lv => ResetsFirst(s))
<1>e. PICK e : e = IF lv THEN Emit("result", "ptr", [arrayPtr |-> "ptr", offset |-> "i64"])
                  ELSE Emit("result", "i64", [theArrayElement |-> "ptr"])
  OBVIOUS
<1>0. PICK s : s = <<Gen(1, "array"), Emit("arrayPtr", "ptr", [array |-> "i64"]), Gen(2, "index"),
                    Emit("offset", "i64", [index |-> "i64"]),
                    Emit("length", "i64", [arrayPtr |-> "ptr"]),
                    Emit("cond", "i1", [index |-> "i64", length |-> "i64"]),
                    Emit("theArrayElement", "ptr", NoOperands),
                    Blocks("then", {"else", "ifmerge"}), CondBranch("cond", "then", "else"),
                    At("then"), Emit("error", "void", [index |-> "i64"]), Branch("ifmerge"),
                    Place("else"), At("else"),
                    Emit("loadPtr", "ptr", [arrayPtr |-> "ptr", offset |-> "i64"]),
                    Emit("value", "i64", [loadPtr |-> "ptr"]), Store("value", "theArrayElement"),
                    Branch("ifmerge"), Place("ifmerge"), At("ifmerge"), e>>
  OBVIOUS
<1>1. n.cls \notin OuterClasses \cup {"ASTFunAppExpr"} /\ n.cls \in ExprClasses
  BY DEF OuterClasses, ExprClasses, ConstantClasses, UnaryClasses, BinaryClasses
<1>2. /\ Kind(n, "array") = "value" /\ Kind(n, "arrayPtr") = "pointer" /\ Kind(n, "index") = "value"
      /\ Kind(n, "offset") = "word" /\ Kind(n, "length") = "word" /\ Kind(n, "cond") = "bit"
      /\ Kind(n, "theArrayElement") = "pointer" /\ Kind(n, "error") = "none"
      /\ Kind(n, "loadPtr") = "pointer" /\ Kind(n, "value") = "value"
      /\ Kind(n, "result") = "result"
  BY <1>1, Kinds DEF Bits, Pointers, Values, Words
<1>3. DOMAIN s = 1 .. 21 /\ s = [i \in 1 .. 21 |-> s[i]]
  BY <1>0
<1>4. /\ s[1] = Gen(1, "array") /\ s[2] = Emit("arrayPtr", "ptr", [array |-> "i64"])
      /\ s[3] = Gen(2, "index") /\ s[4] = Emit("offset", "i64", [index |-> "i64"])
      /\ s[5] = Emit("length", "i64", [arrayPtr |-> "ptr"])
      /\ s[6] = Emit("cond", "i1", [index |-> "i64", length |-> "i64"])
      /\ s[7] = Emit("theArrayElement", "ptr", NoOperands)
      /\ s[8] = Blocks("then", {"else", "ifmerge"}) /\ s[9] = CondBranch("cond", "then", "else")
      /\ s[10] = At("then") /\ s[11] = Emit("error", "void", [index |-> "i64"])
      /\ s[12] = Branch("ifmerge") /\ s[13] = Place("else") /\ s[14] = At("else")
      /\ s[15] = Emit("loadPtr", "ptr", [arrayPtr |-> "ptr", offset |-> "i64"])
      /\ s[16] = Emit("value", "i64", [loadPtr |-> "ptr"])
      /\ s[17] = Store("value", "theArrayElement") /\ s[18] = Branch("ifmerge")
      /\ s[19] = Place("ifmerge") /\ s[20] = At("ifmerge") /\ s[21] = e
  BY <1>0
<1>5. /\ Fine(n, lv, names, Blocks("then", {"else", "ifmerge"}), {})
      /\ Fine(n, lv, names, At("then"), {}) /\ Fine(n, lv, names, Branch("ifmerge"), {})
      /\ Fine(n, lv, names, Place("else"), {}) /\ Fine(n, lv, names, At("else"), {})
      /\ Fine(n, lv, names, Place("ifmerge"), {}) /\ Fine(n, lv, names, At("ifmerge"), {})
  BY FineMoves
<1>6. /\ Fine(n, lv, names, Gen(1, "array"), {}) /\ Fine(n, lv, names, Gen(2, "index"), {})
  BY <1>2, FineGens
<1>7. /\ Fine(n, lv, names, CondBranch("cond", "then", "else"), {"cond"})
      /\ Fine(n, lv, names, Store("value", "theArrayElement"), {"value", "theArrayElement"})
  BY <1>2, FineSteps
<1>8. Fine(n, lv, names, Emit("theArrayElement", "ptr", NoOperands), {})
  BY <1>1, <1>2, FineEmits DEF Makes
<1>9. /\ Fine(n, lv, names, Emit("arrayPtr", "ptr", [array |-> "i64"]), {"array"})
      /\ Fine(n, lv, names, Emit("offset", "i64", [index |-> "i64"]), {"index"})
      /\ Fine(n, lv, names, Emit("length", "i64", [arrayPtr |-> "ptr"]), {"arrayPtr"})
      /\ Fine(n, lv, names, Emit("cond", "i1", [index |-> "i64", length |-> "i64"]), {"index", "length"})
  BY <1>1, <1>2
     DEF Fine, Fair, Quiet, IsTarget, NeedsOnly, StepTyped, Holds, Gets, HasNeeds, Emit
<1>10. /\ Fine(n, lv, names, Emit("error", "void", [index |-> "i64"]), {"index"})
      /\ Fine(n, lv, names, Emit("loadPtr", "ptr", [arrayPtr |-> "ptr", offset |-> "i64"]), {"arrayPtr", "offset"})
      /\ Fine(n, lv, names, Emit("value", "i64", [loadPtr |-> "ptr"]), {"loadPtr"})
  BY <1>1, <1>2
     DEF Fine, Fair, Quiet, IsTarget, NeedsOnly, StepTyped, Holds, Gets, HasNeeds, Emit
<1>11. Fine(n, lv, names, e, {"arrayPtr", "offset", "theArrayElement"})
  BY <1>e, <1>1, <1>2
     DEF Fine, Fair, Quiet, IsTarget, NeedsOnly, StepTyped, Holds, Gets, HasNeeds, Emit
<1>12. /\ Fine(n, lv, names, s[1], {}) /\ Fine(n, lv, names, s[2], {"array"})
      /\ Fine(n, lv, names, s[3], {}) /\ Fine(n, lv, names, s[4], {"index"})
      /\ Fine(n, lv, names, s[5], {"arrayPtr"}) /\ Fine(n, lv, names, s[6], {"index", "length"})
      /\ Fine(n, lv, names, s[7], {}) /\ Fine(n, lv, names, s[8], {})
      /\ Fine(n, lv, names, s[9], {"cond"}) /\ Fine(n, lv, names, s[10], {})
      /\ Fine(n, lv, names, s[11], {"index"}) /\ Fine(n, lv, names, s[12], {})
      /\ Fine(n, lv, names, s[13], {}) /\ Fine(n, lv, names, s[14], {})
  BY <1>4, <1>5, <1>6, <1>7, <1>8, <1>9, <1>10, <1>11
<1>13. /\ Fine(n, lv, names, s[15], {"arrayPtr", "offset"})
      /\ Fine(n, lv, names, s[16], {"loadPtr"})
      /\ Fine(n, lv, names, s[17], {"value", "theArrayElement"}) /\ Fine(n, lv, names, s[18], {})
      /\ Fine(n, lv, names, s[19], {}) /\ Fine(n, lv, names, s[20], {})
      /\ Fine(n, lv, names, s[21], {"arrayPtr", "offset", "theArrayElement"})
  BY <1>4, <1>5, <1>6, <1>7, <1>8, <1>9, <1>10, <1>11
<1>14. /\ Defines(s[1], "array") /\ Defines(s[2], "arrayPtr") /\ Defines(s[3], "index")
      /\ Defines(s[4], "offset") /\ Defines(s[5], "length") /\ Defines(s[6], "cond")
      /\ Defines(s[7], "theArrayElement") /\ Defines(s[15], "loadPtr") /\ Defines(s[16], "value")
      /\ Defines(s[21], "result")
  BY <1>4, <1>e, StepDefines
<1>15. \A j \in 1 .. 21 : StepTyped(n, s[j], lv, names) /\ Quiet(n, s[j])
  BY <1>12, <1>13 DEF Fine, Fair
<1>16. Closed({}, s)
  <2> SUFFICES ASSUME NEW j \in 1 .. 21, HasNeeds(s[j]), NEW x \in DOMAIN s[j].need
               PROVE  \E k \in 1 .. j - 1 : Defines(s[k], x)
    BY <1>3 DEF Closed
  <2> QED
    BY <1>12, <1>13, <1>14 DEF Fine, Fair, NeedsOnly
<1>17. Has(s, "result")
  BY <1>3, <1>14 DEF Has
<1>18. Good(n, lv, names, {}, s)
  BY <1>3, <1>15, <1>16, FunctionList DEF Good, Typed
<1>19. ASTElementRefrenceOperatorExpr(lv) = (IF lv THEN <<lValueFlag(FALSE)>> ELSE << >>) \o s
  BY <1>0, <1>e DEF ASTElementRefrenceOperatorExpr
<1> QED
  BY <1>18, <1>17, <1>19, PrefixTyped

-----------------------------------------------------------------------------
(* What the grammar and the weeding pass say of the children of a node.     *)
Exprs(n, k) == \A i \in 1 .. k : n.kids[i].cls \in ExprClasses
AddressOfClasses ==
    {"ASTRefExpr", "ASTAssignStmt", "ASTIncrementStmt", "ASTDecrementStmt", "ASTForIterStmt",
     "ASTForRangeStmt"}

LEMMA ExprSort == ASSUME NEW e \in Nodes, Sort(e) = "expr" PROVE e.cls \in ExprClasses
<1>1. Grammatical(e)
  BY NodeFacts
<1>2. e.cls # "expr"
  BY <1>1 DEF Grammatical, ConstantClasses, UnaryClasses, UpdateClasses, BinaryClasses
<1> QED
  BY <1>2 DEF Sort

LEMMA ExprKids ==
    ASSUME NEW n \in Nodes
    PROVE  /\ n.cls \in UnaryClasses \cup UpdateClasses \cup {"ASTReturnStmt", "ASTWhileStmt", "ASTIfStmt"}
                => Exprs(n, 1)
           /\ n.cls \in BinaryClasses \cup {"ASTAssignStmt", "ASTForIterStmt"} => Exprs(n, 2)
           /\ n.cls \in {"ASTTernaryExpr", "ASTForRangeStmt"} => Exprs(n, 3)
           /\ n.cls = "ASTForRangeStmt" /\ Len(n.kids) = 5 => Exprs(n, 4)
           /\ n.cls \in {"ASTFunAppExpr", "ASTRecordExpr", "ASTArrayExpr"} => Exprs(n, Len(n.kids))
<1>1. /\ Len(n.kids) \in Nat /\ DOMAIN n.kids = 1 .. Len(n.kids) /\ DOMAIN Sorts(n) = 1 .. Len(n.kids)
      /\ \A i \in 1 .. Len(n.kids) : n.kids[i] \in Nodes
      /\ Grammatical(n)
  BY NodeFacts DEF Sorts
<1>2. ASSUME NEW i \in DOMAIN Sorts(n), Sorts(n)[i] = "expr" PROVE n.kids[i].cls \in ExprClasses
  <2>1. n.kids[i] \in Nodes /\ Sort(n.kids[i]) = "expr"
    BY <1>1, <1>2 DEF Sorts
  <2> QED
    BY <2>1, ExprSort
<1>3. ASSUME n.cls \in UnaryClasses \cup UpdateClasses \cup {"ASTReturnStmt", "ASTWhileStmt", "ASTIfStmt"}
      PROVE  Exprs(n, 1)
  <2>1. \/ Sorts(n) = <<"expr">> \/ Sorts(n) = <<"expr", "statement">>
        \/ Sorts(n) = <<"expr", "statement", "statement">>
    BY <1>1, <1>3 DEF Grammatical, ConstantClasses, UnaryClasses, UpdateClasses, BinaryClasses
  <2>2. 1 \in DOMAIN Sorts(n) /\ Sorts(n)[1] = "expr"
    BY <2>1
  <2> QED
    BY <1>2, <2>2 DEF Exprs
<1>4. ASSUME n.cls \in BinaryClasses \cup {"ASTAssignStmt", "ASTForIterStmt"} PROVE Exprs(n, 2)
  <2>1. Sorts(n) = <<"expr", "expr">> \/ Sorts(n) = <<"expr", "expr", "statement">>
    BY <1>1, <1>4 DEF Grammatical, ConstantClasses, UnaryClasses, UpdateClasses, BinaryClasses
  <2>2. \A i \in 1 .. 2 : i \in DOMAIN Sorts(n) /\ Sorts(n)[i] = "expr"
    BY <2>1
  <2> QED
    BY <1>2, <2>2 DEF Exprs
<1>5. ASSUME n.cls \in {"ASTTernaryExpr", "ASTForRangeStmt"} PROVE Exprs(n, 3)
  <2>1. \/ Sorts(n) = <<"expr", "expr", "expr">>
        \/ Sorts(n) = <<"expr", "expr", "expr", "statement">>
        \/ Sorts(n) = <<"expr", "expr", "expr", "expr", "statement">>
    BY <1>1, <1>5 DEF Grammatical, ConstantClasses, UnaryClasses, UpdateClasses, BinaryClasses
  <2>2. \A i \in 1 .. 3 : i \in DOMAIN Sorts(n) /\ Sorts(n)[i] = "expr"
    BY <2>1
  <2> QED
    BY <1>2, <2>2 DEF Exprs
<1>6. ASSUME n.cls = "ASTForRangeStmt", Len(n.kids) = 5 PROVE Exprs(n, 4)
  <2>1. \/ Sorts(n) = <<"expr", "expr", "expr", "statement">>
        \/ Sorts(n) = <<"expr", "expr", "expr", "expr", "statement">>
    BY <1>1, <1>6 DEF Grammatical, ConstantClasses, UnaryClasses, UpdateClasses, BinaryClasses
  <2>2. 5 \in DOMAIN Sorts(n)
    BY <1>1, <1>6
  <2>3. Sorts(n) = <<"expr", "expr", "expr", "expr", "statement">>
    BY <2>1, <2>2
  <2>4. \A i \in 1 .. 4 : i \in DOMAIN Sorts(n) /\ Sorts(n)[i] = "expr"
    BY <2>3
  <2> QED
    BY <1>2, <2>4 DEF Exprs
<1>7. ASSUME n.cls \in {"ASTFunAppExpr", "ASTRecordExpr", "ASTArrayExpr"} PROVE Exprs(n, Len(n.kids))
  <2>1. AllOf(n, {"expr"})
    BY <1>1, <1>7 DEF Grammatical, ConstantClasses, UnaryClasses, UpdateClasses, BinaryClasses
  <2>2. \A i \in 1 .. Len(n.kids) : Sort(n.kids[i]) = "expr" /\ n.kids[i] \in Nodes
    BY <1>1, <2>1 DEF AllOf, Kids
  <2> QED
    BY <2>2, ExprSort DEF Exprs
<1> QED
  BY <1>3, <1>4, <1>5, <1>6, <1>7

LEMMA TargetKid ==
    ASSUME NEW n \in Nodes, n.cls \in AddressOfClasses
    PROVE  n.kids[1].cls \in TargetClasses
<1>1. Weeding!endVisit(n)
  BY NodesAssumption
<1> QED
  BY <1>1 DEF Weeding!endVisit, Weeding!AssignStmtAccepted, Weeding!RefExprAccepted, Weeding!UpdateAccepted,
              Weeding!isAssignable, AddressOfClasses, TargetClasses

LEMMA OuterKid ==
    ASSUME NEW n \in Nodes, NEW i \in 1 .. Len(n.kids), n.kids[i].cls \in OuterClasses
    PROVE  n.cls \in {"ASTProgram", "ASTFunction"}
<1>1. /\ Len(n.kids) \in Nat /\ DOMAIN n.kids = 1 .. Len(n.kids) /\ DOMAIN Sorts(n) = 1 .. Len(n.kids)
      /\ n.kids[i] \in Nodes /\ Grammatical(n)
  BY NodeFacts DEF Sorts
<1>2. Sort(n.kids[i]) \notin {"expr", "statement"}
  BY DEF Sort, OuterClasses, ExprClasses, ConstantClasses, UnaryClasses, UpdateClasses, BinaryClasses, StmtClasses
<1>3. Sorts(n)[i] = Sort(n.kids[i]) /\ i \in DOMAIN Sorts(n)
  BY <1>1 DEF Sorts
<1>4. ~ AllOf(n, {"expr"}) /\ ~ AllOf(n, {"statement"})
  BY <1>1, <1>2 DEF AllOf, Kids
<1>5. /\ Sorts(n) # << >> /\ Sorts(n) # <<"expr">> /\ Sorts(n) # <<"expr", "expr">>
      /\ Sorts(n) # <<"expr", "expr", "expr">>
  BY <1>2, <1>3
<1>6. /\ Sorts(n) # <<"expr", "statement">> /\ Sorts(n) # <<"expr", "statement", "statement">>
      /\ Sorts(n) # <<"expr", "expr", "statement">>
  BY <1>2, <1>3
<1>7. /\ Sorts(n) # <<"expr", "expr", "expr", "statement">>
      /\ Sorts(n) # <<"expr", "expr", "expr", "expr", "statement">>
  BY <1>2, <1>3
<1> QED
  BY <1>1, <1>4, <1>5, <1>6, <1>7
     DEF Grammatical

-----------------------------------------------------------------------------
(* A codegen() as its frame starts: what it leaves in its locals fits what   *)
(* it asks of them, whichever class, and it returns what it is asked for.    *)
Sound(n, lv, names, s) ==
    /\ Paired(n, lv, names, s)
    /\ n.cls \in ExprClasses => Has(s, "result")
    /\ lv /\ n.cls # "ASTVariableExpr" => ResetsFirst(s)

LEMMA SoundExpr ==
    ASSUME NEW n, NEW lv, NEW names, NEW s, Good(n, lv, names, {}, s), Has(s, "result"),
           lv = FALSE \/ n.cls = "ASTVariableExpr" \/ ResetsFirst(s)
    PROVE  Sound(n, lv, names, s)
<1>1. Paired(n, lv, names, s)
  BY GoodIsPaired
<1> QED
  BY <1>1 DEF Sound

LEMMA SoundStmt ==
    ASSUME NEW n, NEW lv, NEW names, NEW s, lv = FALSE, n.cls \notin ExprClasses,
           Good(n, lv, names, {}, s) \/ Paired(n, lv, names, s)
    PROVE  Sound(n, lv, names, s)
<1>1. Paired(n, lv, names, s)
  BY GoodIsPaired
<1> QED
  BY <1>1 DEF Sound

LEMMA SoundCodegen ==
    ASSUME NEW n \in Nodes, lValueGen \in BOOLEAN, lValueGen => n.cls \in TargetClasses,
           \A x \in DOMAIN NamedValues : NamedValues[x].type = "ptr"
    PROVE  Sound(n, lValueGen, NamedValues, codegen(n))
<1>1. PICK lv, names : lv = lValueGen /\ names = NamedValues
  OBVIOUS
<1>2. /\ lv \in BOOLEAN /\ (n.cls \notin TargetClasses => lv = FALSE)
      /\ \A x \in DOMAIN names : names[x].type = "ptr"
  BY <1>1
<1>3. PICK m \in Nat : m = Len(n.kids) /\ Len(n.names) \in Nat
  BY NodeFacts
<1>c. PICK c : c = n.cls
  OBVIOUS
<1> SUFFICES Sound(n, lv, names, codegen(n))
  BY <1>1
<1>4. ASSUME n.cls = "ASTAndExpr" PROVE Sound(n, lv, names, codegen(n))
  <2>1. codegen(n) = ASTAndExpr /\ lv = FALSE
    BY <1>2, <1>4, CodegenCases DEF TargetClasses
  <2>2. n.kids[1].cls \in ExprClasses /\ n.kids[2].cls \in ExprClasses
    BY <1>4, ExprKids DEF Exprs, UnaryClasses, BinaryClasses
  <2>3. Good(n, lv, names, {}, ASTAndExpr) /\ Has(ASTAndExpr, "result")
    BY <1>4, <2>1, <2>2, AndTyped
  <2> QED
    BY <2>1, <2>3, SoundExpr
<1>5. ASSUME n.cls = "ASTOrExpr" PROVE Sound(n, lv, names, codegen(n))
  <2>1. codegen(n) = ASTOrExpr /\ lv = FALSE
    BY <1>2, <1>5, CodegenCases DEF TargetClasses
  <2>2. n.kids[1].cls \in ExprClasses /\ n.kids[2].cls \in ExprClasses
    BY <1>5, ExprKids DEF Exprs, UnaryClasses, BinaryClasses
  <2>3. Good(n, lv, names, {}, ASTOrExpr) /\ Has(ASTOrExpr, "result")
    BY <1>5, <2>1, <2>2, OrTyped
  <2> QED
    BY <2>1, <2>3, SoundExpr
<1>6. ASSUME n.cls = "ASTBinaryExpr" PROVE Sound(n, lv, names, codegen(n))
  <2>1. codegen(n) = ASTBinaryExpr(n) /\ lv = FALSE
    BY <1>2, <1>6, CodegenCases DEF TargetClasses
  <2>2. n.kids[1].cls \in ExprClasses /\ n.kids[2].cls \in ExprClasses
    BY <1>6, ExprKids DEF Exprs, UnaryClasses, BinaryClasses
  <2>3. Good(n, lv, names, {}, ASTBinaryExpr(n)) /\ Has(ASTBinaryExpr(n), "result")
    BY <1>6, <2>1, <2>2, BinaryTyped
  <2> QED
    BY <2>1, <2>3, SoundExpr
<1>7. ASSUME n.cls = "ASTOfArrayExpr" PROVE Sound(n, lv, names, codegen(n))
  <2>1. codegen(n) = ASTOfArrayExpr /\ lv = FALSE
    BY <1>2, <1>7, CodegenCases DEF TargetClasses
  <2>2. n.kids[1].cls \in ExprClasses /\ n.kids[2].cls \in ExprClasses
    BY <1>7, ExprKids DEF Exprs, UnaryClasses, BinaryClasses
  <2>3. Good(n, lv, names, {}, ASTOfArrayExpr) /\ Has(ASTOfArrayExpr, "result")
    BY <1>7, <2>1, <2>2, OfArrayTyped
  <2> QED
    BY <2>1, <2>3, SoundExpr
<1>8. ASSUME n.cls = "ASTNotExpr" PROVE Sound(n, lv, names, codegen(n))
  <2>1. codegen(n) = ASTNotExpr /\ lv = FALSE
    BY <1>2, <1>8, CodegenCases DEF TargetClasses
  <2>2. n.kids[1].cls \in ExprClasses
    BY <1>8, ExprKids DEF Exprs, UnaryClasses, BinaryClasses
  <2>3. Good(n, lv, names, {}, ASTNotExpr) /\ Has(ASTNotExpr, "result")
    BY <1>8, <2>1, <2>2, NotTyped
  <2> QED
    BY <2>1, <2>3, SoundExpr
<1>9. ASSUME n.cls = "ASTNegationExpr" PROVE Sound(n, lv, names, codegen(n))
  <2>1. codegen(n) = ASTNegationExpr /\ lv = FALSE
    BY <1>2, <1>9, CodegenCases DEF TargetClasses
  <2>2. n.kids[1].cls \in ExprClasses
    BY <1>9, ExprKids DEF Exprs, UnaryClasses, BinaryClasses
  <2>3. Good(n, lv, names, {}, ASTNegationExpr) /\ Has(ASTNegationExpr, "result")
    BY <1>9, <2>1, <2>2, NegationTyped
  <2> QED
    BY <2>1, <2>3, SoundExpr
<1>10. ASSUME n.cls = "ASTAllocExpr" PROVE Sound(n, lv, names, codegen(n))
  <2>1. codegen(n) = ASTAllocExpr /\ lv = FALSE
    BY <1>2, <1>10, CodegenCases DEF TargetClasses
  <2>2. n.kids[1].cls \in ExprClasses
    BY <1>10, ExprKids DEF Exprs, UnaryClasses, BinaryClasses
  <2>3. Good(n, lv, names, {}, ASTAllocExpr) /\ Has(ASTAllocExpr, "result")
    BY <1>10, <2>1, <2>2, AllocTyped
  <2> QED
    BY <2>1, <2>3, SoundExpr
<1>11. ASSUME n.cls = "ASTArrayLengthExpr" PROVE Sound(n, lv, names, codegen(n))
  <2>1. codegen(n) = ASTArrayLengthExpr /\ lv = FALSE
    BY <1>2, <1>11, CodegenCases DEF TargetClasses
  <2>2. n.kids[1].cls \in ExprClasses
    BY <1>11, ExprKids DEF Exprs, UnaryClasses, BinaryClasses
  <2>3. Good(n, lv, names, {}, ASTArrayLengthExpr) /\ Has(ASTArrayLengthExpr, "result")
    BY <1>11, <2>1, <2>2, ArrayLengthTyped
  <2> QED
    BY <2>1, <2>3, SoundExpr
<1>12. ASSUME n.cls = "ASTTernaryExpr" PROVE Sound(n, lv, names, codegen(n))
  <2>1. codegen(n) = ASTTernaryExpr /\ lv = FALSE
    BY <1>2, <1>12, CodegenCases DEF TargetClasses
  <2>2. /\ n.kids[1].cls \in ExprClasses /\ n.kids[2].cls \in ExprClasses
        /\ n.kids[3].cls \in ExprClasses
    BY <1>12, ExprKids DEF Exprs, UnaryClasses, BinaryClasses
  <2>3. Good(n, lv, names, {}, ASTTernaryExpr) /\ Has(ASTTernaryExpr, "result")
    BY <1>12, <2>1, <2>2, TernaryTyped
  <2> QED
    BY <2>1, <2>3, SoundExpr
<1>13. ASSUME n.cls = "ASTInputExpr" PROVE Sound(n, lv, names, codegen(n))
  <2>1. codegen(n) = ASTInputExpr /\ lv = FALSE
    BY <1>2, <1>13, CodegenCases DEF TargetClasses
  <2>3. Good(n, lv, names, {}, ASTInputExpr) /\ Has(ASTInputExpr, "result")
    BY <1>13, <2>1, InputTyped
  <2> QED
    BY <2>1, <2>3, SoundExpr
<1>14. ASSUME n.cls \in ConstantClasses PROVE Sound(n, lv, names, codegen(n))
  <2>1. codegen(n) = ASTNumberExpr /\ lv = FALSE
    BY <1>2, <1>14, CodegenCases DEF TargetClasses, ConstantClasses
  <2>2. Good(n, lv, names, {}, ASTNumberExpr) /\ Has(ASTNumberExpr, "result")
    BY <1>14, <2>1, NumberTyped
  <2> QED
    BY <2>1, <2>2, SoundExpr
<1>15. ASSUME n.cls = "ASTVariableExpr" PROVE Sound(n, lv, names, codegen(n))
  <2>1. PICK s : s = ASTVariableExpr(n, lv, names) /\ codegen(n) = s
    BY <1>1, <1>15, CodegenCases
  <2>2. Good(n, lv, names, {}, s) /\ Has(s, "result")
    BY <1>2, <1>15, <2>1, VariableTyped
  <2> QED
    BY <1>15, <2>1, <2>2, SoundExpr
<1>16. ASSUME n.cls = "ASTDeRefExpr" PROVE Sound(n, lv, names, codegen(n))
  <2>1. PICK s : s = ASTDeRefExpr(lv) /\ codegen(n) = s
    BY <1>1, <1>16, CodegenCases
  <2>2. n.kids[1].cls \in ExprClasses
    BY <1>16, ExprKids DEF Exprs, UnaryClasses, BinaryClasses
  <2>3. Good(n, lv, names, {}, s) /\ Has(s, "result") /\ (lv => ResetsFirst(s))
    BY <1>2, <1>16, <2>1, <2>2, DeRefTyped
  <2> QED
    BY <1>2, <2>1, <2>3, SoundExpr
<1>17. ASSUME n.cls = "ASTAccessExpr" PROVE Sound(n, lv, names, codegen(n))
  <2>1. PICK s : s = ASTAccessExpr(lv) /\ codegen(n) = s
    BY <1>1, <1>17, CodegenCases
  <2>2. n.kids[1].cls \in ExprClasses
    BY <1>17, ExprKids DEF Exprs, UnaryClasses, BinaryClasses
  <2>3. Good(n, lv, names, {}, s) /\ Has(s, "result") /\ (lv => ResetsFirst(s))
    BY <1>2, <1>17, <2>1, <2>2, AccessTyped
  <2> QED
    BY <1>2, <2>1, <2>3, SoundExpr
<1>18. ASSUME n.cls = "ASTElementRefrenceOperatorExpr" PROVE Sound(n, lv, names, codegen(n))
  <2>1. PICK s : s = ASTElementRefrenceOperatorExpr(lv) /\ codegen(n) = s
    BY <1>1, <1>18, CodegenCases
  <2>2. n.kids[1].cls \in ExprClasses /\ n.kids[2].cls \in ExprClasses
    BY <1>18, ExprKids DEF Exprs, UnaryClasses, BinaryClasses
  <2>3. Good(n, lv, names, {}, s) /\ Has(s, "result") /\ (lv => ResetsFirst(s))
    BY <1>2, <1>18, <2>1, <2>2, ElementTyped
  <2> QED
    BY <1>2, <2>1, <2>3, SoundExpr
<1>19. ASSUME n.cls = "ASTRefExpr" PROVE Sound(n, lv, names, codegen(n))
  <2>1. codegen(n) = ASTRefExpr /\ lv = FALSE
    BY <1>2, <1>19, CodegenCases DEF TargetClasses
  <2>2. n.kids[1].cls \in TargetClasses
    BY <1>19, TargetKid DEF AddressOfClasses
  <2>3. Paired(n, lv, names, ASTRefExpr) /\ Has(ASTRefExpr, "result")
    BY <1>19, <2>1, <2>2, RefTyped
  <2> QED
    BY <2>1, <2>3 DEF Sound
<1>20. ASSUME n.cls = "ASTFunAppExpr" PROVE Sound(n, lv, names, codegen(n))
  <2>1. codegen(n) = ASTFunAppExpr(n) /\ lv = FALSE
    BY <1>2, <1>20, CodegenCases DEF TargetClasses
  <2>2. m >= 1 /\ m <= Len(Actual) + 1 /\ Len(Actual) \in Nat
    BY <1>3, <1>20, Arity, NodesAssumption, ActualAssumption DEF AtLeast
  <2>3. PICK l \in Nat : m = l + 1 /\ l <= Len(Actual)
    <3>1. m - 1 \in Nat /\ m = (m - 1) + 1 /\ m - 1 <= Len(Actual)
      BY <2>2
    <3> QED
      BY <3>1
  <2>4. \A i \in 1 .. l + 1 : n.kids[i].cls \in ExprClasses
    BY <1>3, <1>20, <2>3, ExprKids DEF Exprs
  <2>5. Good(n, lv, names, {}, ASTFunAppExpr(n)) /\ Has(ASTFunAppExpr(n), "result")
    BY <1>3, <1>20, <2>1, <2>3, <2>4, CallTyped
  <2> QED
    BY <2>1, <2>5, SoundExpr
<1>21. ASSUME n.cls = "ASTRecordExpr" PROVE Sound(n, lv, names, codegen(n))
  <2>1. PICK b : codegen(n) = ASTRecordExpr(n, b) /\ lv = FALSE
    BY <1>2, <1>21, CodegenCases DEF TargetClasses
  <2>2. \A i \in 1 .. m : n.kids[i].cls \in ExprClasses
    BY <1>3, <1>21, ExprKids DEF Exprs
  <2>3. Good(n, lv, names, {}, ASTRecordExpr(n, b)) /\ Has(ASTRecordExpr(n, b), "result")
    BY <1>3, <1>21, <2>1, <2>2, RecordTyped
  <2> QED
    BY <2>1, <2>3, SoundExpr
<1>22. ASSUME n.cls = "ASTArrayExpr" PROVE Sound(n, lv, names, codegen(n))
  <2>1. codegen(n) = ASTArrayExpr(n) /\ lv = FALSE
    BY <1>2, <1>22, CodegenCases DEF TargetClasses
  <2>2. \A i \in 1 .. m : n.kids[i].cls \in ExprClasses
    BY <1>3, <1>22, ExprKids DEF Exprs
  <2>3. Good(n, lv, names, {}, ASTArrayExpr(n)) /\ Has(ASTArrayExpr(n), "result")
    BY <1>3, <1>22, <2>1, <2>2, ArrayTyped
  <2> QED
    BY <2>1, <2>3, SoundExpr
<1>23. ASSUME n.cls \in {"ASTOutputStmt", "ASTErrorStmt"} PROVE Sound(n, lv, names, codegen(n))
  <2>1. codegen(n) = ASTOutputStmt /\ lv = FALSE /\ n.cls \notin ExprClasses
    BY <1>2, <1>23, CodegenCases
       DEF TargetClasses, ExprClasses, ConstantClasses, UnaryClasses, BinaryClasses
  <2>2. n.kids[1].cls \in ExprClasses
    BY <1>23, ExprKids DEF Exprs, UpdateClasses
  <2>4. Good(n, lv, names, {}, ASTOutputStmt)
    BY <1>23, <2>2, OutputTyped
  <2> QED
    BY <2>1, <2>4, SoundStmt
<1>24. ASSUME n.cls = "ASTReturnStmt" PROVE Sound(n, lv, names, codegen(n))
  <2>1. codegen(n) = ASTReturnStmt /\ lv = FALSE /\ n.cls \notin ExprClasses
    BY <1>2, <1>24, CodegenCases
       DEF TargetClasses, ExprClasses, ConstantClasses, UnaryClasses, BinaryClasses
  <2>2. n.kids[1].cls \in ExprClasses
    BY <1>24, ExprKids DEF Exprs, UpdateClasses
  <2>4. Good(n, lv, names, {}, ASTReturnStmt)
    BY <1>24, <2>2, ReturnTyped
  <2> QED
    BY <2>1, <2>4, SoundStmt
<1>25. ASSUME n.cls = "ASTWhileStmt" PROVE Sound(n, lv, names, codegen(n))
  <2>1. codegen(n) = ASTWhileStmt /\ lv = FALSE /\ n.cls \notin ExprClasses
    BY <1>2, <1>25, CodegenCases
       DEF TargetClasses, ExprClasses, ConstantClasses, UnaryClasses, BinaryClasses
  <2>2. n.kids[1].cls \in ExprClasses
    BY <1>25, ExprKids DEF Exprs, UpdateClasses
  <2>4. Good(n, lv, names, {}, ASTWhileStmt)
    BY <1>25, <2>2, WhileTyped
  <2> QED
    BY <2>1, <2>4, SoundStmt
<1>26. ASSUME n.cls = "ASTIfStmt" PROVE Sound(n, lv, names, codegen(n))
  <2>1. codegen(n) = ASTIfStmt(n) /\ lv = FALSE /\ n.cls \notin ExprClasses
    BY <1>2, <1>26, CodegenCases
       DEF TargetClasses, ExprClasses, ConstantClasses, UnaryClasses, BinaryClasses
  <2>2. n.kids[1].cls \in ExprClasses
    BY <1>26, ExprKids DEF Exprs, UpdateClasses
  <2>4. Good(n, lv, names, {}, ASTIfStmt(n))
    BY <1>26, <2>2, IfTyped
  <2> QED
    BY <2>1, <2>4, SoundStmt
<1>27. ASSUME n.cls = "ASTAssignStmt" PROVE Sound(n, lv, names, codegen(n))
  <2>1. codegen(n) = ASTAssignStmt /\ lv = FALSE /\ n.cls \notin ExprClasses
    BY <1>2, <1>27, CodegenCases
       DEF TargetClasses, ExprClasses, ConstantClasses, UnaryClasses, BinaryClasses
  <2>2. n.kids[2].cls \in ExprClasses
    BY <1>27, ExprKids DEF Exprs, UpdateClasses
  <2>3. n.kids[1].cls \in TargetClasses
    BY <1>27, TargetKid DEF AddressOfClasses
  <2>4. Paired(n, lv, names, ASTAssignStmt)
    BY <1>27, <2>2, <2>3, AssignTyped
  <2> QED
    BY <2>1, <2>4, SoundStmt
<1>28. ASSUME n.cls \in {"ASTIncrementStmt", "ASTDecrementStmt"} PROVE Sound(n, lv, names, codegen(n))
  <2>1. codegen(n) = ASTIncrementStmt /\ lv = FALSE /\ n.cls \notin ExprClasses
    BY <1>2, <1>28, CodegenCases
       DEF TargetClasses, ExprClasses, ConstantClasses, UnaryClasses, BinaryClasses
  <2>3. n.kids[1].cls \in TargetClasses
    BY <1>28, TargetKid DEF AddressOfClasses
  <2>4. Paired(n, lv, names, ASTIncrementStmt)
    BY <1>28, <2>3, IncrementTyped
  <2> QED
    BY <2>1, <2>4, SoundStmt
<1>29. ASSUME n.cls = "ASTForIterStmt" PROVE Sound(n, lv, names, codegen(n))
  <2>1. codegen(n) = ASTForIterStmt /\ lv = FALSE /\ n.cls \notin ExprClasses
    BY <1>2, <1>29, CodegenCases
       DEF TargetClasses, ExprClasses, ConstantClasses, UnaryClasses, BinaryClasses
  <2>2. n.kids[2].cls \in ExprClasses
    BY <1>29, ExprKids DEF Exprs, UpdateClasses
  <2>3. n.kids[1].cls \in TargetClasses
    BY <1>29, TargetKid DEF AddressOfClasses
  <2>4. Paired(n, lv, names, ASTForIterStmt)
    BY <1>29, <2>2, <2>3, ForIterTyped
  <2> QED
    BY <2>1, <2>4, SoundStmt
<1>30. ASSUME n.cls = "ASTForRangeStmt" PROVE Sound(n, lv, names, codegen(n))
  <2>1. codegen(n) = ASTForRangeStmt(n) /\ lv = FALSE /\ n.cls \notin ExprClasses
    BY <1>2, <1>30, CodegenCases
       DEF TargetClasses, ExprClasses, ConstantClasses, UnaryClasses, BinaryClasses
  <2>2. /\ n.kids[2].cls \in ExprClasses /\ n.kids[3].cls \in ExprClasses
        /\ (Len(n.kids) = 5 => n.kids[4].cls \in ExprClasses)
    BY <1>30, ExprKids DEF Exprs, UpdateClasses
  <2>3. n.kids[1].cls \in TargetClasses
    BY <1>30, TargetKid DEF AddressOfClasses
  <2>4. Paired(n, lv, names, ASTForRangeStmt(n))
    BY <1>30, <2>2, <2>3, ForRangeTyped
  <2> QED
    BY <2>1, <2>4, SoundStmt
<1>31. ASSUME n.cls = "ASTBlockStmt" PROVE Sound(n, lv, names, codegen(n))
  <2>1. codegen(n) = ASTBlockStmt(n) /\ lv = FALSE /\ n.cls \notin ExprClasses
    BY <1>2, <1>31, CodegenCases
       DEF TargetClasses, ExprClasses, ConstantClasses, UnaryClasses, BinaryClasses
  <2>2. Good(n, lv, names, {}, ASTBlockStmt(n))
    BY <1>3, <1>31, BlockTyped
  <2> QED
    BY <2>1, <2>2, SoundStmt
<1>32. ASSUME n.cls \in OuterClasses PROVE Sound(n, lv, names, codegen(n))
  <2>1. lv = FALSE /\ n.cls \notin ExprClasses
    BY <1>2, <1>32, OuterKinds DEF TargetClasses, OuterClasses
  <2>2. /\ Good(n, lv, names, {}, ASTProgram(n)) /\ Good(n, lv, names, {}, ASTDeclStmt(n))
        /\ Len(n.names) > 0 => Good(n, lv, names, {}, ASTFunction(n))
    BY <1>3, <1>32, OuterTyped
  <2>3. n.cls = "ASTFunction" => Len(n.names) > 0
    BY Arity
  <2>4. Good(n, lv, names, {}, codegen(n))
    BY <1>32, <2>2, <2>3, CodegenCases DEF OuterClasses
  <2> QED
    BY <2>1, <2>4, SoundStmt
<1> QED
  BY <1>4, <1>5, <1>6, <1>7, <1>8, <1>9, <1>10, <1>11, <1>12, <1>13, <1>14, <1>15, <1>16, <1>17, <1>18, <1>19,
     <1>20, <1>21, <1>22, <1>23, <1>24, <1>25, <1>26, <1>27, <1>28, <1>29, <1>30, <1>31, <1>32,
     NodeFacts DEF Grammatical, ConstantClasses, UnaryClasses, BinaryClasses, UpdateClasses, OuterClasses

-----------------------------------------------------------------------------
(* A frame as it starts, and as it makes its steps.                         *)
LEMMA FrameStarts ==
    ASSUME NEW n \in Nodes, lValueGen \in BOOLEAN, lValueGen => n.cls \in TargetClasses,
           \A x \in DOMAIN NamedValues : NamedValues[x].type = "ptr"
    PROVE  /\ FrameTyped(Frame(n), lValueGen, NamedValues) /\ Frame(n).node = n
           /\ Frame(n).todo # << >> => ~IsTarget(n, Head(Frame(n).todo))
           /\ lValueGen /\ n.cls # "ASTVariableExpr"
                => Frame(n).todo # << >> /\ Head(Frame(n).todo) = lValueFlag(FALSE)
<1>1. PICK lv, names : lv = lValueGen /\ names = NamedValues
  OBVIOUS
<1>2. PICK s : s = codegen(n)
  OBVIOUS
<1>3. Sound(n, lv, names, s)
  BY <1>1, <1>2, SoundCodegen
<1>4. /\ Typed(n, lv, names, {}, s) /\ FlagsPaired(n, s) /\ (s # << >> => ~IsTarget(n, s[1]))
      /\ n.cls \in ExprClasses => Has(s, "result")
      /\ lv /\ n.cls # "ASTVariableExpr" => ResetsFirst(s)
  BY <1>3 DEF Sound, Paired
<1>5. IsList(s) /\ Closed({}, s) /\ \A j \in DOMAIN s : StepTyped(n, s[j], lv, names)
  BY <1>4 DEF Typed
<1>f. PICK f : f = Frame(n)
  OBVIOUS
<1>6. f = Frame(n) /\ f.node = n /\ f.todo = s /\ f.local = [x \in {} |-> ConstantInt]
  BY <1>2, <1>f DEF Frame
<1>7. DOMAIN f.local = {}
  BY <1>6
<1>8. FrameTyped(f, lv, names)
  BY <1>4, <1>5, <1>6, <1>7 DEF FrameTyped, Has
<1>9. s # << >> => Head(s) = s[1]
  BY <1>5, ListFacts
<1> QED
  BY <1>1, <1>4, <1>6, <1>8, <1>9 DEF ResetsFirst

LEMMA FrameSteps ==
    ASSUME NEW f, NEW g, NEW lv, NEW names, FrameTyped(f, lv, names), IsList(f.todo), f.todo # << >>,
           g.node = f.node, g.todo = Tail(f.todo), DOMAIN f.local \subseteq DOMAIN g.local,
           \A x : Defines(Head(f.todo), x) => x \in DOMAIN g.local,
           \A x \in DOMAIN g.local : Holds(f.node, x, g.local[x], lv, names)
    PROVE  FrameTyped(g, lv, names)
<1>1. PICK n, s, t : n = f.node /\ s = f.todo /\ t = g.todo
  OBVIOUS
<1>2. /\ IsList(t) /\ Len(s) \in Nat /\ Len(s) >= 1 /\ DOMAIN s = 1 .. Len(s) /\ Head(s) = s[1]
      /\ Len(t) = Len(s) - 1
      /\ \A i \in DOMAIN t : i + 1 \in DOMAIN s /\ t[i] = s[i + 1]
  BY <1>1, TailList, ListFacts
<1>3. PICK l \in Nat : l = Len(s) /\ DOMAIN s = 1 .. l /\ DOMAIN t = 1 .. l - 1 /\ l >= 1
                       /\ \A i \in 1 .. l - 1 : t[i] = s[i + 1]
  BY <1>2, ListFacts
<1>4. /\ \A j \in DOMAIN s : StepTyped(n, s[j], lv, names)
      /\ Closed(DOMAIN f.local, s) /\ FlagsPaired(n, s)
      /\ n.cls \in ExprClasses => "result" \in DOMAIN f.local \/ \E k \in DOMAIN s : Defines(s[k], "result")
  BY <1>1 DEF FrameTyped
<1>5. \A j \in DOMAIN t : StepTyped(n, t[j], lv, names)
  BY <1>2, <1>4
<1>6. Closed(DOMAIN g.local, t)
  <2> SUFFICES ASSUME NEW j \in DOMAIN t, HasNeeds(t[j]), NEW x \in DOMAIN t[j].need
               PROVE  x \in DOMAIN g.local \/ \E k \in 1 .. j - 1 : Defines(t[k], x)
    BY DEF Closed
  <2>1. j + 1 \in DOMAIN s /\ s[j + 1] = t[j] /\ j \in 1 .. l - 1
    BY <1>2, <1>3
  <2>2. x \in DOMAIN f.local \/ \E k \in 1 .. j : Defines(s[k], x)
    <3>1. x \in DOMAIN f.local \/ \E k \in 1 .. (j + 1) - 1 : Defines(s[k], x)
      BY <1>4, <2>1 DEF Closed
    <3>2. (j + 1) - 1 = j
      BY <2>1
    <3> QED
      BY <3>1, <3>2
  <2>3. ASSUME NEW k \in 1 .. j, Defines(s[k], x), k # 1 PROVE \E i \in 1 .. j - 1 : Defines(t[i], x)
    <3>1. k - 1 \in 1 .. j - 1 /\ k - 1 \in 1 .. l - 1 /\ (k - 1) + 1 = k
      BY <2>1, <2>3
    <3>2. t[k - 1] = s[k]
      BY <1>3, <3>1
    <3> QED
      BY <2>3, <3>1, <3>2
  <2>4. Defines(s[1], x) => x \in DOMAIN g.local
    BY <1>1, <1>2
  <2> QED
    BY <2>2, <2>3, <2>4
<1>7. ASSUME n.cls \in ExprClasses
      PROVE  "result" \in DOMAIN g.local \/ \E k \in DOMAIN t : Defines(t[k], "result")
  <2>1. "result" \in DOMAIN f.local \/ \E k \in DOMAIN s : Defines(s[k], "result")
    BY <1>4, <1>7
  <2>2. Defines(s[1], "result") => "result" \in DOMAIN g.local
    BY <1>1, <1>2
  <2>3. ASSUME NEW k \in DOMAIN s, k # 1, Defines(s[k], "result") PROVE \E i \in DOMAIN t : Defines(t[i], "result")
    <3>1. k - 1 \in 1 .. l - 1 /\ (k - 1) + 1 = k
      BY <1>3, <2>3
    <3> QED
      BY <1>3, <2>3, <3>1
  <2> QED
    BY <2>1, <2>2, <2>3
<1>8. FlagsPaired(n, t)
  <2> SUFFICES ASSUME NEW j \in DOMAIN t
               PROVE  /\ t[j].do = "lValueGen" => t[j].to \in BOOLEAN
                      /\ t[j].do = "lValueGen" /\ t[j].to => j + 1 \in DOMAIN t /\ IsTarget(n, t[j + 1])
                      /\ IsTarget(n, t[j]) => j + 1 \in DOMAIN t /\ t[j + 1] = lValueFlag(FALSE)
                      /\ IsTarget(n, t[j]) /\ j > 1 => t[j - 1] = lValueFlag(TRUE)
    BY DEF FlagsPaired
  <2>1. PICK i : i = j + 1 /\ i \in DOMAIN s /\ t[j] = s[i] /\ i > 1 /\ i - 1 = j
    BY <1>2, <1>3
  <2>2. /\ s[i].do = "lValueGen" => s[i].to \in BOOLEAN
        /\ s[i].do = "lValueGen" /\ s[i].to => i + 1 \in DOMAIN s /\ IsTarget(n, s[i + 1])
        /\ IsTarget(n, s[i]) => i + 1 \in DOMAIN s /\ s[i + 1] = lValueFlag(FALSE)
        /\ IsTarget(n, s[i]) /\ i > 1 => s[i - 1] = lValueFlag(TRUE)
    BY <1>4, <2>1 DEF FlagsPaired
  <2>3. i + 1 \in DOMAIN s => j + 1 \in DOMAIN t /\ t[j + 1] = s[i + 1]
    BY <1>3, <2>1
  <2>4. j > 1 => t[j - 1] = s[i - 1]
    <3> SUFFICES ASSUME j > 1 PROVE t[j - 1] = s[i - 1]
      OBVIOUS
    <3>1. j - 1 \in 1 .. l - 1 /\ (j - 1) + 1 = i - 1
      BY <1>3, <2>1
    <3> QED
      BY <1>3, <3>1
  <2> QED
    BY <2>1, <2>2, <2>3, <2>4
<1> QED
  BY <1>1, <1>5, <1>6, <1>7, <1>8 DEF FrameTyped

(* What the next step of a frame tells of the one after it.                 *)
LEMMA FlagSteps ==
    ASSUME NEW f, NEW lv, NEW names, FrameTyped(f, lv, names), IsList(f.todo), f.todo # << >>,
           NEW s, s = Head(f.todo), NEW t, t = Tail(f.todo)
    PROVE  /\ s.do = "lValueGen" => s.to \in BOOLEAN
           /\ s.do = "lValueGen" /\ s.to => t # << >> /\ IsTarget(f.node, Head(t))
           /\ IsTarget(f.node, s) => t # << >> /\ Head(t) = lValueFlag(FALSE)
           /\ t # << >> /\ IsTarget(f.node, Head(t)) => s = lValueFlag(TRUE)
           /\ StepTyped(f.node, s, lv, names)
           /\ HasNeeds(s) => \A x \in DOMAIN s.need : x \in DOMAIN f.local
<1>1. PICK n, u : n = f.node /\ u = f.todo
  OBVIOUS
<1>2. /\ IsList(u) /\ u # << >> /\ FlagsPaired(n, u) /\ Closed(DOMAIN f.local, u)
      /\ \A j \in DOMAIN u : StepTyped(n, u[j], lv, names)
  BY <1>1 DEF FrameTyped
<1>3. /\ Len(u) \in Nat /\ Len(u) >= 1 /\ DOMAIN u = 1 .. Len(u) /\ s = u[1]
      /\ IsList(t) /\ Len(t) = Len(u) - 1
      /\ \A i \in 1 .. Len(u) - 1 : t[i] = u[i + 1]
  BY <1>1, <1>2, TailList, ListFacts
<1>4. PICK l \in Nat : l = Len(u) /\ DOMAIN u = 1 .. l /\ l >= 1 /\ Len(t) = l - 1
                       /\ \A i \in 1 .. l - 1 : t[i] = u[i + 1]
  BY <1>3
<1>5. 1 \in DOMAIN u /\ 1 + 1 = 2
  BY <1>4
<1>6. 2 \in DOMAIN u => t # << >> /\ Head(t) = u[2]
  <2> SUFFICES ASSUME 2 \in DOMAIN u PROVE t # << >> /\ Head(t) = u[2]
    OBVIOUS
  <2>1. l >= 2
    BY <1>4
  <2>2. Len(t) >= 1 /\ IsList(t)
    BY <1>3, <1>4, <2>1
  <2>3. t # << >>
    <3>1. PICK k : k = Len(t) /\ k = l - 1
      BY <1>4
    <3>2. k # 0
      BY <1>4, <2>1, <3>1
    <3> QED
      BY <2>2, <3>1, <3>2, ListFacts
  <2>4. Head(t) = t[1]
    BY <2>2, <2>3, ListFacts
  <2>5. 1 \in 1 .. l - 1
    BY <1>4, <2>1
  <2>6. t[1] = u[2]
    BY <1>4, <1>5, <2>5
  <2> QED
    BY <2>3, <2>4, <2>6
<1>7. t # << >> => 2 \in DOMAIN u
  <2> SUFFICES ASSUME t # << >> PROVE 2 \in DOMAIN u
    OBVIOUS
  <2>1. l - 1 >= 1
    BY <1>3, <1>4, ListFacts
  <2> QED
    BY <1>4, <2>1
<1>8. /\ u[1].do = "lValueGen" => u[1].to \in BOOLEAN
      /\ u[1].do = "lValueGen" /\ u[1].to => 2 \in DOMAIN u /\ IsTarget(n, u[2])
      /\ IsTarget(n, u[1]) => 2 \in DOMAIN u /\ u[2] = lValueFlag(FALSE)
  BY <1>2, <1>5 DEF FlagsPaired
<1>9. 2 \in DOMAIN u /\ IsTarget(n, u[2]) => u[1] = lValueFlag(TRUE)
  <2>1. 2 > 1 /\ 2 - 1 = 1
    OBVIOUS
  <2> QED
    BY <1>2, <2>1 DEF FlagsPaired
<1>10. HasNeeds(u[1]) => \A x \in DOMAIN u[1].need : x \in DOMAIN f.local
  <2>1. \A k \in 1 .. 1 - 1 : FALSE
    OBVIOUS
  <2> QED
    BY <1>2, <1>5, <2>1 DEF Closed
<1> QED
  BY <1>1, <1>2, <1>3, <1>5, <1>6, <1>7, <1>8, <1>9, <1>10

(* A frame of a program, a function or a declaration holds no operands: the *)
(* names may change under it.                                               *)
LEMMA OuterFrame ==
    ASSUME NEW f, NEW lv, NEW names, NEW names2, FrameTyped(f, lv, names), f.node.cls \in OuterClasses
    PROVE  FrameTyped(f, lv, names2)
<1>1. \A x, v, nm : Holds(f.node, x, v, lv, nm)
  BY OuterKinds DEF Holds
<1>2. \A s : StepTyped(f.node, s, lv, names) => StepTyped(f.node, s, lv, names2)
  BY <1>1 DEF StepTyped
<1> QED
  BY <1>1, <1>2 DEF FrameTyped

-----------------------------------------------------------------------------
(* The invariant holds of the frame of the program, and every step keeps it. *)
LEMMA ResultHolds ==
    ASSUME NEW n, NEW s, NEW lv, NEW names, StepTyped(n, s, lv, names), s.do = "codegen",
           s.child \in DOMAIN n.kids, NEW e, e = n.kids[s.child], NEW v, NEW tg \in BOOLEAN,
           tg <=> Kind(n, s.dst) = "target", e.cls \in ExprClasses => Holds(e, "result", v, tg, names)
    PROVE  Holds(n, s.dst, v, lv, names)
<1>1. e.cls \in ExprClasses => Kind(e, "result") = "result"
  BY OuterKinds DEF Kind
<1>2. CASE Kind(n, s.dst) = "value"
  <2>1. e.cls \in ExprClasses /\ tg = FALSE
    BY <1>2 DEF StepTyped
  <2>2. v.type = "i64" \/ (v.type = "i1" /\ OneBit(e))
    BY <1>1, <2>1 DEF Holds
  <2>3. OneBit(e) => OneBitKid(n)
    BY DEF OneBitKid
  <2> QED
    BY <1>2, <2>2, <2>3 DEF Holds
<1>3. CASE Kind(n, s.dst) = "target"
  <2>1. e.cls \in TargetClasses /\ tg = TRUE /\ e = n.kids[1]
    BY <1>3 DEF StepTyped
  <2>2. e.cls \in ExprClasses
    BY <2>1 DEF TargetClasses, ExprClasses, UnaryClasses, BinaryClasses
  <2>3. v.type = "ptr" \/ (v = ConstantInt /\ IsFunctionName(e, names))
    BY <1>1, <2>1, <2>2 DEF Holds
  <2> QED
    BY <1>3, <2>1, <2>3 DEF Holds
<1>4. CASE Kind(n, s.dst) = "none"
  BY <1>4 DEF Holds
<1> QED
  BY <1>2, <1>3, <1>4 DEF StepTyped

LEMMA AssignHolds ==
    ASSUME NEW n, NEW lv, NEW names, NEW local, NEW x, NEW v, NEW l, l = Assign(local, x, v),
           \A y \in DOMAIN local : Holds(n, y, local[y], lv, names), Holds(n, x, v, lv, names)
    PROVE  /\ DOMAIN local \subseteq DOMAIN l /\ x \in DOMAIN l
           /\ \A y \in DOMAIN l : Holds(n, y, l[y], lv, names)
<1>1. DOMAIN l = DOMAIN local \cup {x} /\ \A y \in DOMAIN l : l[y] = IF y = x THEN v ELSE local[y]
  BY DEF Assign
<1>2. ASSUME NEW y \in DOMAIN l PROVE Holds(n, y, l[y], lv, names)
  <2>1. CASE y = x
    BY <1>1, <2>1
  <2>2. CASE y # x
    BY <1>1, <2>2
  <2> QED
    BY <2>1, <2>2
<1> QED
  BY <1>1, <1>2

LEMMA VariableHasNoKids == ASSUME NEW n \in Nodes, n.cls = "ASTVariableExpr" PROVE Len(n.kids) = 0
<1>1. /\ Len(n.kids) \in Nat /\ DOMAIN n.kids = 1 .. Len(n.kids) /\ DOMAIN Sorts(n) = 1 .. Len(n.kids)
      /\ Grammatical(n)
  BY NodeFacts DEF Sorts
<1>2. Sorts(n) = << >>
  BY <1>1 DEF Grammatical, ConstantClasses, UnaryClasses, UpdateClasses, BinaryClasses
<1>3. PICK k \in Nat : k = Len(n.kids) /\ DOMAIN Sorts(n) = 1 .. k
  BY <1>1
<1>4. 1 \notin 1 .. k
  BY <1>2, <1>3
<1> QED
  BY <1>3, <1>4

(* What the top frame is, in constants.                                     *)
LEMMA TopTyped ==
    ASSUME Stack, TypingInv, calls # << >>
    PROVE  \E m, f : /\ m \in Nat /\ m = Len(calls) /\ DOMAIN calls = 1 .. m /\ m >= 1
                     /\ f = Top /\ f = calls[m] /\ FrameOK(f) /\ IsList(f.todo)
                     /\ FrameTyped(f, LV(m), NamedValues)
<1>1. /\ Len(calls) \in Nat /\ Len(calls) >= 1 /\ DOMAIN calls = 1 .. Len(calls)
      /\ Len(calls) \in DOMAIN calls /\ Top = calls[Len(calls)] /\ FrameOK(Top)
  BY TopFacts
<1>2. FrameTyped(Top, LV(Len(calls)), NamedValues)
  BY <1>1 DEF TypingInv
<1>3. IsList(Top.todo)
  BY <1>1 DEF FrameOK
<1> QED
  BY <1>1, <1>2, <1>3

LEMMA FirstIsNoTarget == ASSUME NEW i \in Nat, i <= 1 PROVE LV(i) = FALSE
<1>1. ~(i > 1)
  OBVIOUS
<1>2. PICK a : a = calls[i - 1]
  OBVIOUS
<1>3. PICK b : b <=> Kind(a.node, Head(a.todo).dst) = "target"
  OBVIOUS
<1>4. LV(i) = (i > 1 /\ b)
  BY <1>2, <1>3 DEF LV
<1> QED
  BY <1>1, <1>4

LEMMA TypingInit == Init => TypingInv
<1> SUFFICES ASSUME Init PROVE TypingInv
  OBVIOUS
<1>1. PICK p \in Programs : Stack /\ Len(calls) = 1 /\ calls[1] = Frame(p)
  BY StackInit
<1>2. p \in Nodes
  BY NodesAssumption
<1>3. lValueGen = FALSE /\ DOMAIN NamedValues = {}
  BY DEF Init
<1>4. PICK lv, names, f : lv = lValueGen /\ names = NamedValues /\ f = Frame(p)
  OBVIOUS
<1>5. /\ FrameTyped(f, lv, names) /\ f.node = p
      /\ f.todo # << >> => ~IsTarget(p, Head(f.todo))
  BY <1>2, <1>3, <1>4, FrameStarts
<1>6. DOMAIN calls = 1 .. 1 /\ calls[1] = f /\ Top = f
  BY <1>1, <1>4, ListFacts DEF Stack, Top
<1>7. LV(1) = lv
  <2>1. 1 \in Nat /\ 1 <= 1
    OBVIOUS
  <2>2. LV(1) = FALSE
    BY <2>1, FirstIsNoTarget
  <2>3. lv = FALSE
    BY <1>3, <1>4
  <2> QED
    BY <2>2, <2>3
<1>8. FrameTyped(calls[1], LV(1), NamedValues)
  BY <1>4, <1>5, <1>6, <1>7
<1>t. \A i \in DOMAIN calls : FrameTyped(calls[i], LV(i), NamedValues)
  <2>1. ASSUME NEW i \in 1 .. 1 PROVE i = 1
    OBVIOUS
  <2>2. ASSUME NEW i \in 1 .. 1 PROVE FrameTyped(calls[i], LV(i), NamedValues)
    BY <1>8, <2>1
  <2> QED
    BY <1>6, <2>2
<1>9. LinkedFrames
  BY <1>1 DEF LinkedFrames
<1>10. OuterBelow
  BY <1>6 DEF OuterBelow
<1>11. FlagHasTarget
  BY <1>3 DEF FlagHasTarget
<1>12. FlagForTarget
  BY <1>5, <1>6 DEF FlagForTarget, Step
<1> QED
  BY <1>3, <1>t, <1>9, <1>10, <1>11, <1>12 DEF TypingInv

LEMMA TypingCalls == ASSUME Stack, TypingInv, Calls, UNCHANGED <<lValueGen, NamedValues>> PROVE TypingInv'
<1>1. calls # << >> /\ Top.todo # << >> /\ Step.do = "codegen"
  BY DEF Calls, Running
<1>2. PICK m, f : /\ m \in Nat /\ m = Len(calls) /\ DOMAIN calls = 1 .. m /\ m >= 1
                  /\ f = Top /\ f = calls[m] /\ FrameOK(f) /\ IsList(f.todo)
                  /\ FrameTyped(f, LV(m), NamedValues)
  BY <1>1, TopTyped
<1> m \in Nat
  BY <1>2
<1>3. PICK s : s = Step /\ s = Head(f.todo) /\ s.do = "codegen" /\ f.todo # << >>
  BY <1>1, <1>2 DEF Step
<1>4. s.child \in 1 .. Len(f.node.kids) /\ f.node \in Nodes
  BY <1>2, <1>3, ChildIsNode DEF FrameOK
<1>5. PICK n \in Nodes : n = f.node.kids[s.child] /\ n = Top.node.kids[Step.child]
  BY <1>2, <1>3 DEF Calls
<1>6. PICK lv, names : lv = lValueGen /\ names = NamedValues
  OBVIOUS
<1>7. StepTyped(f.node, s, LV(m), NamedValues)
  BY <1>2, <1>3, FlagSteps
<1>8. PICK tg \in BOOLEAN : tg <=> IsTarget(f.node, s)
  OBVIOUS
<1>9. lv \in BOOLEAN /\ \A x \in DOMAIN names : names[x].type = "ptr"
  BY <1>6 DEF TypingInv
<1>10. lv = tg
  <2>1. tg => lv
    BY <1>1, <1>2, <1>3, <1>6, <1>8 DEF TypingInv, FlagForTarget
  <2>2. ASSUME lv PROVE tg
    <3>1. \/ IsTarget(f.node, s) \/ s = lValueFlag(FALSE)
          \/ f.node.cls = "ASTVariableExpr"
      BY <1>1, <1>2, <1>3, <1>6, <2>2 DEF TypingInv, FlagHasTarget
    <3>2. s # lValueFlag(FALSE)
      BY <1>3 DEF lValueFlag
    <3>3. f.node.cls # "ASTVariableExpr"
      BY <1>4, VariableHasNoKids
    <3> QED
      BY <1>8, <3>1, <3>2, <3>3
  <2> QED
    BY <1>9, <2>1, <2>2
<1>11. lv => n.cls \in TargetClasses
  BY <1>3, <1>5, <1>7, <1>8, <1>10 DEF StepTyped, IsTarget
<1>12. PICK g : g = Frame(n)
  OBVIOUS
<1>13. /\ FrameTyped(g, lv, names) /\ g.node = n
       /\ g.todo # << >> => ~IsTarget(n, Head(g.todo))
       /\ lv /\ n.cls # "ASTVariableExpr" => g.todo # << >> /\ Head(g.todo) = lValueFlag(FALSE)
  BY <1>6, <1>9, <1>11, <1>12, FrameStarts
<1>14. /\ Len(calls') = m + 1 /\ DOMAIN calls' = 1 .. m + 1 /\ calls'[m + 1] = g
       /\ \A i \in 1 .. m : calls'[i] = calls[i]
  BY <1>2, <1>5, <1>12, ListFacts DEF Calls, FirstFrames
<1>15. ASSUME NEW i \in 1 .. m PROVE LV(i)' = LV(i)
  <2>1. i > 1 => calls'[i - 1] = calls[i - 1]
    BY <1>14
  <2> QED
    BY <2>1 DEF LV
<1>16. LV(m + 1)' = tg
  <2>1. (m + 1) - 1 = m /\ m + 1 > 1 /\ calls'[m] = f
    BY <1>2, <1>14
  <2> QED
    BY <1>3, <1>8, <2>1 DEF LV, IsTarget
<1>17. Top' = g /\ calls' # << >>
  BY <1>14, ListFacts DEF Top, Calls
<1>18. LinkedFrames'
  <2>1. ASSUME NEW i \in 1 .. m PROVE calls'[i + 1].node = calls'[i].node.kids[Head(calls'[i].todo).child]
    <3>1. CASE i = m
      BY <1>2, <1>3, <1>5, <1>13, <1>14, <3>1
    <3>2. CASE i \in 1 .. m - 1
      <4>1. calls[i + 1].node = calls[i].node.kids[Head(calls[i].todo).child]
        BY <1>2, <3>2 DEF TypingInv, LinkedFrames
      <4>2. calls'[i + 1] = calls[i + 1] /\ calls'[i] = calls[i]
        BY <1>14, <3>2
      <4> QED
        BY <4>1, <4>2
    <3> QED
      BY <3>1, <3>2
  <2>2. (m + 1) - 1 = m
    OBVIOUS
  <2> QED
    BY <1>14, <2>1, <2>2 DEF LinkedFrames
<1>19. OuterBelow'
  <2> SUFFICES ASSUME NEW i \in 1 .. m + 1, calls'[i].node.cls \in OuterClasses, NEW j \in 1 .. i - 1
               PROVE  calls'[j].node.cls \in {"ASTProgram", "ASTFunction"}
    BY <1>14 DEF OuterBelow
  <2>1. CASE i = m + 1
    <3>1. n.cls \in OuterClasses
      BY <1>13, <1>14, <2>1
    <3>2. f.node.cls \in {"ASTProgram", "ASTFunction"}
      BY <1>4, <1>5, <3>1, OuterKid
    <3>3. CASE j = m
      BY <1>2, <1>14, <3>2, <3>3
    <3>4. CASE j \in 1 .. m - 1
      <4>1. calls[j].node.cls \in {"ASTProgram", "ASTFunction"}
        BY <1>2, <3>2, <3>4 DEF TypingInv, OuterBelow, OuterClasses
      <4> QED
        BY <1>14, <3>4, <4>1
    <3> QED
      BY <2>1, <3>3, <3>4
  <2>2. CASE i \in 1 .. m
    <3>1. calls'[i] = calls[i] /\ calls'[j] = calls[j]
      BY <1>14, <2>2
    <3> QED
      BY <1>2, <2>2, <3>1 DEF TypingInv, OuterBelow
  <2> QED
    BY <2>1, <2>2
<1>20. FlagHasTarget'
  <2> SUFFICES ASSUME lv
               PROVE  \/ g.todo # << >> /\ Head(g.todo) = lValueFlag(FALSE)
                      \/ g.node.cls = "ASTVariableExpr" /\ LV(m + 1)'
    BY <1>6, <1>14, <1>17 DEF FlagHasTarget, Step
  <2> QED
    BY <1>10, <1>13, <1>16
<1>21. FlagForTarget'
  BY <1>13, <1>17 DEF FlagForTarget, Step
<1>22. ASSUME NEW i \in 1 .. m + 1 PROVE FrameTyped(calls'[i], LV(i)', names)
  <2>1. CASE i = m + 1
    BY <1>10, <1>13, <1>14, <1>16, <2>1
  <2>2. CASE i \in 1 .. m
    <3>1. FrameTyped(calls[i], LV(i), names)
      BY <1>2, <1>6, <2>2 DEF TypingInv
    <3> QED
      BY <1>14, <1>15, <2>2, <3>1
  <2> QED
    BY <2>1, <2>2
<1> QED
  BY <1>6, <1>9, <1>14, <1>18, <1>19, <1>20, <1>21, <1>22 DEF TypingInv

LEMMA TypingReturns == ASSUME Stack, TypingInv, Returns, UNCHANGED <<lValueGen, NamedValues>> PROVE TypingInv'
<1>1. calls # << >> /\ Top.todo = << >>
  BY DEF Returns
<1>2. PICK m, f : /\ m \in Nat /\ m = Len(calls) /\ DOMAIN calls = 1 .. m /\ m >= 1
                  /\ f = Top /\ f = calls[m] /\ FrameOK(f) /\ IsList(f.todo)
                  /\ FrameTyped(f, LV(m), NamedValues)
  BY <1>1, TopTyped
<1> m \in Nat
  BY <1>2
<1>3. PICK k \in Nat : k = m - 1 /\ m = k + 1
  <2>1. m - 1 \in Nat /\ m = (m - 1) + 1
    BY <1>2
  <2> QED
    BY <2>1
<1>4. PICK lv, names : lv = lValueGen /\ names = NamedValues
  OBVIOUS
<1>5. lv \in BOOLEAN /\ \A x \in DOMAIN names : names[x].type = "ptr"
  BY <1>4 DEF TypingInv
<1>6. /\ Len(calls') = k /\ IsList(calls') /\ DOMAIN calls' = 1 .. k
      /\ \A i \in 1 .. k - 1 : calls'[i] = calls[i]
  BY <1>2, <1>3, ListFacts DEF Returns, FirstFrames
<1>7. lv => f.node.cls = "ASTVariableExpr" /\ LV(m)
  BY <1>1, <1>2, <1>4 DEF TypingInv, FlagHasTarget
<1>8. ASSUME k = 0 PROVE TypingInv'
  <2>0. m <= 1
    BY <1>3, <1>8
  <2>1. LV(m) = FALSE
    BY <2>0, FirstIsNoTarget
  <2>2. lv = FALSE /\ calls' = << >> /\ DOMAIN calls' = {}
    BY <1>5, <1>6, <1>7, <1>8, <2>1, ListFacts
  <2>3. LinkedFrames'
    BY <1>6, <1>8 DEF LinkedFrames
  <2>4. OuterBelow' /\ FlagHasTarget' /\ FlagForTarget'
    BY <1>4, <2>2 DEF OuterBelow, FlagHasTarget, FlagForTarget
  <2> QED
    BY <1>4, <1>5, <2>2, <2>3, <2>4 DEF TypingInv
<1>9. ASSUME k >= 1 PROVE TypingInv'
  <2>1. PICK g, h, v : g = calls[k] /\ h = calls'[k] /\ v = f.local["result"]
    OBVIOUS
  <2>2. k \in DOMAIN calls /\ k \in 1 .. m - 1
    BY <1>2, <1>3, <1>9
  <2>3. g.todo # << >> /\ Head(g.todo).do = "codegen" /\ FrameOK(g)
    BY <1>2, <2>1, <2>2 DEF Stack
  <2>4. PICK s : s = Head(g.todo) /\ s.do = "codegen"
    BY <2>3
  <2>5. /\ h.todo = Tail(g.todo) /\ h.node = g.node
        /\ h.local = Assign(g.local, s.dst, v)
    BY <1>2, <1>3, <1>9, <2>1, <2>4 DEF Returns, Moved, Returned
  <2>6. PICK b \in BOOLEAN : b = LV(k)
    BY DEF LV
  <2>7. FrameTyped(g, b, names) /\ IsList(g.todo)
    BY <1>4, <2>1, <2>2, <2>3, <2>6 DEF TypingInv, FrameOK
  <2>8. /\ IsTarget(g.node, s) => Tail(g.todo) # << >> /\ Head(Tail(g.todo)) = lValueFlag(FALSE)
        /\ Tail(g.todo) # << >> /\ IsTarget(g.node, Head(Tail(g.todo))) => s = lValueFlag(TRUE)
        /\ StepTyped(g.node, s, b, names)
    BY <2>3, <2>4, <2>7, FlagSteps
  <2>9. /\ s.child \in DOMAIN g.node.kids /\ f.node = g.node.kids[s.child]
    <3>1. s.child \in 1 .. Len(g.node.kids) /\ g.node \in Nodes
      BY <2>3, <2>4, ChildIsNode DEF FrameOK
    <3>2. DOMAIN g.node.kids = 1 .. Len(g.node.kids)
      BY <3>1, NodeFacts
    <3>3. calls[k + 1].node = g.node.kids[s.child]
      BY <1>2, <2>1, <2>2, <2>4 DEF TypingInv, LinkedFrames
    <3>4. k + 1 = m
      BY <1>3
    <3> QED
      BY <1>2, <3>1, <3>2, <3>3, <3>4
  <2>10. PICK tg \in BOOLEAN : tg = LV(m) /\ (tg <=> Kind(g.node, s.dst) = "target")
    <3>1. m - 1 = k /\ m > 1
      BY <1>3, <1>9
    <3> QED
      BY <2>1, <2>4, <3>1 DEF LV
  <2>11. f.node.cls \in ExprClasses => Holds(f.node, "result", v, tg, names)
    <3>1. DOMAIN f.todo = {} /\ FrameTyped(f, tg, names)
      BY <1>1, <1>2, <1>4, <2>10
    <3> QED
      BY <2>1, <3>1 DEF FrameTyped
  <2>12. Holds(g.node, s.dst, v, b, names)
    BY <2>4, <2>8, <2>9, <2>10, <2>11, ResultHolds
  <2>13. /\ DOMAIN g.local \subseteq DOMAIN h.local /\ s.dst \in DOMAIN h.local
         /\ \A y \in DOMAIN h.local : Holds(g.node, y, h.local[y], b, names)
    <3>1. \A y \in DOMAIN g.local : Holds(g.node, y, g.local[y], b, names)
      BY <2>7 DEF FrameTyped
    <3> QED
      BY <2>5, <2>12, <3>1, AssignHolds
  <2>14. FrameTyped(h, b, names)
    <3>1. \A x : Defines(Head(g.todo), x) => x \in DOMAIN h.local
      BY <2>4, <2>13 DEF Defines
    <3> QED
      BY <2>3, <2>5, <2>7, <2>13, <3>1, FrameSteps
  <2>15. ASSUME NEW i \in 1 .. k PROVE LV(i)' = LV(i)
    <3>1. i > 1 => i - 1 \in 1 .. k - 1 /\ calls'[i - 1] = calls[i - 1]
      BY <1>6
    <3> QED
      BY <3>1 DEF LV
  <2>16. Top' = h /\ calls' # << >>
    BY <1>6, <1>9, <2>1, ListFacts DEF Top
  <2>17. \A i \in 1 .. k : calls'[i].node = calls[i].node
    <3>1. ASSUME NEW i \in 1 .. k PROVE calls'[i].node = calls[i].node
      <4>1. CASE i = k
        BY <2>1, <2>5, <4>1
      <4>2. CASE i \in 1 .. k - 1
        BY <1>6, <4>2
      <4> QED
        BY <4>1, <4>2
    <3> QED
      BY <3>1
  <2>18. LinkedFrames'
    <3>1. ASSUME NEW i \in 1 .. k - 1
          PROVE  calls'[i + 1].node = calls'[i].node.kids[Head(calls'[i].todo).child]
      <4>1. calls[i + 1].node = calls[i].node.kids[Head(calls[i].todo).child]
        BY <1>2, <1>3 DEF TypingInv, LinkedFrames
      <4>2. calls'[i + 1].node = calls[i + 1].node /\ calls'[i] = calls[i]
        BY <1>6, <2>17
      <4> QED
        BY <4>1, <4>2
    <3> QED
      BY <1>6, <3>1 DEF LinkedFrames
  <2>19. OuterBelow'
    <3> SUFFICES ASSUME NEW i \in 1 .. k, calls'[i].node.cls \in OuterClasses, NEW j \in 1 .. i - 1
                 PROVE  calls'[j].node.cls \in {"ASTProgram", "ASTFunction"}
      BY <1>6 DEF OuterBelow
    <3>1. i \in DOMAIN calls /\ calls'[i].node = calls[i].node /\ calls'[j].node = calls[j].node
      BY <1>2, <1>3, <2>17
    <3> QED
      BY <3>1 DEF TypingInv, OuterBelow
  <2>20. FlagHasTarget'
    <3> SUFFICES ASSUME lv PROVE h.todo # << >> /\ Head(h.todo) = lValueFlag(FALSE)
      BY <1>4, <2>16 DEF FlagHasTarget, Step
    <3>1. IsTarget(g.node, s)
      BY <1>7, <2>4, <2>10 DEF IsTarget
    <3> QED
      BY <2>5, <2>8, <3>1
  <2>21. FlagForTarget'
    <3> SUFFICES ASSUME h.todo # << >>, IsTarget(h.node, Head(h.todo)) PROVE FALSE
      BY <2>16 DEF FlagForTarget, Step
    <3>1. s = lValueFlag(TRUE)
      BY <2>5, <2>8
    <3> QED
      BY <2>4, <3>1 DEF lValueFlag
  <2>22. ASSUME NEW i \in 1 .. k PROVE FrameTyped(calls'[i], LV(i)', names)
    <3>1. CASE i = k
      BY <2>1, <2>6, <2>14, <2>15, <3>1
    <3>2. CASE i \in 1 .. k - 1
      <4>1. FrameTyped(calls[i], LV(i), names)
        BY <1>2, <1>3, <1>4, <3>2 DEF TypingInv
      <4> QED
        BY <1>6, <2>15, <3>2, <4>1
    <3> QED
      BY <3>1, <3>2
  <2> QED
    BY <1>4, <1>5, <1>6, <2>18, <2>19, <2>20, <2>21, <2>22 DEF TypingInv
<1> QED
  BY <1>8, <1>9

LEMMA TypingAdvances ==
    ASSUME Stack, TypingInv, Advances, NEW l, calls'[Len(calls)].local = l,
           DOMAIN Top.local \subseteq DOMAIN l, \A x : Defines(Step, x) => x \in DOMAIN l,
           \A x \in DOMAIN l : Holds(Top.node, x, l[x], LV(Len(calls)), NamedValues),
           \/ UNCHANGED NamedValues
           \/ Top.node.cls \in OuterClasses /\ \A x \in DOMAIN NamedValues' : NamedValues'[x].type = "ptr",
           \/ Step.do # "lValueGen" /\ UNCHANGED lValueGen
           \/ Step.do = "lValueGen" /\ lValueGen' = Step.to
    PROVE  TypingInv'
<1>1. calls # << >> /\ Top.todo # << >> /\ Step.do # "codegen"
  BY DEF Advances
<1>2. PICK m, f : /\ m \in Nat /\ m = Len(calls) /\ DOMAIN calls = 1 .. m /\ m >= 1
                  /\ f = Top /\ f = calls[m] /\ FrameOK(f) /\ IsList(f.todo)
                  /\ FrameTyped(f, LV(m), NamedValues)
  BY <1>1, TopTyped
<1> m \in Nat
  BY <1>2
<1>3. PICK s, t : s = Step /\ s = Head(f.todo) /\ s.do # "codegen" /\ f.todo # << >> /\ t = Tail(f.todo)
  BY <1>1, <1>2 DEF Step
<1>4. PICK lv, names, lv2, names2 : lv = lValueGen /\ names = NamedValues /\ lv2 = lValueGen' /\ names2 = NamedValues'
  OBVIOUS
<1>5. lv \in BOOLEAN /\ \A x \in DOMAIN names : names[x].type = "ptr"
  BY <1>4 DEF TypingInv
<1>6. /\ Len(calls') = m /\ IsList(calls') /\ DOMAIN calls' = 1 .. m
      /\ \A i \in 1 .. m - 1 : calls'[i] = calls[i]
  BY <1>2, ListFacts DEF Advances, FirstFrames
<1>7. PICK g : g = calls'[m] /\ g.todo = t /\ g.node = f.node /\ g.local = l
  BY <1>2, <1>3 DEF Advances, Moved
<1>8. PICK b \in BOOLEAN : b = LV(m) /\ (b <=> LV(Len(calls)))
  <2>1. PICK b \in BOOLEAN : b = LV(m)
    BY DEF LV
  <2> QED
    BY <1>2, <2>1
<1>9. FrameTyped(f, b, names)
  BY <1>2, <1>4, <1>8
<1>10. FrameTyped(g, b, names)
  <2>1. /\ DOMAIN f.local \subseteq DOMAIN g.local
        /\ \A x : Defines(Head(f.todo), x) => x \in DOMAIN g.local
        /\ \A x \in DOMAIN g.local : Holds(f.node, x, g.local[x], b, names)
    BY <1>2, <1>3, <1>4, <1>7, <1>8
  <2> QED
    BY <1>2, <1>3, <1>7, <1>9, <2>1, FrameSteps
<1>11. /\ s.do = "lValueGen" => s.to \in BOOLEAN
       /\ s.do = "lValueGen" /\ s.to => t # << >> /\ IsTarget(f.node, Head(t))
       /\ t # << >> /\ IsTarget(f.node, Head(t)) => s = lValueFlag(TRUE)
  BY <1>2, <1>3, <1>9, FlagSteps
<1>12. ASSUME NEW i \in 1 .. m PROVE LV(i)' = LV(i)
  <2>1. i > 1 => i - 1 \in 1 .. m - 1 /\ calls'[i - 1] = calls[i - 1]
    BY <1>6
  <2> QED
    BY <2>1 DEF LV
<1>13. Top' = g /\ calls' # << >>
  BY <1>2, <1>6, <1>7, ListFacts DEF Top
<1>14. ASSUME NEW i \in 1 .. m PROVE calls'[i].node = calls[i].node
  <2>1. CASE i = m
    BY <1>2, <1>7, <2>1
  <2>2. CASE i \in 1 .. m - 1
    BY <1>6, <2>2
  <2> QED
    BY <2>1, <2>2
<1>15. LinkedFrames'
  <2>1. ASSUME NEW i \in 1 .. m - 1
        PROVE  calls'[i + 1].node = calls'[i].node.kids[Head(calls'[i].todo).child]
    <3>1. calls[i + 1].node = calls[i].node.kids[Head(calls[i].todo).child]
      BY <1>2 DEF TypingInv, LinkedFrames
    <3>2. calls'[i + 1].node = calls[i + 1].node /\ calls'[i] = calls[i]
      BY <1>6, <1>14
    <3> QED
      BY <3>1, <3>2
  <2> QED
    BY <1>6, <2>1 DEF LinkedFrames
<1>16. OuterBelow'
  <2> SUFFICES ASSUME NEW i \in 1 .. m, calls'[i].node.cls \in OuterClasses, NEW j \in 1 .. i - 1
               PROVE  calls'[j].node.cls \in {"ASTProgram", "ASTFunction"}
    BY <1>6 DEF OuterBelow
  <2>1. i \in DOMAIN calls /\ calls'[i].node = calls[i].node /\ calls'[j].node = calls[j].node
    BY <1>2, <1>14
  <2> QED
    BY <2>1 DEF TypingInv, OuterBelow
<1>17. /\ s.do = "lValueGen" => lv2 = s.to
       /\ s.do # "lValueGen" => lv2 = lv
       /\ lv2 \in BOOLEAN
  <2>1. (s.do # "lValueGen" /\ lv2 = lv) \/ (s.do = "lValueGen" /\ lv2 = s.to)
    BY <1>3, <1>4
  <2> QED
    BY <1>5, <1>11, <2>1
<1>18. FlagHasTarget'
  <2> SUFFICES ASSUME lv2
               PROVE  \/ t # << >> /\ IsTarget(f.node, Head(t))
                      \/ f.node.cls = "ASTVariableExpr" /\ b
    <3>1. LV(Len(calls))' <=> b
      <4>1. m \in 1 .. m
        BY <1>2
      <4>2. LV(m)' = LV(m)
        BY <1>12, <4>1
      <4>3. LV(Len(calls))' = LV(m)'
        BY <1>6
      <4> QED
        BY <1>8, <4>2, <4>3
    <3> QED
      BY <1>4, <1>7, <1>13, <3>1 DEF FlagHasTarget, Step
  <2>1. CASE s.do = "lValueGen"
    BY <1>11, <1>17, <2>1
  <2>2. CASE s.do # "lValueGen"
    <3>1. lv
      BY <1>17, <2>2
    <3>2. IsTarget(f.node, s) \/ s = lValueFlag(FALSE) \/ (f.node.cls = "ASTVariableExpr" /\ b)
      <4>1. \/ IsTarget(Top.node, Step) \/ Step = lValueFlag(FALSE)
            \/ Top.node.cls = "ASTVariableExpr" /\ LV(Len(calls))
        BY <1>4, <3>1 DEF TypingInv, FlagHasTarget
      <4> QED
        BY <1>2, <1>3, <1>8, <4>1
    <3>3. ~IsTarget(f.node, s) /\ s # lValueFlag(FALSE)
      BY <1>3, <2>2 DEF IsTarget, lValueFlag
    <3> QED
      BY <3>2, <3>3
  <2> QED
    BY <2>1, <2>2
<1>19. FlagForTarget'
  <2> SUFFICES ASSUME t # << >>, IsTarget(f.node, Head(t)) PROVE lv2
    BY <1>4, <1>7, <1>13 DEF FlagForTarget, Step
  <2>1. s = lValueFlag(TRUE)
    BY <1>11
  <2>2. s.do = "lValueGen" /\ s.to = TRUE
    BY <2>1 DEF lValueFlag
  <2> QED
    BY <1>17, <2>2
<1>20. \/ names2 = names
       \/ f.node.cls \in OuterClasses /\ \A x \in DOMAIN names2 : names2[x].type = "ptr"
  BY <1>2, <1>4
<1>21. ASSUME NEW i \in 1 .. m PROVE FrameTyped(calls'[i], LV(i)', names)
  <2>1. CASE i = m
    BY <1>7, <1>8, <1>10, <1>12, <2>1
  <2>2. CASE i \in 1 .. m - 1
    <3>1. FrameTyped(calls[i], LV(i), names)
      BY <1>2, <1>4, <2>2 DEF TypingInv
    <3> QED
      BY <1>6, <1>12, <2>2, <3>1
  <2> QED
    BY <2>1, <2>2
<1>22. ASSUME f.node.cls \in OuterClasses, NEW i \in 1 .. m PROVE calls'[i].node.cls \in OuterClasses
  <2>1. CASE i = m
    BY <1>7, <1>22, <2>1
  <2>2. CASE i \in 1 .. m - 1
    <3>1. calls[i].node.cls \in {"ASTProgram", "ASTFunction"}
      BY <1>2, <1>22, <2>2 DEF TypingInv, OuterBelow
    <3> QED
      BY <1>6, <2>2, <3>1 DEF OuterClasses
  <2> QED
    BY <2>1, <2>2
<1>23. ASSUME NEW i \in 1 .. m PROVE FrameTyped(calls'[i], LV(i)', names2)
  <2>1. CASE names2 = names
    BY <1>21, <2>1
  <2>2. CASE f.node.cls \in OuterClasses
    <3>1. PICK h, c : h = calls'[i] /\ c = LV(i)'
      OBVIOUS
    <3>2. FrameTyped(h, c, names) /\ h.node.cls \in OuterClasses
      BY <1>21, <1>22, <2>2, <3>1
    <3>3. FrameTyped(h, c, names2)
      BY <3>2, OuterFrame
    <3> QED
      BY <3>1, <3>3
  <2> QED
    BY <1>20, <2>1, <2>2
<1>24. \A x \in DOMAIN names2 : names2[x].type = "ptr"
  BY <1>5, <1>20
<1> QED
  BY <1>4, <1>6, <1>15, <1>16, <1>17, <1>18, <1>19, <1>23, <1>24 DEF TypingInv

(* Steps that assign to no local of the codegen().                          *)
LEMMA TypingKeeps ==
    ASSUME Stack, TypingInv, NEW d, Running(d), d \notin {"codegen", "emit", "known"},
           NEW b, (Advance(Top.local) /\ b = Top.label) \/ Relabel(b),
           \/ UNCHANGED NamedValues
           \/ Top.node.cls \in OuterClasses /\ \A x \in DOMAIN NamedValues' : NamedValues'[x].type = "ptr",
           \/ d # "lValueGen" /\ UNCHANGED lValueGen
           \/ d = "lValueGen" /\ lValueGen' = Step.to
    PROVE  TypingInv'
<1>1. calls # << >> /\ Top.todo # << >> /\ Step.do = d
  BY DEF Running
<1>2. PICK m, f : /\ m \in Nat /\ m = Len(calls) /\ DOMAIN calls = 1 .. m /\ m >= 1
                  /\ f = Top /\ f = calls[m] /\ FrameOK(f) /\ IsList(f.todo)
                  /\ FrameTyped(f, LV(m), NamedValues)
  BY <1>1, TopTyped
<1> m \in Nat
  BY <1>2
<1>3. PICK l : l = Top.local
  OBVIOUS
<1>4. Advances /\ calls'[Len(calls)].local = l
  BY <1>3, AdvanceShape
<1>5. \A x : ~Defines(Step, x)
  BY <1>1 DEF Defines
<1>6. \A x \in DOMAIN l : Holds(Top.node, x, l[x], LV(Len(calls)), NamedValues)
  BY <1>2, <1>3 DEF FrameTyped
<1> QED
  BY <1>1, <1>3, <1>4, <1>5, <1>6, TypingAdvances

(* Steps that assign a value to a local.                                    *)
LEMMA TypingAssigns ==
    ASSUME Stack, TypingInv, NEW d, Running(d), d \in {"emit", "known"},
           NEW v, Advance(Assign(Top.local, Step.dst, v)),
           Holds(Top.node, Step.dst, v, LV(Len(calls)), NamedValues),
           UNCHANGED <<lValueGen, NamedValues>>
    PROVE  TypingInv'
<1>1. calls # << >> /\ Top.todo # << >> /\ Step.do = d
  BY DEF Running
<1>2. PICK m, f : /\ m \in Nat /\ m = Len(calls) /\ DOMAIN calls = 1 .. m /\ m >= 1
                  /\ f = Top /\ f = calls[m] /\ FrameOK(f) /\ IsList(f.todo)
                  /\ FrameTyped(f, LV(m), NamedValues)
  BY <1>1, TopTyped
<1> m \in Nat
  BY <1>2
<1>3. PICK l, b, lv, names, x : /\ l = Assign(Top.local, Step.dst, v) /\ b = Top.label
                                /\ lv = LV(m) /\ names = NamedValues /\ x = Step.dst
  OBVIOUS
<1>4. Advances /\ calls'[Len(calls)].local = l
  BY <1>3, AdvanceShape
<1>5. \A y \in DOMAIN f.local : Holds(f.node, y, f.local[y], lv, names)
  BY <1>2, <1>3 DEF FrameTyped
<1>6. Holds(f.node, x, v, lv, names) /\ l = Assign(f.local, x, v)
  BY <1>2, <1>3
<1>7. /\ DOMAIN f.local \subseteq DOMAIN l /\ x \in DOMAIN l
      /\ \A y \in DOMAIN l : Holds(f.node, y, l[y], lv, names)
  BY <1>5, <1>6, AssignHolds
<1>8. /\ DOMAIN Top.local \subseteq DOMAIN l
      /\ \A y : Defines(Step, y) => y \in DOMAIN l
      /\ \A y \in DOMAIN l : Holds(Top.node, y, l[y], LV(Len(calls)), NamedValues)
  BY <1>2, <1>3, <1>7 DEF Defines
<1>9. Step.do # "lValueGen"
  BY <1>1
<1> QED
  BY <1>4, <1>8, <1>9, TypingAdvances

(* What the type of an emitted value is.                                    *)
LEMMA OperandTyped ==
    ASSUME Stack, TypingInv, Running("emit"), Step.type = "same"
    PROVE  /\ OperandType = "i64" \/ (OperandType = "i1" /\ OneBitKid(Top.node))
           /\ \E x \in DOMAIN Step.need : Step.need[x] = "same" /\ OperandType = Top.local[x].type
<1>1. calls # << >> /\ Top.todo # << >> /\ Step.do = "emit"
  BY DEF Running
<1>2. PICK m, f : /\ m \in Nat /\ m = Len(calls) /\ DOMAIN calls = 1 .. m /\ m >= 1
                  /\ f = Top /\ f = calls[m] /\ FrameOK(f) /\ IsList(f.todo)
                  /\ FrameTyped(f, LV(m), NamedValues)
  BY <1>1, TopTyped
<1> m \in Nat
  BY <1>2
<1>3. PICK s, lv, names : s = Step /\ s = Head(f.todo) /\ lv = LV(m) /\ names = NamedValues
  BY <1>2 DEF Step
<1>4. f.todo # << >> /\ FrameTyped(f, lv, names) /\ s.do = "emit" /\ s.type = "same"
  BY <1>1, <1>2, <1>3
<1>5. /\ StepTyped(f.node, s, lv, names)
      /\ HasNeeds(s) => \A x \in DOMAIN s.need : x \in DOMAIN f.local
  BY <1>2, <1>3, <1>4, FlagSteps
<1>6. HasNeeds(s)
  BY <1>4 DEF HasNeeds
<1>7. \E x \in DOMAIN s.need : s.need[x] = "same"
  BY <1>4, <1>5 DEF StepTyped
<1>8. PICK x : x = CHOOSE y \in DOMAIN s.need : s.need[y] = "same"
  OBVIOUS
<1>9. x \in DOMAIN s.need /\ s.need[x] = "same"
  BY <1>7, <1>8
<1>10. OperandType = f.local[x].type
  BY <1>2, <1>3, <1>8 DEF OperandType
<1>11. Gets(f.node, x, "same") /\ x \in DOMAIN f.local
  BY <1>5, <1>6, <1>9 DEF StepTyped
<1>12. Kind(f.node, x) = "value" /\ Holds(f.node, x, f.local[x], lv, names)
  BY <1>4, <1>11 DEF Gets, FrameTyped
<1>13. f.local[x].type = "i64" \/ (f.local[x].type = "i1" /\ OneBitKid(f.node))
  BY <1>12 DEF Holds
<1> QED
  BY <1>2, <1>3, <1>9, <1>10, <1>13

LEMMA TypingEmits == ASSUME Stack, TypingInv, EmitInstruction PROVE TypingInv'
<1>1. /\ Running("emit") /\ UNCHANGED <<lValueGen, NamedValues>>
      /\ calls # << >> /\ Top.todo # << >> /\ Step.do = "emit"
  BY DEF EmitInstruction, Running
<1>2. PICK v, r, i : /\ v = [type |-> r, block |-> i] /\ r = ResultType
                     /\ Advance(Assign(Top.local, Step.dst, v))
  BY DEF EmitInstruction
<1>3. PICK m, f : /\ m \in Nat /\ m = Len(calls) /\ DOMAIN calls = 1 .. m /\ m >= 1
                  /\ f = Top /\ f = calls[m] /\ FrameOK(f) /\ IsList(f.todo)
                  /\ FrameTyped(f, LV(m), NamedValues)
  BY <1>1, TopTyped
<1> m \in Nat
  BY <1>3
<1>4. PICK s, lv, names : s = Step /\ s = Head(f.todo) /\ lv = LV(m) /\ names = NamedValues
  BY <1>3 DEF Step
<1>5. f.todo # << >> /\ FrameTyped(f, lv, names) /\ s.do = "emit"
  BY <1>1, <1>3, <1>4
<1>6. StepTyped(f.node, s, lv, names)
  BY <1>3, <1>4, <1>5, FlagSteps
<1>7. Holds(f.node, s.dst, v, lv, names)
  <2>1. CASE s.type = "same"
    <3>1. Kind(f.node, s.dst) = "result" /\ OneBit(f.node) /\ ~lv
      BY <1>5, <1>6, <2>1 DEF StepTyped
    <3>2. r = OperandType
      BY <1>2, <1>4, <2>1 DEF ResultType
    <3>3. r = "i64" \/ r = "i1"
      BY <1>1, <1>4, <2>1, <3>2, OperandTyped
    <3>4. v.type = "i64" \/ (v.type = "i1" /\ OneBit(f.node))
      BY <1>2, <3>1, <3>3
    <3> QED
      BY <3>1, <3>4 DEF Holds
  <2>2. CASE s.type # "same"
    <3>1. \A b : Holds(f.node, s.dst, [type |-> s.type, block |-> b], lv, names)
      BY <1>5, <1>6, <2>2 DEF StepTyped
    <3>2. r = s.type
      BY <1>2, <1>4, <2>2 DEF ResultType
    <3> QED
      BY <1>2, <3>1, <3>2
  <2> QED
    BY <2>1, <2>2
<1>8. Holds(Top.node, Step.dst, v, LV(Len(calls)), NamedValues)
  BY <1>3, <1>4, <1>7
<1> QED
  BY <1>1, <1>2, <1>8, TypingAssigns

LEMMA TypingKnown == ASSUME Stack, TypingInv, UseKnownValue PROVE TypingInv'
<1>1. /\ Running("known") /\ UNCHANGED <<lValueGen, NamedValues>>
      /\ calls # << >> /\ Top.todo # << >> /\ Step.do = "known"
  BY DEF UseKnownValue, Running
<1>2. PICK v : v = Step.value /\ Advance(Assign(Top.local, Step.dst, v))
  BY DEF UseKnownValue
<1>3. PICK m, f : /\ m \in Nat /\ m = Len(calls) /\ DOMAIN calls = 1 .. m /\ m >= 1
                  /\ f = Top /\ f = calls[m] /\ FrameOK(f) /\ IsList(f.todo)
                  /\ FrameTyped(f, LV(m), NamedValues)
  BY <1>1, TopTyped
<1> m \in Nat
  BY <1>3
<1>4. PICK s, lv, names : s = Step /\ s = Head(f.todo) /\ lv = LV(m) /\ names = NamedValues
  BY <1>3 DEF Step
<1>5. f.todo # << >> /\ FrameTyped(f, lv, names) /\ s.do = "known"
  BY <1>1, <1>3, <1>4
<1>6. StepTyped(f.node, s, lv, names)
  BY <1>3, <1>4, <1>5, FlagSteps
<1>7. Holds(f.node, s.dst, v, lv, names)
  BY <1>2, <1>4, <1>5, <1>6 DEF StepTyped
<1>8. Holds(Top.node, Step.dst, v, LV(Len(calls)), NamedValues)
  BY <1>3, <1>4, <1>7
<1> QED
  BY <1>1, <1>2, <1>8, TypingAssigns

(* The steps that change the names of the function are those of a function  *)
(* and of its declarations.                                                 *)
LEMMA OuterStep ==
    ASSUME Stack, TypingInv, NEW d, Running(d), d \in {"local", "enter"}
    PROVE  Top.node.cls \in OuterClasses
<1>1. calls # << >> /\ Top.todo # << >> /\ Step.do = d
  BY DEF Running
<1>2. PICK m, f : /\ m \in Nat /\ m = Len(calls) /\ DOMAIN calls = 1 .. m /\ m >= 1
                  /\ f = Top /\ f = calls[m] /\ FrameOK(f) /\ IsList(f.todo)
                  /\ FrameTyped(f, LV(m), NamedValues)
  BY <1>1, TopTyped
<1> m \in Nat
  BY <1>2
<1>3. PICK s, lv, names : s = Step /\ s = Head(f.todo) /\ lv = LV(m) /\ names = NamedValues
  BY <1>2 DEF Step
<1>4. f.todo # << >> /\ FrameTyped(f, lv, names) /\ s.do \in {"local", "enter"}
  BY <1>1, <1>2, <1>3
<1>5. StepTyped(f.node, s, lv, names)
  BY <1>2, <1>3, <1>4, FlagSteps
<1> QED
  BY <1>2, <1>4, <1>5 DEF StepTyped

LEMMA TypingNames == ASSUME Stack, TypingInv, AddLocal \/ StartFunction PROVE TypingInv'
<1>1. PICK d : Running(d) /\ d \in {"local", "enter"} /\ Advance(Top.local) /\ UNCHANGED lValueGen
  BY DEF AddLocal, StartFunction
<1>2. \A x \in DOMAIN NamedValues' : NamedValues'[x].type = "ptr"
  <2>1. CASE AddLocal
    <3>1. PICK x, b, old, new : /\ old = NamedValues /\ new = NamedValues'
                                /\ new = Assign(old, x, [type |-> "ptr", block |-> b])
      BY <2>1 DEF AddLocal
    <3>2. \A y \in DOMAIN old : old[y].type = "ptr"
      BY <3>1 DEF TypingInv
    <3>3. \A y \in DOMAIN new : new[y].type = "ptr"
      BY <3>1, <3>2 DEF Assign
    <3> QED
      BY <3>1, <3>3
  <2>2. CASE StartFunction
    <3>1. DOMAIN NamedValues' = {}
      BY <2>2 DEF StartFunction
    <3> QED
      BY <3>1
  <2> QED
    BY <2>1, <2>2
<1>3. Top.node.cls \in OuterClasses
  BY <1>1, OuterStep
<1>4. PICK b : b = Top.label
  OBVIOUS
<1>5. d \notin {"codegen", "emit", "known"} /\ d # "lValueGen"
  BY <1>1
<1> QED
  BY <1>1, <1>2, <1>3, <1>4, <1>5, TypingKeeps

LEMMA TypingStep == Stack /\ TypingInv /\ [Next]_vars => TypingInv'
<1> SUFFICES ASSUME Stack, TypingInv, [Next]_vars PROVE TypingInv'
  OBVIOUS
<1>1. CASE CallCodegen
  <2>1. UNCHANGED <<lValueGen, NamedValues>>
    BY <1>1 DEF CallCodegen
  <2> QED
    BY <1>1, <2>1, CallShape, TypingCalls
<1>2. CASE ReturnValue
  <2>1. UNCHANGED <<lValueGen, NamedValues>>
    BY <1>2 DEF ReturnValue
  <2> QED
    BY <1>2, <2>1, ReturnShape, TypingReturns
<1>3. CASE EmitInstruction
  BY <1>3, TypingEmits
<1>4. CASE UseKnownValue
  BY <1>4, TypingKnown
<1>5. CASE AddLocal \/ StartFunction
  BY <1>5, TypingNames
<1>6. ASSUME NEW d, Running(d), d \notin {"codegen", "emit", "known"}, UNCHANGED NamedValues,
             NEW b, (Advance(Top.local) /\ b = Top.label) \/ Relabel(b),
             (d # "lValueGen" /\ UNCHANGED lValueGen) \/ (d = "lValueGen" /\ lValueGen' = Step.to)
      PROVE  TypingInv'
  BY <1>6, TypingKeeps
<1>7. ASSUME NEW d, Running(d), d \notin {"codegen", "emit", "known", "lValueGen"}, Advance(Top.local),
             UNCHANGED <<lValueGen, NamedValues>>
      PROVE  TypingInv'
  <2>1. PICK b : b = Top.label
    OBVIOUS
  <2> QED
    BY <1>6, <1>7, <2>1
<1>8. CASE SetLValueGen
  <2>1. /\ Running("lValueGen") /\ UNCHANGED NamedValues /\ Advance(Top.local) /\ lValueGen' = Step.to
    BY <1>8 DEF SetLValueGen
  <2>2. PICK b : b = Top.label
    OBVIOUS
  <2> QED
    BY <1>6, <2>1, <2>2
<1>9. CASE CreateBlocks
  <2>1. PICK b : b = labelNum'
    OBVIOUS
  <2>2. Running("blocks") /\ Relabel(b) /\ UNCHANGED <<lValueGen, NamedValues>>
    BY <1>9, <2>1 DEF CreateBlocks, Relabel
  <2> QED
    BY <1>6, <2>2
<1>10. CASE SetAllocFlag
  BY <1>7, <1>10 DEF SetAllocFlag
<1>11. CASE EmitStore
  BY <1>7, <1>11 DEF EmitStore
<1>12. CASE PlaceBlock
  BY <1>7, <1>12 DEF PlaceBlock
<1>13. CASE SetInsertPoint
  BY <1>7, <1>13 DEF SetInsertPoint
<1>14. CASE EmitTerminator
  BY <1>7, <1>14 DEF EmitTerminator
<1>15. CASE UNCHANGED vars
  BY <1>15 DEF TypingInv, LinkedFrames, OuterBelow, FlagHasTarget, FlagForTarget, LV, Top, Step, vars
<1>16. CASE Done
  BY <1>15, <1>16 DEF Done
<1> QED
  BY <1>1, <1>2, <1>3, <1>4, <1>5, <1>8, <1>9, <1>10, <1>11, <1>12, <1>13, <1>14, <1>15, <1>16 DEF Next

LEMMA OperandsFollow == AllocInv /\ TypingInv => OperandsFit
<1> SUFFICES ASSUME AllocInv, TypingInv, Appending, NEW x \in DOMAIN Step.need
             PROVE  Fits(Top.local[x], Step.need[x]) \/ OneBitIsUsed(x) \/ FunctionAddressed(x)
  BY DEF OperandsFit
<1>1. Stack /\ calls # << >> /\ Top.todo # << >> /\ Step.do \in {"emit", "store", "terminate"}
  BY DEF AllocInv, Appending, Running
<1>2. PICK m, f : /\ m \in Nat /\ m = Len(calls) /\ DOMAIN calls = 1 .. m /\ m >= 1
                  /\ f = Top /\ f = calls[m] /\ FrameOK(f) /\ IsList(f.todo)
                  /\ FrameTyped(f, LV(m), NamedValues)
  BY <1>1, TopTyped
<1> m \in Nat
  BY <1>2
<1>3. PICK s, lv, names : s = Step /\ s = Head(f.todo) /\ lv = LV(m) /\ names = NamedValues
  BY <1>2 DEF Step
<1>4. f.todo # << >> /\ FrameTyped(f, lv, names) /\ HasNeeds(s)
  BY <1>1, <1>2, <1>3 DEF HasNeeds
<1>5. StepTyped(f.node, s, lv, names) /\ x \in DOMAIN f.local
  BY <1>2, <1>3, <1>4, FlagSteps
<1>6. PICK v, t : v = f.local[x] /\ v = Top.local[x] /\ t = s.need[x] /\ t = Step.need[x]
  BY <1>2, <1>3
<1>7. Holds(f.node, x, v, lv, names) /\ Gets(f.node, x, t)
  BY <1>3, <1>4, <1>5, <1>6 DEF FrameTyped, StepTyped
<1>8. OneBitKid(f.node) <=> \E i \in DOMAIN Top.node.kids : OneBit(Top.node.kids[i])
  BY <1>2 DEF OneBitKid
<1>9. CASE Kind(f.node, x) = "target"
  <2>1. t = "ptr" /\ x \in {"lValue", "iterator"}
    BY <1>7, <1>9 DEF Gets, Kind
  <2>2. v.type = "ptr" \/ (v = ConstantInt /\ IsFunctionName(f.node.kids[1], names))
    BY <1>7, <1>9 DEF Holds
  <2>3. IsFunctionName(f.node.kids[1], names) => NamesFunction(Top.node.kids[1])
    BY <1>2, <1>3 DEF IsFunctionName, NamesFunction
  <2> QED
    BY <1>6, <2>1, <2>2, <2>3 DEF Fits, FunctionAddressed
<1>10. CASE Kind(f.node, x) \in {"pointer", "word", "bit"}
  <2>1. Fits(v, t)
    BY <1>7, <1>10 DEF Gets, Holds, Fits
  <2> QED
    BY <1>6, <2>1
<1>11. CASE Kind(f.node, x) = "value"
  <2>1. v.type = "i64" \/ (v.type = "i1" /\ OneBitKid(f.node))
    BY <1>7, <1>11 DEF Holds
  <2>2. t \in {"i64", "int", "same"}
    BY <1>7, <1>11 DEF Gets
  <2>3. CASE t \in {"i64", "int"}
    BY <1>6, <1>8, <2>1, <2>3 DEF Fits, OneBitIsUsed
  <2>4. CASE t = "same"
    <3>1. PICK y : y = CHOOSE z \in DOMAIN s.need : s.need[z] = "same"
      OBVIOUS
    <3>2. y \in DOMAIN s.need /\ s.need[y] = "same"
      BY <1>3, <1>6, <2>4, <3>1
    <3>3. PICK w : w = f.local[y] /\ w = Top.local[y] /\ OperandType = w.type
      BY <1>2, <1>3, <3>1 DEF OperandType
    <3>4. Gets(f.node, y, "same") /\ y \in DOMAIN f.local
      <4>1. HasNeeds(s) => \A z \in DOMAIN s.need : z \in DOMAIN f.local
        BY <1>2, <1>3, <1>4, FlagSteps
      <4> QED
        BY <1>4, <1>5, <3>2, <4>1 DEF StepTyped
    <3>5. w.type = "i64" \/ (w.type = "i1" /\ OneBitKid(f.node))
      BY <1>4, <3>3, <3>4 DEF Gets, FrameTyped, Holds
    <3>6. CASE w.type = v.type
      BY <1>6, <2>1, <2>4, <3>3, <3>6 DEF Fits
    <3>7. CASE w.type # v.type
      <4>1. OneBitKid(f.node) /\ (v.type = "i1" \/ w.type = "i1")
        BY <2>1, <3>5, <3>7
      <4>2. \E z \in DOMAIN Step.need : Step.need[z] = "same" /\ Top.local[z].type = "i1"
        BY <1>3, <1>6, <2>4, <3>2, <3>3, <4>1
      <4> QED
        BY <1>6, <1>8, <2>4, <4>1, <4>2 DEF OneBitIsUsed
    <3> QED
      BY <3>6, <3>7
  <2> QED
    BY <2>2, <2>3, <2>4
<1>12. Kind(f.node, x) \in {"target", "pointer", "word", "bit", "value"}
  BY <1>7 DEF Gets
<1> QED
  BY <1>9, <1>10, <1>11, <1>12

(* Whatever the program, every instruction that is appended gets operands of *)
(* the types it needs, with the two exceptions that OperandsFit names: what  *)
(* codegen() returns is an address exactly if lValueGen was set when it was  *)
(* called (CodeGenFunctions.cpp), a word or a bit otherwise, and the local   *)
(* an operand is read from was assigned before.                             *)
THEOREM Operands == Spec => []OperandsFit
<1>1. Spec => []AllocInv
  BY AllocInit, AllocStep, PTL DEF Spec
<1>2. AllocInv => Stack
  BY DEF AllocInv
<1>3. Spec => []TypingInv
  BY <1>1, <1>2, TypingInit, TypingStep, PTL DEF Spec
<1> QED
  BY <1>1, <1>3, OperandsFollow, PTL
=============================================================================
