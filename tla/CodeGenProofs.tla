-------------------------- MODULE CodeGenProofs ---------------------------
(***************************************************************************)
(* Proofs about code generation, for every syntax tree of the grammar.     *)
(*                                                                         *)
(* allocFlag is a global that the codegen() of an alloc sets before the    *)
(* codegen() of its argument and resets after it, and that ASTRecordExpr's *)
(* codegen() reads.  It is one flag for any depth of nesting: an alloc     *)
(* within the argument of another resets it for both.  The invariant says  *)
(* who may have set it, from what is left to do in the frames of the       *)
(* stack: an alloc that is past its first step and not yet past its third. *)
(* That needs to know of every class of node that its list of steps does   *)
(* not write the flag, and that what it asks codegen() for are nodes.      *)
(***************************************************************************)
EXTENDS CodeGen, SequenceTheorems, TLAPS

(* Lists: sequences, of whatever elements.                                  *)
IsList(s) == s \in Seq({s[i] : i \in DOMAIN s})

LEMMA AnyList == ASSUME NEW T, NEW s \in Seq(T) PROVE IsList(s)
<1>1. Len(s) \in Nat /\ DOMAIN s = 1 .. Len(s)
  OBVIOUS
<1>2. s \in [1 .. Len(s) -> {s[i] : i \in DOMAIN s}]
  BY <1>1
<1> QED
  BY <1>1, <1>2, SeqDef DEF IsList

LEMMA FunctionList ==
    ASSUME NEW m \in Nat, NEW s, DOMAIN s = 1 .. m, s = [i \in 1 .. m |-> s[i]]
    PROVE  IsList(s) /\ Len(s) = m
<1>1. s \in [1 .. m -> {s[i] : i \in DOMAIN s}]
  OBVIOUS
<1>2. s \in Seq({s[i] : i \in DOMAIN s})
  BY <1>1, SeqDef
<1> QED
  BY <1>2 DEF IsList

LEMMA ListFacts ==
    ASSUME NEW s, IsList(s)
    PROVE  /\ Len(s) \in Nat /\ DOMAIN s = 1 .. Len(s)
           /\ s # << >> => Len(s) >= 1 /\ Head(s) = s[1]
           /\ s = << >> => Len(s) = 0
           /\ Len(s) = 0 => s = << >>
BY EmptySeq DEF IsList

LEMMA TailList ==
    ASSUME NEW s, IsList(s), s # << >>
    PROVE  /\ IsList(Tail(s)) /\ Len(Tail(s)) = Len(s) - 1
           /\ \A i \in 1 .. Len(s) - 1 : Tail(s)[i] = s[i + 1]
           /\ \A i \in DOMAIN Tail(s) : i + 1 \in DOMAIN s /\ Tail(s)[i] = s[i + 1]
<1> DEFINE T == {s[i] : i \in DOMAIN s}
<1>1. s \in Seq(T) /\ s # << >>
  BY DEF IsList
<1>2. /\ Tail(s) \in Seq(T) /\ Len(Tail(s)) = Len(s) - 1
      /\ \A i \in 1 .. Len(s) - 1 : Tail(s)[i] = s[i + 1]
  BY <1>1, HeadTailProperties
<1>3. Len(s) \in Nat /\ DOMAIN s = 1 .. Len(s) /\ DOMAIN Tail(s) = 1 .. Len(Tail(s))
  BY <1>1, <1>2
<1>4. IsList(Tail(s))
  BY <1>2, AnyList
<1>5. \A i \in DOMAIN Tail(s) : i + 1 \in DOMAIN s /\ Tail(s)[i] = s[i + 1]
  BY <1>2, <1>3
<1> QED
  BY <1>2, <1>4, <1>5

LEMMA ConcatList ==
    ASSUME NEW s, NEW t, IsList(s), IsList(t)
    PROVE  /\ IsList(s \o t) /\ Len(s \o t) = Len(s) + Len(t)
           /\ \A i \in 1 .. Len(s) : (s \o t)[i] = s[i]
           /\ \A i \in 1 .. Len(t) : (s \o t)[Len(s) + i] = t[i]
           /\ \A i \in DOMAIN (s \o t) :
                 \/ i \in DOMAIN s /\ (s \o t)[i] = s[i]
                 \/ i - Len(s) \in DOMAIN t /\ (s \o t)[i] = t[i - Len(s)]
<1> DEFINE T == {s[i] : i \in DOMAIN s} \cup {t[i] : i \in DOMAIN t}
<1>1. s \in Seq(T) /\ t \in Seq(T)
  <2>1. Len(s) \in Nat /\ DOMAIN s = 1 .. Len(s) /\ Len(t) \in Nat /\ DOMAIN t = 1 .. Len(t)
    BY ListFacts
  <2>2. s \in Seq({s[i] : i \in DOMAIN s}) /\ t \in Seq({t[i] : i \in DOMAIN t})
    BY DEF IsList
  <2>3. s = [i \in 1 .. Len(s) |-> s[i]] /\ t = [i \in 1 .. Len(t) |-> t[i]]
    BY <2>2
  <2>4. \A i \in 1 .. Len(s) : s[i] \in T
    BY <2>1
  <2>5. \A i \in 1 .. Len(t) : t[i] \in T
    BY <2>1
  <2> HIDE DEF T
  <2>6. s \in [1 .. Len(s) -> T] /\ t \in [1 .. Len(t) -> T]
    BY <2>3, <2>4, <2>5
  <2> QED
    BY <2>1, <2>6, SeqDef
<1>2. /\ s \o t \in Seq(T) /\ Len(s \o t) = Len(s) + Len(t)
      /\ \A i \in 1 .. Len(s) + Len(t) : (s \o t)[i] = IF i <= Len(s) THEN s[i] ELSE t[i - Len(s)]
  BY <1>1, ConcatProperties
<1>3. Len(s) \in Nat /\ Len(t) \in Nat /\ DOMAIN s = 1 .. Len(s) /\ DOMAIN t = 1 .. Len(t)
  BY <1>1
<1>4. IsList(s \o t) /\ DOMAIN (s \o t) = 1 .. Len(s) + Len(t)
  BY <1>2, AnyList, ListFacts
<1> HIDE DEF T
<1>5. ASSUME NEW i \in 1 .. Len(t) PROVE (s \o t)[Len(s) + i] = t[i]
  <2>1. Len(s) + i \in 1 .. Len(s) + Len(t) /\ ~(Len(s) + i <= Len(s)) /\ (Len(s) + i) - Len(s) = i
    BY <1>3
  <2> QED
    BY <1>2, <2>1
<1>6. ASSUME NEW i \in 1 .. Len(s) PROVE (s \o t)[i] = s[i]
  BY <1>2, <1>3
<1>7. ASSUME NEW i \in DOMAIN (s \o t)
      PROVE  \/ i \in DOMAIN s /\ (s \o t)[i] = s[i]
             \/ i - Len(s) \in DOMAIN t /\ (s \o t)[i] = t[i - Len(s)]
  BY <1>2, <1>3, <1>4
<1> QED
  BY <1>2, <1>4, <1>5, <1>6, <1>7

-----------------------------------------------------------------------------
(* Lists of steps for a node of m children, without the steps of set T.     *)
Special == {"allocFlag", "blocks", "place", "at", "terminate", "enter"}
Ordinary(e, m, T) == e.do \notin T /\ (e.do = "codegen" => e.child \in 1 .. m)
Plain(s, m, T) == IsList(s) /\ \A i \in DOMAIN s : Ordinary(s[i], m, T)

LEMMA PlainConcat ==
    ASSUME NEW m, NEW T, NEW s, NEW t, Plain(s, m, T), Plain(t, m, T)
    PROVE  Plain(s \o t, m, T)
<1>1. /\ IsList(s \o t)
      /\ \A i \in DOMAIN (s \o t) :
            \/ i \in DOMAIN s /\ (s \o t)[i] = s[i]
            \/ i - Len(s) \in DOMAIN t /\ (s \o t)[i] = t[i - Len(s)]
  BY ConcatList DEF Plain
<1>2. \A i \in DOMAIN s : Ordinary(s[i], m, T)
  BY DEF Plain
<1>3. \A i \in DOMAIN t : Ordinary(t[i], m, T)
  BY DEF Plain
<1>4. ASSUME NEW i \in DOMAIN (s \o t) PROVE Ordinary((s \o t)[i], m, T)
  BY <1>1, <1>2, <1>3
<1> QED
  BY <1>1, <1>4 DEF Plain

LEMMA PlainOne == ASSUME NEW m, NEW T, NEW e, Ordinary(e, m, T) PROVE Plain(<<e>>, m, T)
<1>1. <<e>> \in Seq({e})
  OBVIOUS
<1>2. IsList(<<e>>)
  BY <1>1, AnyList
<1>3. \A i \in DOMAIN <<e>> : Ordinary(<<e>>[i], m, T)
  OBVIOUS
<1> QED
  BY <1>2, <1>3 DEF Plain

LEMMA PlainTwo ==
    ASSUME NEW m, NEW T, NEW e, NEW f, Ordinary(e, m, T), Ordinary(f, m, T)
    PROVE  Plain(<<e, f>>, m, T)
<1>1. <<e, f>> \in Seq({e, f})
  OBVIOUS
<1>2. IsList(<<e, f>>)
  BY <1>1, AnyList
<1>3. \A i \in DOMAIN <<e, f>> : Ordinary(<<e, f>>[i], m, T)
  OBVIOUS
<1> QED
  BY <1>2, <1>3 DEF Plain

LEMMA PlainEmpty == ASSUME NEW m, NEW T PROVE Plain(<< >>, m, T)
<1>1. << >> \in Seq({})
  OBVIOUS
<1>2. IsList(<< >>)
  BY <1>1, AnyList
<1>3. \A i \in DOMAIN << >> : Ordinary(<< >>[i], m, T)
  OBVIOUS
<1> QED
  BY <1>2, <1>3 DEF Plain

LEMMA PlainFunction ==
    ASSUME NEW m, NEW T, NEW l \in Nat, NEW s, DOMAIN s = 1 .. l, s = [i \in 1 .. l |-> s[i]],
           \A i \in 1 .. l : Ordinary(s[i], m, T)
    PROVE  Plain(s, m, T)
BY FunctionList DEF Plain

(* A list made of three steps for each child: ASTRecordExpr, ASTArrayExpr.  *)
LEMMA PlainThrees ==
    ASSUME NEW m, NEW T, NEW ss, IsList(ss),
           \A i \in DOMAIN ss : \A k \in 1 .. 3 : Ordinary(ss[i][k], m, T)
    PROVE  Plain(Threes(ss), m, T)
<1>1. Len(ss) \in Nat /\ DOMAIN ss = 1 .. Len(ss) /\ 3 * Len(ss) \in Nat
  BY ListFacts
<1>2. ASSUME NEW j \in 1 .. 3 * Len(ss)
      PROVE  (j + 2) \div 3 \in 1 .. Len(ss) /\ ((j + 2) % 3) + 1 \in 1 .. 3
  BY <1>1
<1>3. DOMAIN Threes(ss) = 1 .. 3 * Len(ss)
      /\ \A j \in 1 .. 3 * Len(ss) : Threes(ss)[j] = ss[(j + 2) \div 3][((j + 2) % 3) + 1]
  BY DEF Threes
<1>4. \A j \in 1 .. 3 * Len(ss) : Ordinary(Threes(ss)[j], m, T)
  BY <1>1, <1>2, <1>3
<1>5. Threes(ss) = [j \in 1 .. 3 * Len(ss) |-> Threes(ss)[j]]
  BY DEF Threes
<1> QED
  BY <1>1, <1>3, <1>4, <1>5, PlainFunction

(* The codegen()s that make no basic block.                                 *)
LEMMA PlainTuples ==
    ASSUME NEW n, NEW m \in Nat, NEW T \in SUBSET Special
    PROVE  /\ m >= 0 => Plain(ASTNumberExpr, m, T)
           /\ m >= 2 => Plain(ASTBinaryExpr(n), m, T)
           /\ m >= 2 => Plain(ASTAndExpr, m, T)
           /\ m >= 2 => Plain(ASTOrExpr, m, T)
           /\ m >= 1 => Plain(ASTNotExpr, m, T)
           /\ m >= 1 => Plain(ASTNegationExpr, m, T)
           /\ m >= 3 => Plain(ASTTernaryExpr, m, T)
           /\ m >= 0 => Plain(ASTInputExpr, m, T)
           /\ m >= 1 => Plain(ASTRefExpr, m, T)
           /\ m >= 1 => Plain(ASTArrayLengthExpr, m, T)
           /\ m >= 2 => Plain(ASTAssignStmt, m, T)
           /\ m >= 1 => Plain(ASTIncrementStmt, m, T)
           /\ m >= 1 => Plain(ASTOutputStmt, m, T)
<1>1. ASSUME m >= 0 PROVE Plain(ASTNumberExpr, m, T)
  <2>1. /\ DOMAIN ASTNumberExpr = 1 .. 1 /\ ASTNumberExpr = [i \in 1 .. 1 |-> ASTNumberExpr[i]]
        /\ \A i \in 1 .. 1 : Ordinary(ASTNumberExpr[i], m, T)
    BY <1>1 DEF ASTNumberExpr, Known, Special, Ordinary
  <2> QED
    BY <2>1, PlainFunction
<1>2. ASSUME m >= 2 PROVE Plain(ASTBinaryExpr(n), m, T)
  <2>1. /\ DOMAIN ASTBinaryExpr(n) = 1 .. 3 /\ ASTBinaryExpr(n) = [i \in 1 .. 3 |-> ASTBinaryExpr(n)[i]]
        /\ \A i \in 1 .. 3 : Ordinary(ASTBinaryExpr(n)[i], m, T)
    BY <1>2 DEF ASTBinaryExpr, Gen, Emit, Special, Ordinary
  <2> QED
    BY <2>1, PlainFunction
<1>3. ASSUME m >= 2 PROVE Plain(ASTAndExpr, m, T)
  <2>1. /\ DOMAIN ASTAndExpr = 1 .. 5 /\ ASTAndExpr = [i \in 1 .. 5 |-> ASTAndExpr[i]]
        /\ \A i \in 1 .. 5 : Ordinary(ASTAndExpr[i], m, T)
    BY <1>3 DEF ASTAndExpr, Gen, Emit, Special, Ordinary
  <2> QED
    BY <2>1, PlainFunction
<1>4. ASSUME m >= 2 PROVE Plain(ASTOrExpr, m, T)
  <2>1. /\ DOMAIN ASTOrExpr = 1 .. 7 /\ ASTOrExpr = [i \in 1 .. 7 |-> ASTOrExpr[i]]
        /\ \A i \in 1 .. 7 : Ordinary(ASTOrExpr[i], m, T)
    BY <1>4 DEF ASTOrExpr, Gen, Emit, Special, Ordinary
  <2> QED
    BY <2>1, PlainFunction
<1>5. ASSUME m >= 1 PROVE Plain(ASTNotExpr, m, T)
  <2>1. /\ DOMAIN ASTNotExpr = 1 .. 4 /\ ASTNotExpr = [i \in 1 .. 4 |-> ASTNotExpr[i]]
        /\ \A i \in 1 .. 4 : Ordinary(ASTNotExpr[i], m, T)
    BY <1>5 DEF ASTNotExpr, Gen, Emit, Special, Ordinary
  <2> QED
    BY <2>1, PlainFunction
<1>6. ASSUME m >= 1 PROVE Plain(ASTNegationExpr, m, T)
  <2>1. /\ DOMAIN ASTNegationExpr = 1 .. 2 /\ ASTNegationExpr = [i \in 1 .. 2 |-> ASTNegationExpr[i]]
        /\ \A i \in 1 .. 2 : Ordinary(ASTNegationExpr[i], m, T)
    BY <1>6 DEF ASTNegationExpr, Gen, Emit, Special, Ordinary
  <2> QED
    BY <2>1, PlainFunction
<1>7. ASSUME m >= 3 PROVE Plain(ASTTernaryExpr, m, T)
  <2>1. /\ DOMAIN ASTTernaryExpr = 1 .. 5 /\ ASTTernaryExpr = [i \in 1 .. 5 |-> ASTTernaryExpr[i]]
        /\ \A i \in 1 .. 5 : Ordinary(ASTTernaryExpr[i], m, T)
    BY <1>7 DEF ASTTernaryExpr, Gen, Emit, Special, Ordinary
  <2> QED
    BY <2>1, PlainFunction
<1>8. ASSUME m >= 0 PROVE Plain(ASTInputExpr, m, T)
  <2>1. /\ DOMAIN ASTInputExpr = 1 .. 1 /\ ASTInputExpr = [i \in 1 .. 1 |-> ASTInputExpr[i]]
        /\ \A i \in 1 .. 1 : Ordinary(ASTInputExpr[i], m, T)
    BY <1>8 DEF ASTInputExpr, Emit, Special, Ordinary
  <2> QED
    BY <2>1, PlainFunction
<1>9. ASSUME m >= 1 PROVE Plain(ASTRefExpr, m, T)
  <2>1. /\ DOMAIN ASTRefExpr = 1 .. 4 /\ ASTRefExpr = [i \in 1 .. 4 |-> ASTRefExpr[i]]
        /\ \A i \in 1 .. 4 : Ordinary(ASTRefExpr[i], m, T)
    BY <1>9 DEF ASTRefExpr, Gen, Emit, lValueFlag, Special, Ordinary
  <2> QED
    BY <2>1, PlainFunction
<1>10. ASSUME m >= 1 PROVE Plain(ASTArrayLengthExpr, m, T)
  <2>1. /\ DOMAIN ASTArrayLengthExpr = 1 .. 3 /\ ASTArrayLengthExpr = [i \in 1 .. 3 |-> ASTArrayLengthExpr[i]]
        /\ \A i \in 1 .. 3 : Ordinary(ASTArrayLengthExpr[i], m, T)
    BY <1>10 DEF ASTArrayLengthExpr, Gen, Emit, Special, Ordinary
  <2> QED
    BY <2>1, PlainFunction
<1>11. ASSUME m >= 2 PROVE Plain(ASTAssignStmt, m, T)
  <2>1. /\ DOMAIN ASTAssignStmt = 1 .. 6 /\ ASTAssignStmt = [i \in 1 .. 6 |-> ASTAssignStmt[i]]
        /\ \A i \in 1 .. 6 : Ordinary(ASTAssignStmt[i], m, T)
    BY <1>11 DEF ASTAssignStmt, Gen, lValueFlag, Store, Known, Special, Ordinary
  <2> QED
    BY <2>1, PlainFunction
<1>12. ASSUME m >= 1 PROVE Plain(ASTIncrementStmt, m, T)
  <2>1. /\ DOMAIN ASTIncrementStmt = 1 .. 7 /\ ASTIncrementStmt = [i \in 1 .. 7 |-> ASTIncrementStmt[i]]
        /\ \A i \in 1 .. 7 : Ordinary(ASTIncrementStmt[i], m, T)
    BY <1>12 DEF ASTIncrementStmt, Gen, Emit, lValueFlag, Store, Known, Special, Ordinary
  <2> QED
    BY <2>1, PlainFunction
<1>13. ASSUME m >= 1 PROVE Plain(ASTOutputStmt, m, T)
  <2>1. /\ DOMAIN ASTOutputStmt = 1 .. 2 /\ ASTOutputStmt = [i \in 1 .. 2 |-> ASTOutputStmt[i]]
        /\ \A i \in 1 .. 2 : Ordinary(ASTOutputStmt[i], m, T)
    BY <1>13 DEF ASTOutputStmt, Gen, Emit, Special, Ordinary
  <2> QED
    BY <2>1, PlainFunction
<1> QED
  BY <1>1, <1>2, <1>3, <1>4, <1>5, <1>6, <1>7, <1>8, <1>9, <1>10, <1>11, <1>12, <1>13

LEMMA PlainGenAll ==
    ASSUME NEW n, NEW dst, Len(n.kids) \in Nat, NEW T \in SUBSET Special
    PROVE  Plain(GenAll(n, dst), Len(n.kids), T)
<1>1. PICK m \in Nat : m = Len(n.kids)
  OBVIOUS
<1>2. /\ DOMAIN GenAll(n, dst) = 1 .. m /\ GenAll(n, dst) = [i \in 1 .. m |-> GenAll(n, dst)[i]]
      /\ \A i \in 1 .. m : Ordinary(GenAll(n, dst)[i], Len(n.kids), T)
  BY <1>1 DEF GenAll, Gen, Special, Ordinary
<1> QED
  BY <1>2, PlainFunction

LEMMA PlainLists ==
    ASSUME NEW n, NEW b, NEW names, Len(n.kids) \in Nat, Len(n.names) \in Nat, NEW T \in SUBSET Special
    PROVE  /\ Plain(ASTProgram(n), Len(n.kids), T) /\ Plain(ASTDeclStmt(n), Len(n.kids), T)
           /\ Plain(ASTVariableExpr(n, b, names), Len(n.kids), T)
           /\ Len(n.kids) > 0 => /\ Plain(ASTFunAppExpr(n), Len(n.kids), T)
                                 /\ Plain(ASTDeRefExpr(b), Len(n.kids), T)
                                 /\ Plain(ASTAccessExpr(b), Len(n.kids), T)
           /\ Plain(ASTRecordExpr(n, b), Len(n.kids), T)
           /\ Plain(ASTArrayExpr(n), Len(n.kids), T)
           /\ Plain(ASTBlockStmt(n), Len(n.kids), T)
<1>a. PICK k \in Nat : k = Len(n.kids)
  OBVIOUS
<1>b. Plain(<<Known("result", ConstantInt)>>, Len(n.kids), T)
  BY PlainOne DEF Known, Special, Ordinary
<1>1. Plain(ASTProgram(n), Len(n.kids), T)
  <2>1. Plain(GenAll(n, "function"), Len(n.kids), T)
    BY PlainGenAll
  <2> QED
    BY <1>b, <2>1, PlainConcat DEF ASTProgram
<1>2. Plain(ASTDeclStmt(n), Len(n.kids), T)
  <2> DEFINE s == [i \in 1 .. Len(n.names) |-> Local(n.names[i])]
  <2>1. DOMAIN s = 1 .. Len(n.names) /\ s = [i \in 1 .. Len(n.names) |-> s[i]]
        /\ \A i \in 1 .. Len(n.names) : Ordinary(s[i], Len(n.kids), T)
    BY DEF Local, Special, Ordinary
  <2>2. Plain(s, Len(n.kids), T)
    BY <2>1, PlainFunction
  <2> QED
    BY <1>b, <2>2, PlainConcat DEF ASTDeclStmt
<1>3. Plain(ASTVariableExpr(n, b, names), Len(n.kids), T)
  <2>1. Plain(<<Known("result", names[n.names[1]])>>, Len(n.kids), T)
    BY PlainOne DEF Known, Special, Ordinary
  <2>2. Plain(<<Known("alloca", names[n.names[1]]), Emit("result", "i64", [alloca |-> "ptr"])>>,
              Len(n.kids), T)
    BY PlainTwo DEF Known, Emit, Special, Ordinary
  <2> QED
    BY <1>b, <2>1, <2>2 DEF ASTVariableExpr
<1>4. ASSUME Len(n.kids) > 0 PROVE Plain(ASTFunAppExpr(n), Len(n.kids), T)
  <2> DEFINE s == <<Gen(1, "funVal"), Emit("gep", "ptr", [funVal |-> "i64"]),
                    Emit("castFunPtr", "ptr", [gep |-> "ptr"])>>
             t == <<Emit("result", "i64",
                      [x \in {"castFunPtr"} \cup {Actual[i] : i \in 1..(Len(n.kids) - 1)} |->
                         IF x = "castFunPtr" THEN "ptr" ELSE "i64"])>>
  <2>1. DOMAIN s = 1 .. 3 /\ s = [i \in 1 .. 3 |-> s[i]] /\ \A i \in 1 .. 3 : Ordinary(s[i], Len(n.kids), T)
    BY <1>4 DEF Gen, Emit, Special, Ordinary
  <2>2. Plain(s, Len(n.kids), T)
    BY <2>1, PlainFunction
  <2>3. Plain(t, Len(n.kids), T)
    BY PlainOne DEF Emit, Special, Ordinary
  <2> DEFINE g == [i \in 1..(Len(n.kids) - 1) |-> Gen(i + 1, Actual[i])]
  <2>4. Plain(g, Len(n.kids), T)
    <3>1. PICK l \in Nat : l = Len(n.kids) - 1 /\ \A i \in 1 .. l : i + 1 \in 1 .. Len(n.kids)
      <4>1. Len(n.kids) - 1 \in Nat
        BY <1>4
      <4> QED
        BY <4>1
    <3>2. /\ DOMAIN g = 1 .. l /\ g = [i \in 1 .. l |-> g[i]]
          /\ \A i \in 1 .. l : Ordinary(g[i], Len(n.kids), T)
      BY <3>1 DEF Gen, Special, Ordinary
    <3> QED
      BY <3>2, PlainFunction
  <2>5. ASTFunAppExpr(n) = s \o g \o t
    BY DEF ASTFunAppExpr
  <2> HIDE DEF s, t, g
  <2> QED
    BY <2>2, <2>3, <2>4, <2>5, PlainConcat
<1>5. Plain(IF b THEN <<lValueFlag(FALSE)>> ELSE << >>, Len(n.kids), T)
  <2>1. Plain(<<lValueFlag(FALSE)>>, Len(n.kids), T)
    BY PlainOne DEF lValueFlag, Special, Ordinary
  <2> QED
    BY <2>1, PlainEmpty
<1>6. ASSUME Len(n.kids) > 0 PROVE Plain(ASTDeRefExpr(b), Len(n.kids), T)
  <2> DEFINE s == <<Gen(1, "argVal"), Emit("address", "ptr", [argVal |-> "i64"]),
                    IF b THEN Emit("result", "ptr", [address |-> "ptr"])
                         ELSE Emit("result", "i64", [address |-> "ptr"])>>
  <2>1. DOMAIN s = 1 .. 3 /\ s = [i \in 1 .. 3 |-> s[i]] /\ \A i \in 1 .. 3 : Ordinary(s[i], Len(n.kids), T)
    BY <1>6 DEF Gen, Emit, Special, Ordinary
  <2>2. Plain(s, Len(n.kids), T)
    BY <2>1, PlainFunction
  <2>3. ASTDeRefExpr(b) = (IF b THEN <<lValueFlag(FALSE)>> ELSE << >>) \o s
    BY DEF ASTDeRefExpr
  <2> HIDE DEF s
  <2> QED
    BY <1>5, <2>2, <2>3, PlainConcat
<1>7. ASSUME Len(n.kids) > 0 PROVE Plain(ASTAccessExpr(b), Len(n.kids), T)
  <2> DEFINE s == <<Gen(1, "recordVal"), Emit("recordAddress", "ptr", [recordVal |-> "i64"]),
                    IF b THEN Emit("result", "ptr", [recordAddress |-> "ptr"])
                         ELSE Emit("result", "i64", [recordAddress |-> "ptr"])>>
  <2>1. DOMAIN s = 1 .. 3 /\ s = [i \in 1 .. 3 |-> s[i]] /\ \A i \in 1 .. 3 : Ordinary(s[i], Len(n.kids), T)
    BY <1>7 DEF Gen, Emit, Special, Ordinary
  <2>2. Plain(s, Len(n.kids), T)
    BY <2>1, PlainFunction
  <2>3. ASTAccessExpr(b) = (IF b THEN <<lValueFlag(FALSE)>> ELSE << >>) \o s
    BY DEF ASTAccessExpr
  <2> HIDE DEF s
  <2> QED
    BY <1>5, <2>2, <2>3, PlainConcat
<1>8. Plain(ASTRecordExpr(n, b), Len(n.kids), T)
  <2> DEFINE s == IF b THEN <<Emit("calloc", "ptr", NoOperands), Emit("record", "ptr", [calloc |-> "ptr"])>>
                       ELSE <<Emit("record", "ptr", NoOperands)>>
             f == [i \in 1..Len(n.kids) |->
                     <<Emit("gep", "ptr", [record |-> "ptr"]), Gen(i, "value"), Store("value", "gep")>>]
             t == <<Emit("result", "i64", [record |-> "ptr"])>>
  <2>1. Plain(s, Len(n.kids), T)
    <3>1. Plain(<<Emit("calloc", "ptr", NoOperands), Emit("record", "ptr", [calloc |-> "ptr"])>>,
                Len(n.kids), T)
      BY PlainTwo DEF Emit, Special, Ordinary
    <3>2. Plain(<<Emit("record", "ptr", NoOperands)>>, Len(n.kids), T)
      BY PlainOne DEF Emit, Special, Ordinary
    <3> QED
      BY <3>1, <3>2
  <2>2. Plain(t, Len(n.kids), T)
    BY PlainOne DEF Emit, Special, Ordinary
  <2>3. DOMAIN f = 1 .. k /\ f = [i \in 1 .. k |-> f[i]]
        /\ \A i \in 1 .. k : /\ Ordinary(f[i][1], Len(n.kids), T) /\ Ordinary(f[i][2], Len(n.kids), T)
                               /\ Ordinary(f[i][3], Len(n.kids), T)
    BY <1>a DEF Emit, Gen, Store, Special, Ordinary
  <2>4. ASTRecordExpr(n, b) = s \o Threes(f) \o t
    BY DEF ASTRecordExpr
  <2> HIDE DEF s, f, t
  <2>5. Plain(Threes(f), Len(n.kids), T)
    <3>1. \A i \in 1 .. k : \A j \in 1 .. 3 : Ordinary(f[i][j], Len(n.kids), T)
      BY <2>3
    <3>2. IsList(f)
      BY <2>3, FunctionList
    <3> QED
      BY <2>3, <3>1, <3>2, PlainThrees
  <2> QED
    BY <2>1, <2>2, <2>4, <2>5, PlainConcat
<1>9. Plain(ASTArrayExpr(n), Len(n.kids), T)
  <2> DEFINE s == <<Emit("castPtr", "ptr", NoOperands), Known("entryCount", ConstantInt),
                    Store("entryCount", "castPtr")>>
             f == [i \in 1..Len(n.kids) |->
                     <<Gen(i, "entry"), Emit("storePtr", "ptr", [castPtr |-> "ptr"]),
                       Store("entry", "storePtr")>>]
             t == <<Emit("result", "i64", [castPtr |-> "ptr"])>>
  <2>1. DOMAIN s = 1 .. 3 /\ s = [i \in 1 .. 3 |-> s[i]] /\ \A i \in 1 .. 3 : Ordinary(s[i], Len(n.kids), T)
    BY DEF Known, Emit, Store, Special, Ordinary
  <2>2. Plain(t, Len(n.kids), T)
    BY PlainOne DEF Emit, Special, Ordinary
  <2>3. DOMAIN f = 1 .. k /\ f = [i \in 1 .. k |-> f[i]]
        /\ \A i \in 1 .. k : /\ Ordinary(f[i][1], Len(n.kids), T) /\ Ordinary(f[i][2], Len(n.kids), T)
                               /\ Ordinary(f[i][3], Len(n.kids), T)
    BY <1>a DEF Emit, Gen, Store, Special, Ordinary
  <2>4. ASTArrayExpr(n) = s \o Threes(f) \o t
    BY DEF ASTArrayExpr
  <2> HIDE DEF s, f, t
  <2>5. Plain(s, Len(n.kids), T)
    BY <2>1, PlainFunction
  <2>6. Plain(Threes(f), Len(n.kids), T)
    <3>1. \A i \in 1 .. k : \A j \in 1 .. 3 : Ordinary(f[i][j], Len(n.kids), T)
      BY <2>3
    <3>2. IsList(f)
      BY <2>3, FunctionList
    <3> QED
      BY <2>3, <3>1, <3>2, PlainThrees
  <2> QED
    BY <2>2, <2>4, <2>5, <2>6, PlainConcat
<1>10. Plain(ASTBlockStmt(n), Len(n.kids), T)
  <2> DEFINE t == IF Len(n.kids) = 0 THEN <<Nop>> ELSE << >>
  <2>1. Plain(GenAll(n, "result"), Len(n.kids), T)
    BY PlainGenAll
  <2>2. Plain(<<Nop>>, Len(n.kids), T)
    BY PlainOne DEF Nop, Emit, Special, Ordinary
  <2>3. Plain(t, Len(n.kids), T)
    BY <2>2, PlainEmpty
  <2>4. ASTBlockStmt(n) = GenAll(n, "result") \o t
    BY DEF ASTBlockStmt
  <2> HIDE DEF t
  <2> QED
    BY <2>1, <2>3, <2>4, PlainConcat
<1> QED
  BY <1>1, <1>2, <1>3, <1>4, <1>6, <1>7, <1>8, <1>9, <1>10

LEMMA BranchingSteps ==
    ASSUME NEW m, NEW T \in SUBSET {"allocFlag"}
    PROVE  /\ \A i \in 1 .. m : \A d : Ordinary(Gen(i, d), m, T)
           /\ \A d, t, need : Ordinary(Emit(d, t, need), m, T)
           /\ \A v, a : Ordinary(Store(v, a), m, T) /\ Ordinary(Known(v, a), m, T)
           /\ \A b, bs : Ordinary(Blocks(b, bs), m, T)
           /\ \A b : Ordinary(Place(b), m, T) /\ Ordinary(At(b), m, T) /\ Ordinary(Branch(b), m, T)
           /\ \A v, b, c : Ordinary(CondBranch(v, b, c), m, T)
BY DEF Gen, Emit, Store, Known, Blocks, Branch, CondBranch, At, Place, Ordinary

(* The codegen()s that make basic blocks.                                   *)
LEMMA BranchingTuples ==
    ASSUME NEW n, Len(n.kids) \in Nat, NEW T \in SUBSET {"allocFlag"}
    PROVE  /\ Len(n.kids) >= 1 => Plain(ASTReturnStmt, Len(n.kids), T)
           /\ Len(n.kids) >= 2 => Plain(ASTOfArrayExpr, Len(n.kids), T)
           /\ Len(n.kids) >= 2 => Plain(ASTWhileStmt, Len(n.kids), T)
           /\ Len(n.kids) >= 2 => Plain(ASTIfStmt(n), Len(n.kids), T)
           /\ Len(n.kids) >= 3 => Plain(ASTForIterStmt, Len(n.kids), T)
           /\ Len(n.kids) >= 4 => Plain(ASTForRangeStmt(n), Len(n.kids), T)
<1>1. ASSUME Len(n.kids) >= 1 PROVE Plain(ASTReturnStmt, Len(n.kids), T)
  <2>1. /\ DOMAIN ASTReturnStmt = 1 .. 3 /\ ASTReturnStmt = [i \in 1 .. 3 |-> ASTReturnStmt[i]]
        /\ \A i \in 1 .. 3 : Ordinary(ASTReturnStmt[i], Len(n.kids), T)
    BY <1>1 DEF ASTReturnStmt, Gen, Known, Ordinary
  <2> QED
    BY <2>1, PlainFunction
<1>2. ASSUME Len(n.kids) >= 2 PROVE Plain(ASTOfArrayExpr, Len(n.kids), T)
  <2>1. /\ DOMAIN ASTOfArrayExpr = 1 .. 25 /\ ASTOfArrayExpr = [i \in 1 .. 25 |-> ASTOfArrayExpr[i]]
        /\ \A i \in 1 .. 25 : Ordinary(ASTOfArrayExpr[i], Len(n.kids), T)
    BY <1>2 DEF ASTOfArrayExpr, Gen, Known, Emit, Store, Blocks, Branch, CondBranch, At, Place, Ordinary
  <2> QED
    BY <2>1, PlainFunction
<1>3. ASSUME Len(n.kids) >= 2 PROVE Plain(ASTWhileStmt, Len(n.kids), T)
  <2>1. /\ DOMAIN ASTWhileStmt = 1 .. 13 /\ ASTWhileStmt = [i \in 1 .. 13 |-> ASTWhileStmt[i]]
        /\ \A i \in 1 .. 13 : Ordinary(ASTWhileStmt[i], Len(n.kids), T)
    BY <1>3 DEF ASTWhileStmt, Gen, Emit, Blocks, Branch, CondBranch, At, Place, Nop, Ordinary
  <2> QED
    BY <2>1, PlainFunction
<1>4. ASSUME Len(n.kids) >= 2 PROVE Plain(ASTIfStmt(n), Len(n.kids), T)
  <2>1. /\ DOMAIN ASTIfStmt(n) = 1 .. 14 /\ ASTIfStmt(n) = [i \in 1 .. 14 |-> ASTIfStmt(n)[i]]
        /\ \A i \in 1 .. 14 : Ordinary(ASTIfStmt(n)[i], Len(n.kids), T)
    BY <1>4 DEF ASTIfStmt, Gen, Emit, Blocks, Branch, CondBranch, At, Place, Nop, Ordinary
  <2> QED
    BY <2>1, PlainFunction
<1>5. ASSUME Len(n.kids) >= 3 PROVE Plain(ASTForIterStmt, Len(n.kids), T)
  <2>1. /\ DOMAIN ASTForIterStmt = 1 .. 28 /\ ASTForIterStmt = [i \in 1 .. 28 |-> ASTForIterStmt[i]]
        /\ \A i \in 1 .. 28 : Ordinary(ASTForIterStmt[i], Len(n.kids), T)
    BY <1>5 DEF ASTForIterStmt, Gen, Known, Emit, lValueFlag, Store, Blocks, Branch, CondBranch,
             At, Place, Nop, Ordinary
  <2> QED
    BY <2>1, PlainFunction
<1>6. ASSUME Len(n.kids) >= 4 PROVE Plain(ASTForRangeStmt(n), Len(n.kids), T)
  <2>1. /\ DOMAIN ASTForRangeStmt(n) = 1 .. 23
        /\ ASTForRangeStmt(n) = [i \in 1 .. 23 |-> ASTForRangeStmt(n)[i]]
        /\ \A i \in 1 .. 23 : Ordinary(ASTForRangeStmt(n)[i], Len(n.kids), T)
    BY <1>6 DEF ASTForRangeStmt, Gen, Known, Emit, lValueFlag, Store, Blocks, Branch, CondBranch,
             At, Place, Nop, Ordinary
  <2> QED
    BY <2>1, PlainFunction
<1> QED
  BY <1>1, <1>2, <1>3, <1>4, <1>5, <1>6

LEMMA BranchingLists ==
    ASSUME NEW n, NEW b, Len(n.kids) \in Nat, Len(n.names) \in Nat, NEW T \in SUBSET {"allocFlag"}
    PROVE  /\ Len(n.kids) >= 2 => Plain(ASTElementRefrenceOperatorExpr(b), Len(n.kids), T)
           /\ Len(n.names) > 0 => Plain(ASTFunction(n), Len(n.kids), T)
<1>a. PICK k \in Nat : k = Len(n.kids)
  OBVIOUS
<1>1. ASSUME Len(n.kids) >= 2 PROVE Plain(ASTElementRefrenceOperatorExpr(b), Len(n.kids), T)
  <2>1. PICK z : z = IF b THEN Emit("result", "ptr", [arrayPtr |-> "ptr", offset |-> "i64"])
                          ELSE Emit("result", "i64", [theArrayElement |-> "ptr"])
    OBVIOUS
  <2>2. Ordinary(z, Len(n.kids), T)
    BY <2>1, BranchingSteps
  <2> DEFINE s == <<Gen(1, "array"), Emit("arrayPtr", "ptr", [array |-> "i64"]),
         Gen(2, "index"), Emit("offset", "i64", [index |-> "i64"]),
         Emit("length", "i64", [arrayPtr |-> "ptr"]),
         Emit("cond", "i1", [index |-> "i64", length |-> "i64"]),
         Emit("theArrayElement", "ptr", NoOperands),
         Blocks("then", {"else", "ifmerge"}), CondBranch("cond", "then", "else"),
         At("then"), Emit("error", "void", [index |-> "i64"]), Branch("ifmerge"),
         Place("else"), At("else"),
         Emit("loadPtr", "ptr", [arrayPtr |-> "ptr", offset |-> "i64"]),
         Emit("value", "i64", [loadPtr |-> "ptr"]), Store("value", "theArrayElement"),
         Branch("ifmerge"),
         Place("ifmerge"), At("ifmerge"), z>>
  <2>3. /\ DOMAIN s = 1 .. 21 /\ s = [i \in 1 .. 21 |-> s[i]]
        /\ \A i \in 1 .. 21 : Ordinary(s[i], Len(n.kids), T)
    BY <1>1, <2>2 DEF Gen, Emit, Store, Blocks, Branch, CondBranch, At, Place, Ordinary
  <2>4. Plain(IF b THEN <<lValueFlag(FALSE)>> ELSE << >>, Len(n.kids), T)
    <3>1. Plain(<<lValueFlag(FALSE)>>, Len(n.kids), T)
      BY PlainOne DEF lValueFlag, Ordinary
    <3> QED
      BY <3>1, PlainEmpty
  <2>5. ASTElementRefrenceOperatorExpr(b) = (IF b THEN <<lValueFlag(FALSE)>> ELSE << >>) \o s
    BY <2>1 DEF ASTElementRefrenceOperatorExpr
  <2> HIDE DEF s
  <2>6. Plain(s, Len(n.kids), T)
    BY <2>3, PlainFunction
  <2> QED
    BY <2>4, <2>5, <2>6, PlainConcat
<1>2. ASSUME Len(n.names) > 0 PROVE Plain(ASTFunction(n), Len(n.kids), T)
  <2> DEFINE e == <<EnterFunction(n.names[1])>>
             l == [i \in 1..(Len(n.names) - 1) |-> Local(n.names[i + 1])]
             g == GenAll(n, "statement")
             r == <<Known("result", ConstantInt)>>
  <2>1. Plain(e, Len(n.kids), T)
    BY PlainOne DEF EnterFunction, Ordinary
  <2>2. PICK m \in Nat : m = Len(n.names) - 1
    <3>1. Len(n.names) - 1 \in Nat
      BY <1>2
    <3> QED
      BY <3>1
  <2>3. DOMAIN l = 1 .. m /\ l = [i \in 1 .. m |-> l[i]] /\ \A i \in 1 .. m : Ordinary(l[i], Len(n.kids), T)
    BY <2>2 DEF Local, Ordinary
  <2>4. Plain(l, Len(n.kids), T)
    BY <2>3, PlainFunction
  <2>6. Plain(g, Len(n.kids), T)
    BY PlainGenAll DEF Special
  <2>7. Plain(r, Len(n.kids), T)
    BY PlainOne DEF Known, Ordinary
  <2>8. ASTFunction(n) = e \o l \o g \o r
    BY DEF ASTFunction
  <2> HIDE DEF e, l, g, r
  <2> QED
    BY <2>1, <2>4, <2>6, <2>7, <2>8, PlainConcat
<1> QED
  BY <1>1, <1>2

AtLeast(k) ==
    CASE k = 1 -> UnaryClasses \cup UpdateClasses \cup {"ASTReturnStmt", "ASTFunAppExpr"}
      [] k = 2 -> BinaryClasses \cup {"ASTAssignStmt", "ASTWhileStmt", "ASTIfStmt"}
      [] k = 3 -> {"ASTTernaryExpr", "ASTForIterStmt"}
      [] k = 4 -> {"ASTForRangeStmt"}

(* What the grammar says of a node, in the form the proofs use.             *)
LEMMA NodeFacts ==
    ASSUME NEW n \in Nodes
    PROVE  /\ Len(n.kids) \in Nat /\ DOMAIN n.kids = 1 .. Len(n.kids) /\ Len(n.names) \in Nat
           /\ \A i \in 1 .. Len(n.kids) : n.kids[i] \in Nodes
           /\ Grammatical(n)
<1>1. n.names \in Seq(STRING) /\ n.kids \in Seq(Kids(n)) /\ Grammatical(n)
  BY NodesAssumption
<1>2. Len(n.kids) \in Nat /\ DOMAIN n.kids = 1 .. Len(n.kids) /\ Len(n.names) \in Nat
  BY <1>1
<1>3. \A i \in 1 .. Len(n.kids) : n.kids[i] \in Nodes
  BY <1>2, NodesAssumption DEF Kids
<1> QED
  BY <1>1, <1>2, <1>3

(* How many children a node has at least.                                   *)
LEMMA Arity ==
    ASSUME NEW n \in Nodes
    PROVE  /\ n.cls \in AtLeast(1) => Len(n.kids) >= 1
           /\ n.cls \in AtLeast(2) => Len(n.kids) >= 2
           /\ n.cls \in AtLeast(3) => Len(n.kids) >= 3
           /\ n.cls \in AtLeast(4) => Len(n.kids) >= 4
           /\ n.cls = "ASTFunction" => Len(n.names) > 0
<1>1. Len(n.kids) \in Nat /\ DOMAIN Sorts(n) = 1 .. Len(n.kids) /\ Grammatical(n)
  BY NodeFacts DEF Sorts
<1> DEFINE Long(k) == \A i \in 1 .. k : i \in 1 .. Len(n.kids)
<1>2. ASSUME NEW k \in 1 .. 5, k \in 1 .. Len(n.kids) PROVE Len(n.kids) >= k
  BY <1>1, <1>2
<1>3. ASSUME n.cls \in AtLeast(1) PROVE Len(n.kids) >= 1
  <2>1. Sorts(n) = <<"expr">> \/ Len(n.kids) > 0
    BY <1>1, <1>3 DEF Grammatical, ConstantClasses, AtLeast, UnaryClasses, UpdateClasses
  <2>2. Sorts(n) = <<"expr">> => 1 \in 1 .. Len(n.kids)
    BY <1>1
  <2> QED
    BY <1>1, <1>2, <2>1, <2>2
<1>4. ASSUME n.cls \in AtLeast(2) PROVE Len(n.kids) >= 2
  <2>1. \/ Sorts(n) \in {<<"expr", "expr">>, <<"expr", "statement">>}
        \/ Sorts(n) = <<"expr", "statement", "statement">>
    BY <1>1, <1>4 DEF Grammatical, ConstantClasses, AtLeast, UnaryClasses, UpdateClasses, BinaryClasses
  <2>2. 2 \in 1 .. Len(n.kids)
    BY <1>1, <2>1
  <2> QED
    BY <1>2, <2>2
<1>5. ASSUME n.cls \in AtLeast(3) PROVE Len(n.kids) >= 3
  <2>1. Sorts(n) \in {<<"expr", "expr", "expr">>, <<"expr", "expr", "statement">>}
    BY <1>1, <1>5 DEF Grammatical, ConstantClasses, AtLeast, UnaryClasses, UpdateClasses, BinaryClasses
  <2>2. 3 \in 1 .. Len(n.kids)
    BY <1>1, <2>1
  <2> QED
    BY <1>2, <2>2
<1>6. ASSUME n.cls \in AtLeast(4) PROVE Len(n.kids) >= 4
  <2>1. Sorts(n) \in {<<"expr", "expr", "expr", "statement">>,
                      <<"expr", "expr", "expr", "expr", "statement">>}
    BY <1>1, <1>6 DEF Grammatical, ConstantClasses, AtLeast, UnaryClasses, UpdateClasses, BinaryClasses
  <2>2. 4 \in 1 .. Len(n.kids)
    BY <1>1, <2>1
  <2> QED
    BY <1>2, <2>2
<1>7. n.cls = "ASTFunction" => Len(n.names) > 0
  BY <1>1 DEF Grammatical, ConstantClasses, UnaryClasses, UpdateClasses, BinaryClasses
<1> QED
  BY <1>3, <1>4, <1>5, <1>6, <1>7

(* Which list of steps belongs to which class.                              *)
LEMMA CodegenCases ==
    ASSUME NEW n \in Nodes
    PROVE  /\ n.cls = "ASTProgram" => codegen(n) = ASTProgram(n)
           /\ n.cls = "ASTFunction" => codegen(n) = ASTFunction(n)
           /\ n.cls = "ASTDeclStmt" => codegen(n) = ASTDeclStmt(n)
           /\ n.cls \in ConstantClasses => codegen(n) = ASTNumberExpr
           /\ n.cls = "ASTVariableExpr" => codegen(n) = ASTVariableExpr(n, lValueGen, NamedValues)
           /\ n.cls = "ASTBinaryExpr" => codegen(n) = ASTBinaryExpr(n)
           /\ n.cls = "ASTAndExpr" => codegen(n) = ASTAndExpr
           /\ n.cls = "ASTOrExpr" => codegen(n) = ASTOrExpr
           /\ n.cls = "ASTNotExpr" => codegen(n) = ASTNotExpr
           /\ n.cls = "ASTNegationExpr" => codegen(n) = ASTNegationExpr
           /\ n.cls = "ASTTernaryExpr" => codegen(n) = ASTTernaryExpr
           /\ n.cls = "ASTInputExpr" => codegen(n) = ASTInputExpr
           /\ n.cls = "ASTRefExpr" => codegen(n) = ASTRefExpr
           /\ n.cls = "ASTArrayLengthExpr" => codegen(n) = ASTArrayLengthExpr
           /\ n.cls = "ASTAssignStmt" => codegen(n) = ASTAssignStmt
           /\ n.cls = "ASTIncrementStmt" => codegen(n) = ASTIncrementStmt
           /\ n.cls = "ASTDecrementStmt" => codegen(n) = ASTIncrementStmt
           /\ n.cls = "ASTOutputStmt" => codegen(n) = ASTOutputStmt
           /\ n.cls = "ASTErrorStmt" => codegen(n) = ASTOutputStmt
           /\ n.cls = "ASTFunAppExpr" => codegen(n) = ASTFunAppExpr(n)
           /\ n.cls = "ASTDeRefExpr" => codegen(n) = ASTDeRefExpr(lValueGen)
           /\ n.cls = "ASTAccessExpr" => codegen(n) = ASTAccessExpr(lValueGen)
           /\ n.cls = "ASTRecordExpr" => codegen(n) = ASTRecordExpr(n, allocFlag)
           /\ n.cls = "ASTArrayExpr" => codegen(n) = ASTArrayExpr(n)
           /\ n.cls = "ASTBlockStmt" => codegen(n) = ASTBlockStmt(n)
           /\ n.cls = "ASTReturnStmt" => codegen(n) = ASTReturnStmt
           /\ n.cls = "ASTOfArrayExpr" => codegen(n) = ASTOfArrayExpr
           /\ n.cls = "ASTWhileStmt" => codegen(n) = ASTWhileStmt
           /\ n.cls = "ASTIfStmt" => codegen(n) = ASTIfStmt(n)
           /\ n.cls = "ASTForIterStmt" => codegen(n) = ASTForIterStmt
           /\ n.cls = "ASTForRangeStmt" => codegen(n) = ASTForRangeStmt(n)
           /\ n.cls = "ASTElementRefrenceOperatorExpr" =>
                  codegen(n) = ASTElementRefrenceOperatorExpr(lValueGen)
           /\ n.cls = "ASTAllocExpr" => codegen(n) = ASTAllocExpr
BY DEF codegen, ConstantClasses

Branching ==
    {"ASTOfArrayExpr", "ASTElementRefrenceOperatorExpr", "ASTWhileStmt", "ASTIfStmt",
     "ASTForIterStmt", "ASTForRangeStmt"}

LEMMA PlainCodegen ==
    ASSUME NEW n \in Nodes, n.cls \notin Branching \cup {"ASTFunction", "ASTReturnStmt", "ASTAllocExpr"},
           NEW T \in SUBSET Special
    PROVE  Plain(codegen(n), Len(n.kids), T)
<1> DEFINE m == Len(n.kids)
<1>1. m \in Nat /\ Len(n.names) \in Nat /\ Grammatical(n)
  BY NodeFacts
<1>2. /\ n.cls \in AtLeast(1) => m >= 1
      /\ n.cls \in AtLeast(2) => m >= 2
      /\ n.cls \in AtLeast(3) => m >= 3
      /\ n.cls \in AtLeast(4) => m >= 4
      /\ n.cls = "ASTFunction" => Len(n.names) > 0
  BY Arity
<1> HIDE DEF m
<1>3. ASSUME n.cls \in ConstantClasses \cup {"ASTInputExpr"} PROVE Plain(codegen(n), m, T)
  <2>1. m >= 0
    BY <1>1
  <2>2. /\ Plain(ASTNumberExpr, m, T)
        /\ Plain(ASTInputExpr, m, T)
    BY <1>1, <2>1, PlainTuples DEF m
  <2> QED
    BY <1>3, <2>2, CodegenCases
<1>4. ASSUME n.cls \in {"ASTNotExpr", "ASTNegationExpr", "ASTRefExpr", "ASTArrayLengthExpr",
                    "ASTIncrementStmt", "ASTDecrementStmt", "ASTOutputStmt", "ASTErrorStmt"}
      PROVE  Plain(codegen(n), m, T)
  <2>1. m >= 1 /\ m > 0
    BY <1>1, <1>2, <1>4 DEF AtLeast, UnaryClasses, UpdateClasses, BinaryClasses
  <2>2. /\ Plain(ASTNotExpr, m, T)
        /\ Plain(ASTNegationExpr, m, T)
        /\ Plain(ASTRefExpr, m, T)
        /\ Plain(ASTArrayLengthExpr, m, T)
        /\ Plain(ASTIncrementStmt, m, T)
        /\ Plain(ASTOutputStmt, m, T)
    BY <1>1, <2>1, PlainTuples DEF m
  <2> QED
    BY <1>4, <2>2, CodegenCases
<1>5. ASSUME n.cls \in {"ASTBinaryExpr", "ASTAndExpr", "ASTOrExpr", "ASTAssignStmt"}
      PROVE  Plain(codegen(n), m, T)
  <2>1. m >= 2 /\ m > 0
    BY <1>1, <1>2, <1>5 DEF AtLeast, UnaryClasses, UpdateClasses, BinaryClasses
  <2>2. /\ Plain(ASTBinaryExpr(n), m, T)
        /\ Plain(ASTAndExpr, m, T)
        /\ Plain(ASTOrExpr, m, T)
        /\ Plain(ASTAssignStmt, m, T)
    BY <1>1, <2>1, PlainTuples DEF m
  <2> QED
    BY <1>5, <2>2, CodegenCases
<1>6. ASSUME n.cls \in {"ASTTernaryExpr"} PROVE Plain(codegen(n), m, T)
  <2>1. m >= 3 /\ m > 0
    BY <1>1, <1>2, <1>6 DEF AtLeast, UnaryClasses, UpdateClasses, BinaryClasses
  <2>2. Plain(ASTTernaryExpr, m, T)
    BY <1>1, <2>1, PlainTuples DEF m
  <2> QED
    BY <1>6, <2>2, CodegenCases
<1>7. ASSUME n.cls \in {"ASTProgram", "ASTDeclStmt", "ASTVariableExpr", "ASTRecordExpr",
                    "ASTArrayExpr", "ASTBlockStmt"}
      PROVE  Plain(codegen(n), m, T)
  <2>1. m >= 0
    BY <1>1
  <2>2. /\ Plain(ASTProgram(n), m, T)
        /\ Plain(ASTDeclStmt(n), m, T)
        /\ Plain(ASTVariableExpr(n, lValueGen, NamedValues), m, T)
        /\ Plain(ASTRecordExpr(n, allocFlag), m, T)
        /\ Plain(ASTArrayExpr(n), m, T)
        /\ Plain(ASTBlockStmt(n), m, T)
    BY <1>1, <2>1, PlainLists DEF m
  <2> QED
    BY <1>7, <2>2, CodegenCases
<1>8. ASSUME n.cls \in {"ASTFunAppExpr", "ASTDeRefExpr", "ASTAccessExpr"} PROVE Plain(codegen(n), m, T)
  <2>1. m >= 1 /\ m > 0
    BY <1>1, <1>2, <1>8 DEF AtLeast, UnaryClasses, UpdateClasses, BinaryClasses
  <2>2. /\ Plain(ASTFunAppExpr(n), m, T)
        /\ Plain(ASTDeRefExpr(lValueGen), m, T)
        /\ Plain(ASTAccessExpr(lValueGen), m, T)
    BY <1>1, <2>1, PlainLists DEF m
  <2> QED
    BY <1>8, <2>2, CodegenCases
<1> QED
  BY <1>1, <1>3, <1>4, <1>5, <1>6, <1>7, <1>8
     DEF m, Grammatical, ConstantClasses, Branching, UnaryClasses, UpdateClasses, BinaryClasses

LEMMA BranchingCodegen ==
    ASSUME NEW n \in Nodes, n.cls \in Branching \cup {"ASTFunction", "ASTReturnStmt"},
           NEW T \in SUBSET {"allocFlag"}
    PROVE  Plain(codegen(n), Len(n.kids), T)
<1> DEFINE m == Len(n.kids)
<1>1. m \in Nat /\ Len(n.names) \in Nat /\ Grammatical(n)
  BY NodeFacts
<1>2. /\ n.cls \in AtLeast(1) => m >= 1
      /\ n.cls \in AtLeast(2) => m >= 2
      /\ n.cls \in AtLeast(3) => m >= 3
      /\ n.cls \in AtLeast(4) => m >= 4
      /\ n.cls = "ASTFunction" => Len(n.names) > 0
  BY Arity
<1> HIDE DEF m
<1>3. ASSUME n.cls \in {"ASTReturnStmt"} PROVE Plain(codegen(n), m, T)
  <2>1. m >= 1 /\ m > 0
    BY <1>1, <1>2, <1>3 DEF AtLeast, UnaryClasses, UpdateClasses, BinaryClasses
  <2>2. Plain(ASTReturnStmt, m, T)
    BY <1>1, <2>1, BranchingTuples DEF m
  <2> QED
    BY <1>3, <2>2, CodegenCases
<1>4. ASSUME n.cls \in {"ASTOfArrayExpr", "ASTWhileStmt", "ASTIfStmt"} PROVE Plain(codegen(n), m, T)
  <2>1. m >= 2 /\ m > 0
    BY <1>1, <1>2, <1>4 DEF AtLeast, UnaryClasses, UpdateClasses, BinaryClasses
  <2>2. /\ Plain(ASTOfArrayExpr, m, T)
        /\ Plain(ASTWhileStmt, m, T)
        /\ Plain(ASTIfStmt(n), m, T)
    BY <1>1, <2>1, BranchingTuples DEF m
  <2> QED
    BY <1>4, <2>2, CodegenCases
<1>5. ASSUME n.cls \in {"ASTForIterStmt"} PROVE Plain(codegen(n), m, T)
  <2>1. m >= 3 /\ m > 0
    BY <1>1, <1>2, <1>5 DEF AtLeast, UnaryClasses, UpdateClasses, BinaryClasses
  <2>2. Plain(ASTForIterStmt, m, T)
    BY <1>1, <2>1, BranchingTuples DEF m
  <2> QED
    BY <1>5, <2>2, CodegenCases
<1>6. ASSUME n.cls \in {"ASTForRangeStmt"} PROVE Plain(codegen(n), m, T)
  <2>1. m >= 4 /\ m > 0
    BY <1>1, <1>2, <1>6 DEF AtLeast, UnaryClasses, UpdateClasses, BinaryClasses
  <2>2. Plain(ASTForRangeStmt(n), m, T)
    BY <1>1, <2>1, BranchingTuples DEF m
  <2> QED
    BY <1>6, <2>2, CodegenCases
<1>7. ASSUME n.cls \in {"ASTFunction"} PROVE Plain(codegen(n), m, T)
  <2>1. Len(n.names) > 0
    BY <1>2, <1>7
  <2>2. Plain(ASTFunction(n), m, T)
    BY <1>1, <2>1, BranchingLists DEF m
  <2> QED
    BY <1>7, <2>2, CodegenCases
<1>8. ASSUME n.cls \in {"ASTElementRefrenceOperatorExpr"} PROVE Plain(codegen(n), m, T)
  <2>1. m >= 2 /\ m > 0
    BY <1>1, <1>2, <1>8 DEF AtLeast, UnaryClasses, UpdateClasses, BinaryClasses
  <2>2. Plain(ASTElementRefrenceOperatorExpr(lValueGen), m, T)
    BY <1>1, <2>1, BranchingLists DEF m
  <2> QED
    BY <1>8, <2>2, CodegenCases
<1> QED
  BY <1>1, <1>3, <1>4, <1>5, <1>6, <1>7, <1>8
     DEF m, Grammatical, ConstantClasses, Branching, UnaryClasses, UpdateClasses, BinaryClasses

(* Of all the codegen()s only that of alloc writes allocFlag, and each asks *)
(* only for children that its node has.                                     *)
LEMMA CodegenLists ==
    ASSUME NEW n \in Nodes
    PROVE  /\ n.cls # "ASTAllocExpr" => Plain(codegen(n), Len(n.kids), {"allocFlag"})
           /\ n.cls = "ASTAllocExpr" => codegen(n) = ASTAllocExpr
<1>1. {"allocFlag"} \in SUBSET Special
  BY DEF Special
<1> QED
  BY <1>1, PlainCodegen, BranchingCodegen, CodegenCases

(* The frames of the stack, and what is left of their lists.                *)
IsAllocExpr(f) == f.node.cls = "ASTAllocExpr"

FrameOK(f) ==
    /\ f = [node |-> f.node, todo |-> f.todo, local |-> f.local, label |-> f.label, isAlloc |-> f.isAlloc]
    /\ f.node \in Nodes
    /\ IsList(f.todo)
    /\ IsAllocExpr(f) => /\ Len(f.todo) <= 6
                         /\ \A i \in DOMAIN f.todo : f.todo[i] = ASTAllocExpr[i + 6 - Len(f.todo)]
    /\ ~IsAllocExpr(f) => Plain(f.todo, Len(f.node.kids), {"allocFlag"})

Stack ==
    /\ IsList(calls)
    /\ \A i \in DOMAIN calls : FrameOK(calls[i])
    /\ \A i \in 1 .. Len(calls) - 1 : calls[i].todo # << >> /\ Head(calls[i].todo).do = "codegen"

(* allocFlag is set by an alloc whose argument is being generated, and while *)
(* it is about to be generated.                                             *)
FlagHasOwner ==
    allocFlag => \E i \in DOMAIN calls : IsAllocExpr(calls[i]) /\ Len(calls[i].todo) \in {4, 5}

FlagForArgument ==
    calls # << >> /\ IsAllocExpr(Top) /\ Len(Top.todo) = 5 => allocFlag

FlagsRead ==
    /\ \A i \in DOMAIN calls : calls[i].isAlloc => Enclosed(i)
    /\ \A i \in 2 .. Len(calls) : IsAllocExpr(calls[i - 1]) => calls[i].isAlloc

AllocInv == Stack /\ allocFlag \in BOOLEAN /\ FlagHasOwner /\ FlagForArgument /\ FlagsRead

-----------------------------------------------------------------------------
LEMMA AllocList ==
    /\ IsList(ASTAllocExpr) /\ Len(ASTAllocExpr) = 6
    /\ ASTAllocExpr[1] = allocationFlag(TRUE) /\ ASTAllocExpr[2] = Gen(1, "argVal")
    /\ ASTAllocExpr[3] = allocationFlag(FALSE)
    /\ \A i \in 4 .. 6 : ASTAllocExpr[i].do \in {"emit", "store"}
<1>1. DOMAIN ASTAllocExpr = 1 .. 6 /\ ASTAllocExpr = [i \in 1 .. 6 |-> ASTAllocExpr[i]]
  BY DEF ASTAllocExpr
<1>2. IsList(ASTAllocExpr) /\ Len(ASTAllocExpr) = 6
  BY <1>1, FunctionList
<1> QED
  BY <1>2 DEF ASTAllocExpr, Emit, Store

LEMMA NewFrame ==
    ASSUME NEW n \in Nodes
    PROVE  /\ FrameOK(Frame(n)) /\ Frame(n).node = n /\ Frame(n).isAlloc = allocFlag
           /\ IsAllocExpr(Frame(n)) => Len(Frame(n).todo) = 6
<1>1. /\ Frame(n) = [node |-> n, todo |-> codegen(n), local |-> Frame(n).local, label |-> Frame(n).label,
                     isAlloc |-> allocFlag]
      /\ Frame(n).node = n /\ Frame(n).todo = codegen(n) /\ Frame(n).isAlloc = allocFlag
  BY DEF Frame
<1>2. CASE n.cls = "ASTAllocExpr"
  <2>1. codegen(n) = ASTAllocExpr
    BY <1>2, CodegenLists
  <2>2. \A i \in DOMAIN ASTAllocExpr : i + 6 - Len(ASTAllocExpr) = i
    BY AllocList, ListFacts
  <2> QED
    BY <1>1, <1>2, <2>1, <2>2, AllocList DEF FrameOK, IsAllocExpr
<1>3. CASE n.cls # "ASTAllocExpr"
  <2>1. Plain(codegen(n), Len(n.kids), {"allocFlag"})
    BY <1>3, CodegenLists
  <2> QED
    BY <1>1, <1>3, <2>1 DEF FrameOK, IsAllocExpr, Plain
<1> QED
  BY <1>2, <1>3

(* How far the codegen() of an alloc is tells what its next step is.        *)
LEMMA AllocTodo ==
    ASSUME NEW f, FrameOK(f), IsAllocExpr(f), f.todo # << >>
    PROVE  /\ Len(f.todo) \in 1 .. 6
           /\ Head(f.todo).do = "codegen" <=> Len(f.todo) = 5
           /\ Head(f.todo).do = "allocFlag" => /\ Head(f.todo).to \in BOOLEAN
                                               /\ Head(f.todo).to <=> Len(f.todo) = 6
                                               /\ Len(f.todo) \in {4, 6}
           /\ Len(f.todo) \in {4, 6} => Head(f.todo).do = "allocFlag"
           /\ Head(f.todo).do = "codegen" => Head(f.todo).child = 1
<1>1. /\ IsList(f.todo) /\ Len(f.todo) <= 6
      /\ \A i \in DOMAIN f.todo : f.todo[i] = ASTAllocExpr[i + 6 - Len(f.todo)]
  BY DEF FrameOK
<1>2. PICK k \in 1 .. 6 : k = Len(f.todo)
  <2>1. PICK k \in Nat : k = Len(f.todo)
    BY <1>1, ListFacts
  <2>2. k >= 1 /\ k <= 6
    BY <1>1, <2>1, ListFacts
  <2>3. k \in 1 .. 6
    BY <2>2
  <2> QED
    BY <2>1, <2>3
<1>4. Head(f.todo) = ASTAllocExpr[7 - k]
  <2>1. Head(f.todo) = f.todo[1] /\ DOMAIN f.todo = 1 .. k
    BY <1>1, <1>2, ListFacts
  <2>2. 1 \in DOMAIN f.todo /\ 1 + 6 - k = 7 - k
    BY <2>1
  <2> QED
    BY <1>1, <1>2, <2>1, <2>2
<1>5. /\ k = 6 => Head(f.todo) = allocationFlag(TRUE)
      /\ k = 5 => Head(f.todo) = Gen(1, "argVal")
      /\ k = 4 => Head(f.todo) = allocationFlag(FALSE)
      /\ k < 4 => Head(f.todo).do \in {"emit", "store"}
  <2>1. (k = 6 => 7 - k = 1) /\ (k = 5 => 7 - k = 2) /\ (k = 4 => 7 - k = 3) /\ (k < 4 => 7 - k \in 4 .. 6)
    OBVIOUS
  <2> QED
    BY <1>4, <2>1, AllocList
<1>6. /\ k = 6 => Head(f.todo).do = "allocFlag" /\ Head(f.todo).to = TRUE
      /\ k = 5 => Head(f.todo).do = "codegen" /\ Head(f.todo).child = 1
      /\ k = 4 => Head(f.todo).do = "allocFlag" /\ Head(f.todo).to = FALSE
      /\ k < 4 => Head(f.todo).do \in {"emit", "store"}
  BY <1>5 DEF allocationFlag, Gen
<1>7. k = 6 \/ k = 5 \/ k = 4 \/ k < 4
  OBVIOUS
<1> QED
  BY <1>2, <1>6, <1>7

LEMMA PlainTodo ==
    ASSUME NEW f, FrameOK(f), ~IsAllocExpr(f), f.todo # << >>
    PROVE  Ordinary(Head(f.todo), Len(f.node.kids), {"allocFlag"})
<1>1. IsList(f.todo) /\ \A i \in DOMAIN f.todo : Ordinary(f.todo[i], Len(f.node.kids), {"allocFlag"})
  BY DEF FrameOK, Plain
<1>2. Head(f.todo) = f.todo[1] /\ 1 \in DOMAIN f.todo
  BY <1>1, ListFacts
<1> QED
  BY <1>1, <1>2

LEMMA ChildIsNode ==
    ASSUME NEW f, FrameOK(f), f.todo # << >>, Head(f.todo).do = "codegen"
    PROVE  /\ Head(f.todo).child \in 1 .. Len(f.node.kids)
           /\ f.node.kids[Head(f.todo).child] \in Nodes
<1>1. f.node \in Nodes
  BY DEF FrameOK
<1>2. Head(f.todo).child \in 1 .. Len(f.node.kids)
  <2>1. CASE IsAllocExpr(f)
    <3>1. Len(f.node.kids) >= 1 /\ Len(f.node.kids) \in Nat
      BY <1>1, <2>1, Arity, NodeFacts DEF AtLeast, UnaryClasses, IsAllocExpr
    <3> QED
      BY <2>1, <3>1, AllocTodo
  <2>2. CASE ~IsAllocExpr(f)
    BY <2>2, PlainTodo DEF Ordinary
  <2> QED
    BY <2>1, <2>2
<1> QED
  BY <1>1, <1>2, NodeFacts

LEMMA MovedFrame ==
    ASSUME NEW f, FrameOK(f), f.todo # << >>, NEW l, NEW b
    PROVE  LET g == [node |-> f.node, todo |-> Tail(f.todo), local |-> l, label |-> b, isAlloc |-> f.isAlloc]
           IN  FrameOK(g) /\ Len(g.todo) = Len(f.todo) - 1
<1> DEFINE g == [node |-> f.node, todo |-> Tail(f.todo), local |-> l, label |-> b, isAlloc |-> f.isAlloc]
<1>1. /\ g.node = f.node /\ g.todo = Tail(f.todo) /\ g.local = l /\ g.label = b /\ g.isAlloc = f.isAlloc
      /\ g = [node |-> g.node, todo |-> g.todo, local |-> g.local, label |-> g.label, isAlloc |-> g.isAlloc]
  OBVIOUS
<1> HIDE DEF g
<1>2. /\ IsList(f.todo) /\ Len(f.todo) \in Nat
      /\ IsList(g.todo) /\ Len(g.todo) = Len(f.todo) - 1
      /\ \A i \in DOMAIN g.todo : i + 1 \in DOMAIN f.todo /\ g.todo[i] = f.todo[i + 1]
  BY <1>1, TailList, ListFacts DEF FrameOK
<1>3. IsAllocExpr(f) => /\ Len(g.todo) <= 6
                        /\ \A i \in DOMAIN g.todo : g.todo[i] = ASTAllocExpr[i + 6 - Len(g.todo)]
  <2>1. ASSUME IsAllocExpr(f), NEW i \in DOMAIN g.todo
        PROVE  g.todo[i] = ASTAllocExpr[i + 6 - Len(g.todo)]
    <3>0. i \in Nat /\ Len(g.todo) \in Nat
      BY <1>2, <2>1, ListFacts
    <3>1. (i + 1) + 6 - Len(f.todo) = i + 6 - Len(g.todo)
      BY <1>2, <3>0
    <3>2. f.todo[i + 1] = ASTAllocExpr[(i + 1) + 6 - Len(f.todo)]
      BY <1>2, <2>1 DEF FrameOK
    <3> QED
      BY <1>2, <3>1, <3>2
  <2> QED
    BY <1>2, <2>1 DEF FrameOK
<1>4. ~IsAllocExpr(f) => Plain(g.todo, Len(f.node.kids), {"allocFlag"})
  BY <1>2 DEF FrameOK, Plain
<1>5. FrameOK(g)
  BY <1>1, <1>2, <1>3, <1>4 DEF FrameOK, IsAllocExpr
<1> QED
  BY <1>2, <1>5 DEF g

LEMMA TopFacts ==
    ASSUME Stack, calls # << >>
    PROVE  /\ Len(calls) \in Nat /\ Len(calls) >= 1 /\ DOMAIN calls = 1 .. Len(calls)
           /\ Len(calls) \in DOMAIN calls /\ Top = calls[Len(calls)] /\ FrameOK(Top)
<1>1. /\ IsList(calls) /\ \A i \in DOMAIN calls : FrameOK(calls[i])
  BY DEF Stack
<1>2. Len(calls) \in Nat /\ Len(calls) >= 1 /\ DOMAIN calls = 1 .. Len(calls)
  BY <1>1, ListFacts
<1>3. Len(calls) \in DOMAIN calls
  BY <1>2
<1> QED
  BY <1>1, <1>2, <1>3 DEF Top

LEMMA FrameUpdates ==
    ASSUME NEW f, FrameOK(f), NEW t, NEW v
    PROVE  [[f EXCEPT !.todo = t] EXCEPT !.local = v]
              = [node |-> f.node, todo |-> t, local |-> v, label |-> f.label, isAlloc |-> f.isAlloc]
<1>1. f = [node |-> f.node, todo |-> f.todo, local |-> f.local, label |-> f.label, isAlloc |-> f.isAlloc]
  BY DEF FrameOK
<1>2. PICK a, b, c, d, e : f = [node |-> a, todo |-> b, local |-> c, label |-> d, isAlloc |-> e]
  BY <1>1
<1>3. f.node = a /\ f.todo = b /\ f.local = c /\ f.label = d /\ f.isAlloc = e
  BY <1>2
<1>4. PICK g : g = [node |-> a, todo |-> t, local |-> c, label |-> d, isAlloc |-> e]
  OBVIOUS
<1>5. [f EXCEPT !.todo = t] = g
  BY <1>2, <1>4
<1>6. [g EXCEPT !.local = v] = [node |-> a, todo |-> t, local |-> v, label |-> d, isAlloc |-> e]
  BY <1>4
<1> QED
  BY <1>3, <1>5, <1>6

LEMMA FrameLabelled ==
    ASSUME NEW f, FrameOK(f), NEW t, NEW v
    PROVE  [[f EXCEPT !.todo = t] EXCEPT !.label = v]
              = [node |-> f.node, todo |-> t, local |-> f.local, label |-> v, isAlloc |-> f.isAlloc]
<1>1. f = [node |-> f.node, todo |-> f.todo, local |-> f.local, label |-> f.label, isAlloc |-> f.isAlloc]
  BY DEF FrameOK
<1>2. PICK a, b, c, d, e : f = [node |-> a, todo |-> b, local |-> c, label |-> d, isAlloc |-> e]
  BY <1>1
<1>3. f.node = a /\ f.todo = b /\ f.local = c /\ f.label = d /\ f.isAlloc = e
  BY <1>2
<1>4. PICK g : g = [node |-> a, todo |-> t, local |-> c, label |-> d, isAlloc |-> e]
  OBVIOUS
<1>5. [f EXCEPT !.todo = t] = g
  BY <1>2, <1>4
<1>6. [g EXCEPT !.label = v] = [node |-> a, todo |-> t, local |-> c, label |-> v, isAlloc |-> e]
  BY <1>4
<1> QED
  BY <1>3, <1>5, <1>6

(* What a step does to the frames below: nothing. *)
FirstFrames(k) == \A i \in 1 .. k : calls'[i] = calls[i]

(* The frame i has made its step. *)
Moved(i) ==
    /\ calls[i].todo # << >>
    /\ calls'[i].todo = Tail(calls[i].todo)
    /\ calls'[i].node = calls[i].node /\ calls'[i].isAlloc = calls[i].isAlloc
    /\ FrameOK(calls'[i]) /\ Len(calls'[i].todo) = Len(calls[i].todo) - 1

(* The top frame makes a step that changes its locals, or its label.        *)
Relabel(b) == calls' = [calls EXCEPT ![Len(calls)].todo = Tail(@), ![Len(calls)].label = b]

(* What is left of the stack when the top frame has made a step.            *)
LEMMA ReplaceTop ==
    ASSUME Stack, calls # << >>, Top.todo # << >>, NEW l, NEW b,
           (Advance(l) /\ b = Top.label) \/ (Relabel(b) /\ l = Top.local)
    PROVE  /\ IsList(calls') /\ Len(calls') = Len(calls) /\ calls' # << >>
           /\ FirstFrames(Len(calls) - 1) /\ Moved(Len(calls))
           /\ calls'[Len(calls)].label = b /\ calls'[Len(calls)].local = l
<1>1. PICK m \in Nat : m = Len(calls)
  BY TopFacts
<1>f. PICK f : f = Top
  OBVIOUS
<1>2. /\ m \in DOMAIN calls /\ DOMAIN calls = 1 .. m /\ calls[m] = f /\ FrameOK(f) /\ f.todo # << >> /\ m >= 1
  BY <1>1, <1>f, TopFacts
<1>4. PICK g : /\ g = [node |-> f.node, todo |-> Tail(f.todo), local |-> l, label |-> b,
                        isAlloc |-> f.isAlloc]
               /\ calls' = [calls EXCEPT ![m] = g]
  <2>1. CASE Advance(l) /\ b = Top.label
    <3>1. PICK g : g = [[f EXCEPT !.todo = Tail(f.todo)] EXCEPT !.local = l]
      OBVIOUS
    <3>2. calls' = [calls EXCEPT ![m] = g]
      BY <1>1, <1>2, <2>1, <3>1 DEF Advance
    <3>3. g = [node |-> f.node, todo |-> Tail(f.todo), local |-> l, label |-> b, isAlloc |-> f.isAlloc]
      <4>1. FrameOK(f) /\ b = f.label
        BY <1>f, <1>2, <2>1
      <4>2. g = [node |-> f.node, todo |-> Tail(f.todo), local |-> l, label |-> f.label,
                 isAlloc |-> f.isAlloc]
        BY <3>1, <4>1, FrameUpdates
      <4> QED
        BY <4>1, <4>2
    <3> QED
      BY <3>2, <3>3
  <2>2. CASE Relabel(b) /\ l = Top.local
    <3>1. PICK g : g = [[f EXCEPT !.todo = Tail(f.todo)] EXCEPT !.label = b]
      OBVIOUS
    <3>2. calls' = [calls EXCEPT ![m] = g]
      BY <1>1, <1>2, <2>2, <3>1 DEF Relabel
    <3>3. g = [node |-> f.node, todo |-> Tail(f.todo), local |-> l, label |-> b, isAlloc |-> f.isAlloc]
      <4>1. FrameOK(f)
        BY <1>2
      <4>2. PICK t : t = Tail(f.todo)
        OBVIOUS
      <4>3. [[f EXCEPT !.todo = t] EXCEPT !.label = b]
               = [node |-> f.node, todo |-> t, local |-> f.local, label |-> b, isAlloc |-> f.isAlloc]
        BY <4>1, FrameLabelled
      <4>4. l = f.local
        BY <1>f, <2>2
      <4> QED
        BY <3>1, <4>2, <4>3, <4>4
    <3> QED
      BY <3>2, <3>3
  <2> QED
    BY <2>1, <2>2
<1>5. /\ FrameOK(g) /\ Len(g.todo) = Len(f.todo) - 1 /\ g.node = f.node
      /\ g.todo = Tail(f.todo) /\ g.isAlloc = f.isAlloc /\ g.label = b /\ g.local = l
  BY <1>2, <1>4, MovedFrame
<1>6. DOMAIN calls' = 1 .. m /\ calls' = [i \in 1 .. m |-> calls'[i]] /\ calls'[m] = g
      /\ \A i \in 1 .. m : i # m => calls'[i] = calls[i]
  BY <1>2, <1>4
<1>7. IsList(calls') /\ Len(calls') = m
  BY <1>6, FunctionList
<1>8. calls' # << >>
  <2>1. Len(calls') # 0
    BY <1>2, <1>7
  <2> QED
    BY <2>1
<1>9. FirstFrames(m - 1)
  BY <1>6 DEF FirstFrames
<1>10. Moved(m)
  BY <1>2, <1>5, <1>6 DEF Moved
<1> QED
  BY <1>1, <1>5, <1>6, <1>7, <1>8, <1>9, <1>10

(* The frame i has got the value that it called a codegen() for.            *)
Returned(i, v) ==
    /\ calls'[i].label = calls[i].label
    /\ calls'[i].local = Assign(calls[i].local, Head(calls[i].todo).dst, v)

(* Steps that call a codegen(), return from one, or do neither.             *)
Calls ==
    /\ Running("codegen")
    /\ Top.node.kids[Step.child] \in Nodes
    /\ Len(calls') = Len(calls) + 1 /\ IsList(calls')
    /\ FirstFrames(Len(calls))
    /\ calls'[Len(calls) + 1] = Frame(Top.node.kids[Step.child])

Returns ==
    /\ calls # << >> /\ Top.todo = << >>
    /\ Len(calls') = Len(calls) - 1 /\ IsList(calls')
    /\ FirstFrames(Len(calls) - 2)
    /\ Len(calls) > 1 => Moved(Len(calls) - 1) /\ Returned(Len(calls) - 1, Top.local["result"])

Advances ==
    /\ calls # << >> /\ Top.todo # << >> /\ Step.do # "codegen"
    /\ Len(calls') = Len(calls) /\ IsList(calls')
    /\ FirstFrames(Len(calls) - 1)
    /\ Moved(Len(calls))

LEMMA CallShape == ASSUME Stack, CallCodegen PROVE Calls
<1>1. calls # << >> /\ Top.todo # << >> /\ Step.do = "codegen" /\ Running("codegen")
  BY DEF CallCodegen, Running
<1>2. PICK m \in Nat : m = Len(calls) /\ DOMAIN calls = 1 .. m
  BY <1>1, TopFacts
<1>n. PICK n : n = Top.node.kids[Step.child]
  OBVIOUS
<1>3. n \in Nodes
  BY <1>1, <1>n, TopFacts, ChildIsNode DEF Step
<1>4. PICK f : f = Frame(n)
  OBVIOUS
<1>5. calls' = Append(calls, f)
  BY <1>n, <1>4 DEF CallCodegen
<1>6. IsList(calls)
  BY DEF Stack
<1> DEFINE T == {calls[i] : i \in DOMAIN calls} \cup {f}
<1>7. calls \in Seq(T) /\ f \in T
  <2>1. calls = [i \in 1 .. m |-> calls[i]]
    BY <1>2, <1>6 DEF IsList
  <2>2. \A i \in 1 .. m : calls[i] \in T
    BY <1>2
  <2>3. f \in T
    OBVIOUS
  <2> HIDE DEF T
  <2>4. calls \in [1 .. m -> T]
    BY <2>1, <2>2
  <2> QED
    BY <2>3, <2>4, SeqDef
<1> HIDE DEF T
<1>8. /\ calls' \in Seq(T) /\ Len(calls') = m + 1 /\ calls'[m + 1] = f
      /\ \A i \in 1 .. m : calls'[i] = calls[i]
  BY <1>2, <1>5, <1>7, AppendProperties
<1>9. IsList(calls')
  BY <1>8, AnyList
<1>10. FirstFrames(m)
  BY <1>8 DEF FirstFrames
<1> QED
  BY <1>1, <1>2, <1>n, <1>3, <1>4, <1>8, <1>9, <1>10 DEF Calls

LEMMA SubSeqIsPrefix ==
    ASSUME NEW s, IsList(s), NEW k \in Nat, k <= Len(s)
    PROVE  SubSeq(s, 1, k) = [i \in 1 .. k |-> s[i]]
BY ListFacts DEF IsList

LEMMA ReturnShape == ASSUME Stack, ReturnValue PROVE Returns
<1>1. calls # << >> /\ Top.todo = << >>
  BY DEF ReturnValue
<1>2. PICK m \in Nat : m = Len(calls) /\ DOMAIN calls = 1 .. m /\ m >= 1
  BY <1>1, TopFacts
<1>3. CASE m = 1
  <2>1. calls' = << >>
    BY <1>2, <1>3 DEF ReturnValue
  <2>2. calls' \in Seq({}) /\ Len(calls') = 0
    BY <2>1
  <2>3. IsList(calls')
    BY <2>2, AnyList
  <2>4. FirstFrames(m - 2)
    BY <1>3 DEF FirstFrames
  <2> QED
    BY <1>1, <1>2, <1>3, <2>2, <2>3, <2>4 DEF Returns
<1>4. CASE m > 1
  <2>1. PICK k \in Nat : k = m - 1
    <3>1. m - 1 \in Nat
      BY <1>4
    <3> QED
      BY <3>1
  <2>2. k \in 1 .. m - 1 /\ k \in 1 .. m /\ k >= 1 /\ k # 0
    BY <1>4, <2>1
  <2>3. PICK f : f = calls[k] /\ FrameOK(f) /\ f.todo # << >>
    BY <1>2, <2>2 DEF Stack
  <2>4. PICK l : calls' = [SubSeq(calls, 1, k) EXCEPT
                             ![k].todo = Tail(@),
                             ![k].local = Assign(@, Head(calls[k].todo).dst, l)]
               /\ l = Top.local["result"]
    BY <1>2, <2>1, <2>2 DEF ReturnValue
  <2>6. PICK s : /\ s = SubSeq(calls, 1, k) /\ DOMAIN s = 1 .. k /\ s = [i \in 1 .. k |-> s[i]]
                 /\ \A i \in 1 .. k : s[i] = calls[i]
    <3>1. IsList(calls)
      BY DEF Stack
    <3>2. SubSeq(calls, 1, k) = [i \in 1 .. k |-> calls[i]]
      BY <1>2, <2>1, <2>2, <3>1, SubSeqIsPrefix
    <3> QED
      BY <3>2
  <2>7. PICK g, lo : /\ g = [node |-> f.node, todo |-> Tail(f.todo), local |-> lo, label |-> f.label,
                              isAlloc |-> f.isAlloc]
                     /\ calls' = [s EXCEPT ![k] = g] /\ lo = Assign(f.local, Head(calls[k].todo).dst, l)
    <3>1. s[k] = f
      BY <2>2, <2>3, <2>6
    <3>2. PICK lo : lo = Assign(f.local, Head(calls[k].todo).dst, l)
      OBVIOUS
    <3>3. PICK g : g = [[f EXCEPT !.todo = Tail(f.todo)] EXCEPT !.local = lo]
      OBVIOUS
    <3>4. calls' = [s EXCEPT ![k].todo = Tail(@), ![k].local = Assign(@, Head(calls[k].todo).dst, l)]
      BY <2>4, <2>6
    <3>5. calls' = [s EXCEPT ![k] = g]
      BY <2>2, <2>6, <3>1, <3>2, <3>3, <3>4
    <3>6. g = [node |-> f.node, todo |-> Tail(f.todo), local |-> lo, label |-> f.label, isAlloc |-> f.isAlloc]
      BY <2>3, <3>3, FrameUpdates
    <3> QED
      BY <3>2, <3>5, <3>6
  <2>8. /\ FrameOK(g) /\ Len(g.todo) = Len(f.todo) - 1 /\ g.node = f.node
        /\ g.todo = Tail(f.todo) /\ g.isAlloc = f.isAlloc /\ g.label = f.label /\ g.local = lo
    BY <2>3, <2>7, MovedFrame
  <2>9. /\ DOMAIN calls' = 1 .. k /\ calls' = [i \in 1 .. k |-> calls'[i]] /\ calls'[k] = g
        /\ \A i \in 1 .. k : i # k => calls'[i] = calls[i]
    <3>1. DOMAIN calls' = 1 .. k
      BY <2>6, <2>7
    <3>2. calls'[k] = g /\ \A i \in 1 .. k : i # k => calls'[i] = calls[i]
      BY <2>2, <2>6, <2>7
    <3>3. calls' = [i \in 1 .. k |-> calls'[i]]
      BY <2>6, <2>7
    <3> QED
      BY <3>1, <3>2, <3>3
  <2>10. IsList(calls') /\ Len(calls') = k
    BY <2>9, FunctionList
  <2>11. FirstFrames(k - 1)
    BY <2>9 DEF FirstFrames
  <2>12. Moved(k) /\ Returned(k, l)
    BY <2>3, <2>7, <2>8, <2>9 DEF Moved, Returned
  <2>13. FirstFrames(m - 2)
    BY <2>1, <2>11 DEF FirstFrames
  <2> QED
    BY <1>1, <1>2, <1>4, <2>1, <2>4, <2>10, <2>12, <2>13 DEF Returns
<1> QED
  BY <1>2, <1>3, <1>4

LEMMA AdvanceShape ==
    ASSUME Stack, NEW d, Running(d), d # "codegen", NEW l, NEW b,
           (Advance(l) /\ b = Top.label) \/ (Relabel(b) /\ l = Top.local)
    PROVE  Advances /\ calls'[Len(calls)].local = l
<1>1. calls # << >> /\ Top.todo # << >> /\ Step.do # "codegen"
  BY DEF Running
<1> QED
  BY <1>1, ReplaceTop DEF Advances

(* Every step is one of the three, and only a step of kind "allocFlag"      *)
(* writes the flag.                                                         *)
LEMMA StepShape ==
    ASSUME Stack, Next
    PROVE  \/ (Calls \/ Returns) /\ UNCHANGED allocFlag
           \/ Advances /\ Step.do # "allocFlag" /\ UNCHANGED allocFlag
           \/ Advances /\ Step.do = "allocFlag" /\ allocFlag' = Step.to
           \/ UNCHANGED <<calls, allocFlag>>
<1>1. CASE CallCodegen
  BY <1>1, CallShape DEF CallCodegen
<1>2. CASE ReturnValue
  BY <1>2, ReturnShape DEF ReturnValue
<1>3. CASE SetAllocFlag
  <2>1. Running("allocFlag") /\ Step.do = "allocFlag" /\ allocFlag' = Step.to /\ Advance(Top.local)
    BY <1>3 DEF SetAllocFlag, Running
  <2> QED
    BY <2>1, AdvanceShape
<1>4. ASSUME NEW d, Running(d), d \notin {"codegen", "allocFlag"}, UNCHANGED allocFlag,
             NEW l, NEW b, (Advance(l) /\ b = Top.label) \/ (Relabel(b) /\ l = Top.local)
      PROVE  Advances /\ Step.do # "allocFlag" /\ UNCHANGED allocFlag
  BY <1>4, AdvanceShape DEF Running
<1>5. CASE SetLValueGen
  BY <1>4, <1>5 DEF SetLValueGen
<1>6. CASE UseKnownValue
  BY <1>4, <1>6 DEF UseKnownValue
<1>7. CASE EmitInstruction
  BY <1>4, <1>7 DEF EmitInstruction
<1>8. CASE EmitStore
  BY <1>4, <1>8 DEF EmitStore
<1>9. CASE AddLocal
  BY <1>4, <1>9 DEF AddLocal
<1>10. CASE StartFunction
  BY <1>4, <1>10 DEF StartFunction
<1>11. CASE CreateBlocks
  <2>1. PICK b : b = labelNum'
    OBVIOUS
  <2>2. Running("blocks") /\ Relabel(b) /\ UNCHANGED allocFlag
    BY <1>11, <2>1 DEF CreateBlocks, Relabel
  <2> QED
    BY <1>4, <2>2
<1>12. CASE PlaceBlock
  BY <1>4, <1>12 DEF PlaceBlock
<1>13. CASE SetInsertPoint
  BY <1>4, <1>13 DEF SetInsertPoint
<1>14. CASE EmitTerminator
  BY <1>4, <1>14 DEF EmitTerminator
<1>15. CASE Done
  BY <1>15 DEF Done, vars
<1> QED
  BY <1>1, <1>2, <1>3, <1>5, <1>6, <1>7, <1>8, <1>9, <1>10, <1>11, <1>12, <1>13, <1>14, <1>15 DEF Next

LEMMA StackCalls == ASSUME Stack, Calls PROVE Stack'
<1>1. calls # << >> /\ Top.todo # << >> /\ Step.do = "codegen"
  BY DEF Calls, Running
<1>2. PICK m \in Nat : m = Len(calls) /\ DOMAIN calls = 1 .. m /\ m >= 1
  BY <1>1, TopFacts
<1>3. PICK n \in Nodes : n = Top.node.kids[Step.child]
  BY DEF Calls
<1>4. /\ IsList(calls') /\ Len(calls') = m + 1 /\ DOMAIN calls' = 1 .. m + 1
      /\ calls'[m + 1] = Frame(n) /\ \A i \in 1 .. m : calls'[i] = calls[i]
  BY <1>2, <1>3, ListFacts DEF Calls, FirstFrames
<1>5. ASSUME NEW i \in 1 .. m + 1 PROVE FrameOK(calls'[i])
  <2>1. CASE i = m + 1
    BY <1>4, <2>1, NewFrame
  <2>2. CASE i \in 1 .. m
    BY <1>2, <1>4, <2>2 DEF Stack
  <2> QED
    BY <2>1, <2>2
<1>6. ASSUME NEW i \in 1 .. m PROVE calls'[i].todo # << >> /\ Head(calls'[i].todo).do = "codegen"
  <2>1. CASE i = m
    BY <1>1, <1>2, <1>4, <2>1 DEF Top, Step
  <2>2. CASE i \in 1 .. m - 1
    BY <1>2, <1>4, <2>2 DEF Stack
  <2> QED
    BY <2>1, <2>2
<1>7. \A i \in 1 .. Len(calls') - 1 : calls'[i].todo # << >> /\ Head(calls'[i].todo).do = "codegen"
  BY <1>2, <1>4, <1>6
<1> QED
  BY <1>4, <1>5, <1>7 DEF Stack

LEMMA StackReturns == ASSUME Stack, Returns PROVE Stack'
<1>1. calls # << >> /\ Top.todo = << >>
  BY DEF Returns
<1>2. PICK m \in Nat : m = Len(calls) /\ DOMAIN calls = 1 .. m /\ m >= 1
  BY <1>1, TopFacts
<1>3. PICK k \in Nat : k = m - 1
  <2>1. m - 1 \in Nat
    BY <1>2
  <2> QED
    BY <2>1
<1>4. /\ IsList(calls') /\ Len(calls') = k /\ DOMAIN calls' = 1 .. k
      /\ k >= 1 => FrameOK(calls'[k])
  BY <1>2, <1>3, ListFacts DEF Returns, Moved
<1>5. \A i \in 1 .. k - 1 : calls'[i] = calls[i]
  BY <1>2, <1>3 DEF Returns, FirstFrames
<1>6. ASSUME NEW i \in 1 .. k PROVE FrameOK(calls'[i])
  <2>1. CASE i = k
    BY <1>4, <2>1
  <2>2. CASE i \in 1 .. k - 1
    <3>1. i \in DOMAIN calls /\ calls'[i] = calls[i]
      BY <1>2, <1>3, <1>5, <2>2
    <3> QED
      BY <3>1 DEF Stack
  <2> QED
    BY <2>1, <2>2
<1>7. ASSUME NEW i \in 1 .. k - 1 PROVE calls'[i].todo # << >> /\ Head(calls'[i].todo).do = "codegen"
  BY <1>2, <1>3, <1>5 DEF Stack
<1> QED
  BY <1>4, <1>6, <1>7 DEF Stack

LEMMA StackAdvances == ASSUME Stack, Advances PROVE Stack'
<1>1. calls # << >>
  BY DEF Advances
<1>2. PICK m \in Nat : m = Len(calls) /\ DOMAIN calls = 1 .. m /\ m >= 1
  BY <1>1, TopFacts
<1>3. /\ IsList(calls') /\ Len(calls') = m /\ DOMAIN calls' = 1 .. m /\ FrameOK(calls'[m])
      /\ \A i \in 1 .. m - 1 : calls'[i] = calls[i]
  BY <1>2, ListFacts DEF Advances, Moved, FirstFrames
<1>4. ASSUME NEW i \in 1 .. m PROVE FrameOK(calls'[i])
  <2>1. CASE i = m
    BY <1>3, <2>1
  <2>2. CASE i \in 1 .. m - 1
    BY <1>2, <1>3, <2>2 DEF Stack
  <2> QED
    BY <2>1, <2>2
<1>5. ASSUME NEW i \in 1 .. m - 1 PROVE calls'[i].todo # << >> /\ Head(calls'[i].todo).do = "codegen"
  BY <1>2, <1>3 DEF Stack
<1> QED
  BY <1>3, <1>4, <1>5 DEF Stack

LEMMA StackInit == Init => Stack /\ Len(calls) = 1 /\ \E p \in Programs : calls[1] = Frame(p)
<1> SUFFICES ASSUME Init PROVE Stack /\ Len(calls) = 1 /\ \E p \in Programs : calls[1] = Frame(p)
  OBVIOUS
<1>1. PICK p \in Programs : calls = <<Frame(p)>>
  BY DEF Init
<1>2. PICK f : f = Frame(p) /\ FrameOK(f)
  BY NodesAssumption, NewFrame
<1>3. calls \in Seq({f}) /\ Len(calls) = 1 /\ DOMAIN calls = 1 .. 1 /\ calls[1] = f
  BY <1>1, <1>2
<1>4. IsList(calls)
  BY <1>3, AnyList
<1>5. \A i \in DOMAIN calls : FrameOK(calls[i])
  BY <1>2, <1>3
<1>6. \A i \in 1 .. Len(calls) - 1 : calls[i].todo # << >> /\ Head(calls[i].todo).do = "codegen"
  BY <1>3
<1> QED
  BY <1>2, <1>3, <1>4, <1>5, <1>6 DEF Stack

(* The invariant holds of the first frame, that of the program.             *)
LEMMA AllocInit == Init => AllocInv
<1> SUFFICES ASSUME Init PROVE AllocInv
  OBVIOUS
<1>1. PICK p \in Programs : Stack /\ Len(calls) = 1 /\ calls[1] = Frame(p) /\ p.cls = "ASTProgram"
  BY StackInit, NodesAssumption
<1>2. allocFlag = FALSE
  BY DEF Init
<1>3. Frame(p).node = p /\ Frame(p).isAlloc = FALSE
  BY <1>1, <1>2, NodesAssumption, NewFrame
<1>4. FlagHasOwner
  BY <1>2 DEF FlagHasOwner
<1>5. FlagForArgument
  BY <1>1, <1>3 DEF FlagForArgument, Top, IsAllocExpr
<1>6. DOMAIN calls = 1 .. 1
  BY <1>1, ListFacts DEF Stack
<1>7. FlagsRead
  BY <1>1, <1>3, <1>6 DEF FlagsRead
<1> QED
  BY <1>1, <1>2, <1>4, <1>5, <1>7 DEF AllocInv

(* A frame that is made reads the flag, which is set for the argument of an *)
(* alloc, and only within one.                                              *)
LEMMA AllocCalls == ASSUME AllocInv, Calls, UNCHANGED allocFlag PROVE AllocInv'
<1>1. Stack /\ allocFlag \in BOOLEAN /\ FlagHasOwner /\ FlagForArgument /\ FlagsRead
  BY DEF AllocInv
<1>2. calls # << >> /\ Top.todo # << >> /\ Step.do = "codegen"
  BY DEF Calls, Running
<1>3. PICK m \in Nat : m = Len(calls) /\ DOMAIN calls = 1 .. m /\ m >= 1
  BY <1>1, <1>2, TopFacts
<1>4. PICK n \in Nodes : n = Top.node.kids[Step.child]
  BY DEF Calls
<1>5. Stack'
  BY <1>1, StackCalls
<1>6. /\ Len(calls') = m + 1 /\ DOMAIN calls' = 1 .. m + 1 /\ m + 1 \in DOMAIN calls'
      /\ \A i \in 1 .. m : calls'[i] = calls[i]
  BY <1>3, <1>5, ListFacts DEF Calls, FirstFrames, Stack
<1>7. PICK f : /\ f = calls'[m + 1] /\ f.node = n /\ f.isAlloc = allocFlag
               /\ IsAllocExpr(f) => Len(f.todo) = 6
  BY <1>3, <1>4, NewFrame DEF Calls
<1>8. FlagHasOwner'
  BY <1>1, <1>3, <1>6 DEF FlagHasOwner
<1>9. FlagForArgument'
  BY <1>6, <1>7 DEF FlagForArgument, Top
<1>10. ASSUME NEW i \in 1 .. m + 1, calls'[i].isAlloc PROVE Enclosed(i)'
  <2>1. CASE i = m + 1
    <3>1. PICK j \in 1 .. m : IsAllocExpr(calls[j])
      BY <1>1, <1>3, <1>7, <1>10, <2>1 DEF FlagHasOwner
    <3>2. j \in 1 .. i - 1 /\ calls'[j].node.cls = "ASTAllocExpr"
      BY <1>6, <2>1, <3>1 DEF IsAllocExpr
    <3> QED
      BY <3>2 DEF Enclosed
  <2>2. CASE i \in 1 .. m
    <3>1. PICK j \in 1 .. i - 1 : calls[j].node.cls = "ASTAllocExpr"
      BY <1>1, <1>3, <1>6, <1>10, <2>2 DEF FlagsRead, Enclosed
    <3>2. calls'[j].node.cls = "ASTAllocExpr"
      BY <1>6, <2>2, <3>1
    <3> QED
      BY <3>1, <3>2 DEF Enclosed
  <2> QED
    BY <2>1, <2>2
<1>11. ASSUME NEW i \in 2 .. m + 1, IsAllocExpr(calls'[i - 1]) PROVE calls'[i].isAlloc
  <2>1. CASE i = m + 1
    <3>1. IsAllocExpr(Top)
      BY <1>3, <1>6, <1>11, <2>1 DEF Top
    <3>2. Len(Top.todo) = 5
      BY <1>1, <1>2, <3>1, TopFacts, AllocTodo DEF Step
    <3> QED
      BY <1>1, <1>2, <1>7, <2>1, <3>1, <3>2 DEF FlagForArgument
  <2>2. CASE i \in 2 .. m
    <3>1. i - 1 \in 1 .. m /\ i \in 1 .. m
      BY <2>2
    <3> QED
      BY <1>1, <1>3, <1>6, <1>11, <2>2, <3>1 DEF FlagsRead
  <2> QED
    BY <2>1, <2>2
<1>12. FlagsRead'
  BY <1>6, <1>10, <1>11 DEF FlagsRead
<1> QED
  BY <1>1, <1>5, <1>8, <1>9, <1>12 DEF AllocInv

(* What a step that makes no frame keeps of the flags that were read.       *)
LEMMA FlagsKept ==
    ASSUME FlagsRead, NEW m \in Nat, m <= Len(calls), Len(calls) \in Nat, DOMAIN calls = 1 .. Len(calls),
           Len(calls') = m, DOMAIN calls' = 1 .. m,
           \A i \in 1 .. m : calls'[i].node = calls[i].node /\ calls'[i].isAlloc = calls[i].isAlloc
    PROVE  FlagsRead'
<1>1. ASSUME NEW i \in 1 .. m, calls'[i].isAlloc PROVE Enclosed(i)'
  <2>1. Enclosed(i)
    <3>1. i \in DOMAIN calls /\ calls[i].isAlloc
      BY <1>1
    <3> QED
      BY <3>1 DEF FlagsRead
  <2>2. PICK j \in 1 .. i - 1 : calls[j].node.cls = "ASTAllocExpr"
    BY <2>1 DEF Enclosed
  <2>3. j \in 1 .. m
    OBVIOUS
  <2>4. calls'[j].node.cls = "ASTAllocExpr"
    BY <2>2, <2>3
  <2> QED
    BY <2>2, <2>4 DEF Enclosed
<1>2. ASSUME NEW i \in 2 .. m, IsAllocExpr(calls'[i - 1]) PROVE calls'[i].isAlloc
  <2>1. i - 1 \in 1 .. m /\ i \in 1 .. m /\ i \in 2 .. Len(calls)
    OBVIOUS
  <2> QED
    BY <1>2, <2>1 DEF FlagsRead, IsAllocExpr
<1> QED
  BY <1>1, <1>2 DEF FlagsRead

(* A frame that goes has left the flag as its owner below needs it.         *)
LEMMA AllocReturns == ASSUME AllocInv, Returns, UNCHANGED allocFlag PROVE AllocInv'
<1>1. Stack /\ allocFlag \in BOOLEAN /\ FlagHasOwner /\ FlagForArgument /\ FlagsRead
  BY DEF AllocInv
<1>2. calls # << >> /\ Top.todo = << >>
  BY DEF Returns
<1>3. PICK m \in Nat : m = Len(calls) /\ DOMAIN calls = 1 .. m /\ m >= 1
  BY <1>1, <1>2, TopFacts
<1>4. PICK k \in Nat : k = m - 1
  <2>1. m - 1 \in Nat
    BY <1>3
  <2> QED
    BY <2>1
<1>5. Stack'
  BY <1>1, StackReturns
<1>6. /\ Len(calls') = k /\ DOMAIN calls' = 1 .. k
      /\ \A i \in 1 .. k - 1 : calls'[i] = calls[i]
  BY <1>3, <1>4, <1>5, ListFacts DEF Returns, FirstFrames, Stack
<1>7. k >= 1 => Moved(k)
  BY <1>3, <1>4 DEF Returns
<1>8. k >= 1 => Head(calls[k].todo).do = "codegen" /\ FrameOK(calls[k]) /\ k \in 1 .. m
  BY <1>1, <1>3, <1>4 DEF Stack
<1>9. ASSUME k >= 1, IsAllocExpr(calls[k]) PROVE Len(calls[k].todo) = 5 /\ Len(calls'[k].todo) = 4
  <2>1. PICK f : f = calls[k]
    OBVIOUS
  <2>2. FrameOK(f) /\ IsAllocExpr(f) /\ f.todo # << >> /\ Head(f.todo).do = "codegen"
    BY <1>1, <1>3, <1>4, <1>8, <1>9, <2>1 DEF Stack
  <2>3. Len(f.todo) = 5
    BY <2>2, AllocTodo
  <2> QED
    BY <1>7, <1>9, <2>1, <2>3 DEF Moved
<1>10. FlagHasOwner'
  <2> SUFFICES ASSUME allocFlag'
        PROVE  \E i \in DOMAIN calls' : IsAllocExpr(calls'[i]) /\ Len(calls'[i].todo) \in {4, 5}
    BY DEF FlagHasOwner
  <2>1. PICK i \in 1 .. m : IsAllocExpr(calls[i]) /\ Len(calls[i].todo) \in {4, 5}
    BY <1>1, <1>3 DEF FlagHasOwner
  <2>2. i # m
    <3>1. PICK t : t = Top.todo /\ t = calls[m].todo
      BY <1>3 DEF Top
    <3>2. t = << >>
      BY <1>2, <3>1
    <3>3. Len(t) \notin {4, 5}
      BY <3>2
    <3> QED
      BY <2>1, <3>1, <3>3
  <2>3. CASE i = k
    <3>1. IsAllocExpr(calls'[k]) /\ Len(calls'[k].todo) = 4 /\ k \in DOMAIN calls'
      BY <1>6, <1>7, <1>9, <2>1, <2>3 DEF Moved, IsAllocExpr
    <3> QED
      BY <3>1
  <2>4. CASE i \in 1 .. k - 1
    BY <1>6, <2>1, <2>4
  <2> QED
    BY <1>4, <2>1, <2>2, <2>3, <2>4
<1>11. FlagForArgument'
  <2> SUFFICES ASSUME calls' # << >>, IsAllocExpr(Top)', Len(Top'.todo) = 5 PROVE FALSE
    BY DEF FlagForArgument
  <2>1. k >= 1
    BY <1>5, <1>6, ListFacts DEF Stack
  <2>2. Top' = calls'[k]
    BY <1>6 DEF Top
  <2> QED
    BY <1>7, <1>9, <2>1, <2>2 DEF Moved, IsAllocExpr
<1>12. FlagsRead'
  <2>1. \A i \in 1 .. k : calls'[i].node = calls[i].node /\ calls'[i].isAlloc = calls[i].isAlloc
    BY <1>6, <1>7 DEF Moved
  <2>2. k <= m
    BY <1>4
  <2> QED
    BY <1>1, <1>3, <1>6, <2>1, <2>2, FlagsKept
<1> QED
  BY <1>1, <1>5, <1>10, <1>11, <1>12 DEF AllocInv

(* The alloc that sets the flag also resets it.                             *)
LEMMA AllocAdvances ==
    ASSUME AllocInv, Advances,
           \/ Step.do # "allocFlag" /\ UNCHANGED allocFlag
           \/ Step.do = "allocFlag" /\ allocFlag' = Step.to
    PROVE  AllocInv'
<1>1. Stack /\ allocFlag \in BOOLEAN /\ FlagHasOwner /\ FlagForArgument /\ FlagsRead
  BY DEF AllocInv
<1>2. calls # << >> /\ Top.todo # << >> /\ Step.do # "codegen"
  BY DEF Advances
<1>3. PICK m \in Nat : m = Len(calls) /\ DOMAIN calls = 1 .. m /\ m >= 1
  BY <1>1, <1>2, TopFacts
<1>4. PICK f, g : f = calls[m] /\ g = calls'[m] /\ FrameOK(f) /\ f.todo # << >>
  BY <1>1, <1>2, <1>3, TopFacts DEF Top
<1>5. f = Top /\ Step = Head(f.todo)
  BY <1>3, <1>4 DEF Top, Step
<1>6. Stack'
  BY <1>1, StackAdvances
<1>7. /\ Len(calls') = m /\ DOMAIN calls' = 1 .. m
      /\ \A i \in 1 .. m - 1 : calls'[i] = calls[i]
  BY <1>3, <1>6, ListFacts DEF Advances, FirstFrames, Stack
<1>8. /\ g.node = f.node /\ g.isAlloc = f.isAlloc /\ Len(g.todo) = Len(f.todo) - 1
      /\ (IsAllocExpr(f) <=> IsAllocExpr(g))
  BY <1>3, <1>4 DEF Advances, Moved, IsAllocExpr
<1>9. Top' = g /\ m \in DOMAIN calls'
  BY <1>3, <1>4, <1>7 DEF Top
<1>10. ASSUME Step.do = "allocFlag", allocFlag' = Step.to
       PROVE  FlagHasOwner' /\ FlagForArgument' /\ allocFlag' \in BOOLEAN
  <2>1. IsAllocExpr(f)
    BY <1>4, <1>5, <1>10, PlainTodo DEF Ordinary
  <2>2. PICK v : v = Step.to /\ v = allocFlag'
    BY <1>10
  <2>3. /\ v \in BOOLEAN /\ (v <=> Len(f.todo) = 6) /\ Len(f.todo) \in {4, 6}
    BY <1>4, <1>5, <1>10, <2>1, <2>2, AllocTodo
  <2>4. v => Len(g.todo) = 5 /\ IsAllocExpr(g)
    BY <1>8, <2>1, <2>3
  <2>5. ~v => Len(g.todo) # 5
    BY <1>8, <2>3
  <2>6. FlagHasOwner'
    BY <1>4, <1>9, <2>2, <2>4 DEF FlagHasOwner
  <2>7. FlagForArgument'
    BY <1>9, <2>2, <2>5, <2>3 DEF FlagForArgument
  <2> QED
    BY <2>2, <2>3, <2>6, <2>7
<1>11. ASSUME Step.do # "allocFlag", UNCHANGED allocFlag
       PROVE  FlagHasOwner' /\ FlagForArgument' /\ allocFlag' \in BOOLEAN
  <2>1. IsAllocExpr(f) => Len(f.todo) \in 1 .. 6 /\ Len(f.todo) \notin {4, 5, 6}
    BY <1>2, <1>4, <1>5, <1>11, AllocTodo
  <2>2. IsAllocExpr(g) => Len(g.todo) \notin {4, 5}
    BY <1>8, <2>1
  <2>3. FlagHasOwner'
    <3> SUFFICES ASSUME allocFlag'
        PROVE  \E i \in DOMAIN calls' : IsAllocExpr(calls'[i]) /\ Len(calls'[i].todo) \in {4, 5}
      BY DEF FlagHasOwner
    <3>1. PICK i \in 1 .. m : IsAllocExpr(calls[i]) /\ Len(calls[i].todo) \in {4, 5}
      BY <1>1, <1>3, <1>11 DEF FlagHasOwner
    <3>2. i # m
      BY <1>4, <2>1, <3>1
    <3>3. i \in 1 .. m - 1 /\ i \in DOMAIN calls'
      BY <1>7, <3>1, <3>2
    <3> QED
      BY <1>7, <3>1, <3>3
  <2>4. FlagForArgument'
    BY <1>9, <2>2 DEF FlagForArgument
  <2> QED
    BY <1>1, <1>11, <2>3, <2>4
<1>12. FlagsRead'
  <2>1. \A i \in 1 .. m : calls'[i].node = calls[i].node /\ calls'[i].isAlloc = calls[i].isAlloc
    BY <1>4, <1>7, <1>8
  <2> QED
    BY <1>1, <1>3, <1>7, <2>1, FlagsKept
<1> QED
  BY <1>6, <1>10, <1>11, <1>12 DEF AllocInv

LEMMA AllocStep == AllocInv /\ [Next]_vars => AllocInv'
<1> SUFFICES ASSUME AllocInv, [Next]_vars PROVE AllocInv'
  OBVIOUS
<1>1. ASSUME UNCHANGED <<calls, allocFlag>> PROVE AllocInv'
  BY <1>1 DEF AllocInv, Stack, FlagHasOwner, FlagForArgument, FlagsRead, Top, Enclosed
<1>2. CASE Next
  <2>1. Stack
    BY DEF AllocInv
  <2> QED
    BY <1>1, <1>2, <2>1, StepShape, AllocCalls, AllocReturns, AllocAdvances
<1>3. CASE UNCHANGED vars
  BY <1>1, <1>3 DEF vars
<1> QED
  BY <1>2, <1>3

LEMMA RecordsFollow == AllocInv => RecordsWhereTheyBelong
<1> SUFFICES ASSUME AllocInv, NEW i \in 2 .. Len(calls), calls[i].node.cls = "ASTRecordExpr"
             PROVE  /\ calls[i - 1].node.cls = "ASTAllocExpr" => calls[i].isAlloc
                    /\ calls[i].isAlloc => Enclosed(i)
  BY DEF RecordsWhereTheyBelong
<1>1. i \in DOMAIN calls
  BY ListFacts DEF AllocInv, Stack
<1> QED
  BY <1>1 DEF AllocInv, FlagsRead, IsAllocExpr

(* A record literal that is the argument of an alloc is stored on the heap, *)
(* and one that is in no alloc's argument on the stack: whatever the program *)
(* and however deeply allocs and records are nested, the isAlloc that        *)
(* ASTRecordExpr's codegen() reads (CodeGenFunctions.cpp) is TRUE in the     *)
(* first case and FALSE in the second.                                       *)
THEOREM Records == Spec => []RecordsWhereTheyBelong
<1>1. Spec => []AllocInv
  BY AllocInit, AllocStep, PTL DEF Spec
<1> QED
  BY <1>1, RecordsFollow, PTL
=============================================================================
