---------------------------- MODULE DriverProofs ----------------------------
(***************************************************************************)
(* Proofs about the driver, for every command line and every source.       *)
(***************************************************************************)
EXTENDS Driver, SequenceTheorems, WellFoundedInduction, TLAPS

Typed == rejectedBy \subseteq Phases \cup {"number"}

(* What is known of the source when a phase is reached: those before it     *)
(* have passed.                                                             *)
Parsed == {"open", "parse", "number"} \cap rejectedBy = {}
Checked ==
    /\ Parsed /\ {"symbols", "assignable"} \cap rejectedBy = {}
    /\ options.dt \/ "types" \notin rejectedBy

Reached ==
    /\ \/ pc \in {"open", "end"}
       \/ pc = "parse" /\ "open" \notin rejectedBy
       \/ pc = "symbols" /\ Parsed
       \/ pc = "assignable" /\ Parsed /\ "symbols" \notin rejectedBy
       \/ pc = "types" /\ Parsed /\ {"symbols", "assignable"} \cap rejectedBy = {}
       \/ pc \in {"pretty", "tables"} /\ Checked
       \/ pc \in {"callGraph", "generate"} /\ Checked /\ ~NoTypes
       \/ pc \in {"optimize", "emit"} /\ Checked /\ ~NoTypes /\ "generate" \notin rejectedBy
    /\ pc # "end" => written = "none"

LEMMA CheckedIsAnalyzed == Typed => (Checked <=> Analyzed)
BY DEF Typed, Checked, Parsed, Analyzed, PassesUpTo, Phases

LEMMA AcceptedIs ==
    Typed => (Accepted <=> Checked /\ ~NoTypes /\ "generate" \notin rejectedBy)
BY DEF Typed, Checked, Parsed, Accepted, PassesUpTo, Phases

(* How a run ends. *)
Written ==
    pc = "end" =>
        \/ /\ Accepted /\ written # "none" /\ outcome = "success"
        \/ /\ ~Accepted /\ ~Unhandled /\ written = "none" /\ outcome \in Failing
        \/ /\ ~Accepted /\ Unhandled /\ written = "none"
           /\ outcome \in {"terminated", "null dereference"}

(* What has been printed when a phase is reached.                           *)
Texts == {"program", "types", "symbols", "call graph"}
Program == IF options.pp THEN <<"program">> ELSE << >>
Tables == IF options.pt THEN <<"types">> ELSE IF options.ps THEN <<"symbols">> ELSE << >>
Graph == IF options.pcg THEN <<"call graph">> ELSE << >>

Shown ==
    /\ pc \in {"open", "parse", "symbols", "assignable", "types", "pretty"} => printed = << >>
    /\ pc = "tables" => printed = Program
    /\ pc = "callGraph" => printed = Program \o Tables
    /\ pc \in {"generate", "optimize", "emit"} => printed = Program \o (Tables \o Graph)
    /\ PrintedIffAnalyzed

LEMMA InitReached == Init => Typed /\ Reached /\ Written
<1> SUFFICES ASSUME Init PROVE Typed /\ Reached /\ Written
  OBVIOUS
<1>1. Typed
  BY SourcesAssumption DEF Init, Typed
<1>2. pc = "open" /\ written = "none"
  BY Zenon DEF Init
<1>3. Reached /\ Written
  BY <1>2 DEF Reached, Written
<1> QED
  BY <1>1, <1>3

LEMMA NextTyped ==
    Typed /\ [Next]_vars => Typed' /\ options' = options /\ rejectedBy' = rejectedBy
<1> SUFFICES ASSUME Typed, [Next]_vars
             PROVE  Typed' /\ options' = options /\ rejectedBy' = rejectedBy
  OBVIOUS
<1>1. options' = options /\ rejectedBy' = rejectedBy
  BY DEF Next, vars, open, parse, symbols, assignable, types, pretty, tables, callGraph, generate,
     runFunction, runModule, emit, Phase, Report, Pass, Show, Command
<1> QED
  BY <1>1 DEF Typed

LEMMA NextWritten ==
    Typed /\ Reached /\ Written /\ [Next]_vars => (Reached /\ Written)'
<1> SUFFICES ASSUME Typed, Reached, Written, [Next]_vars PROVE (Reached /\ Written)'
  OBVIOUS
<1>1. Typed' /\ options' = options /\ rejectedBy' = rejectedBy
  BY NextTyped
<1>2. /\ Checked' <=> Checked
      /\ Parsed' <=> Parsed
      /\ NoTypes' <=> NoTypes
      /\ Accepted' <=> Accepted
      /\ Unhandled' <=> Unhandled
  BY <1>1 DEF Checked, Parsed, NoTypes, Accepted, Unhandled, PassesUpTo, Analyzed
<1>3. /\ Accepted <=> Checked /\ ~NoTypes /\ "generate" \notin rejectedBy
      /\ Unhandled <=> \/ Checked /\ NoTypes
                       \/ "number" \in rejectedBy /\ {"open", "parse"} \cap rejectedBy = {}
  BY AcceptedIs, CheckedIsAnalyzed DEF Unhandled
<1> USE <1>1, <1>2, <1>3
<1>4. CASE open
  BY <1>4 DEF open, Phase, Report, Pass, Reached, Written, Failing, Checked, Parsed
<1>5. CASE parse
  BY <1>5 DEF parse, Report, Pass, Reached, Written, Failing, Checked, Parsed
<1>6. CASE symbols
  BY <1>6 DEF symbols, Phase, Report, Pass, Reached, Written, Failing, Checked, Parsed
<1>7. CASE assignable
  BY <1>7 DEF assignable, Phase, Report, Pass, Reached, Written, Failing, Checked, Parsed
<1>8. CASE types
  BY <1>8 DEF types, Report, Pass, Reached, Written, Failing, Checked, Parsed
<1>9. CASE pretty
  BY <1>9 DEF pretty, Show, Reached, Written
<1>10. CASE tables
  BY <1>10 DEF tables, Show, Report, Reached, Written, NoTypes
<1>11. CASE callGraph
  BY <1>11 DEF callGraph, Show, Reached, Written
<1>12. CASE generate
  BY <1>12 DEF generate, Phase, Report, Pass, Reached, Written, Failing, Checked, Parsed
<1>13. CASE runFunction \/ runModule
  BY <1>13 DEF runFunction, runModule, Reached, Written
<1>14. CASE emit
  BY <1>14 DEF emit, Reached, Written
<1>15. CASE UNCHANGED vars
  BY <1>15 DEF vars, Reached, Written
<1> QED
  BY <1>4, <1>5, <1>6, <1>7, <1>8, <1>9, <1>10, <1>11, <1>12, <1>13, <1>14, <1>15 DEF Next

LEMMA WrittenIs == Written => WrittenIffAccepted
<1> SUFFICES ASSUME Written, pc = "end"
             PROVE  /\ (written # "none") = Accepted
                    /\ (outcome = "success") = Accepted
                    /\ (outcome \in Failing) = (~Accepted /\ ~Unhandled)
  BY DEF WrittenIffAccepted, Ended
<1>1. /\ Accepted \in BOOLEAN
      /\ (written # "none") <=> Accepted
      /\ (outcome = "success") <=> Accepted
      /\ (outcome \in Failing) <=> (~Accepted /\ ~Unhandled)
  BY DEF Written, Failing, Accepted
<1> QED
  BY <1>1

(* Whatever the options and the source, a file is written exactly for a     *)
(* program that no phase left on rejects, the process says "success" of     *)
(* that program alone, and every other run reports why but for the two      *)
(* that nothing handles.                                                    *)
THEOREM WritesWhatIsAccepted == Spec => []WrittenIffAccepted
<1>1. Init => Typed /\ Reached /\ Written
  BY InitReached
<1>2. Typed /\ Reached /\ Written /\ [Next]_vars => (Typed /\ Reached /\ Written)'
  BY NextTyped, NextWritten
<1>3. Written => WrittenIffAccepted
  BY WrittenIs
<1> QED
  BY <1>1, <1>2, <1>3, PTL DEF Spec
-----------------------------------------------------------------------------
LEMMA TextsTyping ==
    Program \in Seq(Texts) /\ Tables \in Seq(Texts) /\ Graph \in Seq(Texts)
<1>1. /\ << >> \in Seq(Texts) /\ <<"program">> \in Seq(Texts) /\ <<"types">> \in Seq(Texts)
      /\ <<"symbols">> \in Seq(Texts) /\ <<"call graph">> \in Seq(Texts)
  BY DEF Texts
<1>2. Program \in Seq(Texts)
  BY <1>1, Zenon DEF Program
<1>3. Tables \in Seq(Texts)
  BY <1>1, Zenon DEF Tables
<1>4. Graph \in Seq(Texts)
  BY <1>1, Zenon DEF Graph
<1> QED
  BY <1>2, <1>3, <1>4

LEMMA NextShown ==
    Typed /\ Reached /\ Shown /\ [Next]_vars => Shown'
<1> SUFFICES ASSUME Typed, Reached, Shown, [Next]_vars PROVE Shown'
  OBVIOUS
<1>1. Typed' /\ options' = options /\ rejectedBy' = rejectedBy
  BY NextTyped
<1>2. /\ Program' = Program /\ Tables' = Tables /\ Graph' = Graph
      /\ Analyzed' <=> Analyzed
      /\ Asked' = Asked
      /\ Checked <=> Analyzed
  BY <1>1, CheckedIsAnalyzed DEF Program, Tables, Graph, Analyzed, PassesUpTo, Asked, NoTypes
<1>3. PrintedIffAnalyzed' <=> (pc' = "end" => printed' = IF Analyzed THEN Asked ELSE << >>)
  BY <1>2 DEF PrintedIffAnalyzed, Ended
<1>4. ASSUME NEW error, Report(error), printed = IF Analyzed THEN Asked ELSE << >>
      PROVE  Shown'
  BY <1>3, <1>4 DEF Report, Shown
<1>5. CASE open
  BY <1>2, <1>3, <1>5 DEF open, Phase, Report, Pass, Reached, Shown, Checked, Parsed
<1>6. CASE parse
  BY <1>2, <1>3, <1>6 DEF parse, Report, Pass, Reached, Shown, Checked, Parsed
<1>7. CASE symbols
  BY <1>2, <1>3, <1>7 DEF symbols, Phase, Report, Pass, Reached, Shown, Checked, Parsed
<1>8. CASE assignable
  BY <1>2, <1>3, <1>8 DEF assignable, Phase, Report, Pass, Reached, Shown, Checked, Parsed
<1>9. CASE types
  BY <1>2, <1>3, <1>9 DEF types, Report, Pass, Reached, Shown, Checked, Parsed
<1>10. CASE pretty
  <2>1. printed = << >> /\ pc' = "tables"
        /\ printed' = IF options.pp THEN Append(printed, "program") ELSE printed
    BY <1>10 DEF pretty, Show, Shown
  <2>2. Append(<< >>, "program") = <<"program">>
    OBVIOUS
  <2>3. printed' = Program
    BY <2>1, <2>2 DEF Program
  <2> QED
    BY <1>2, <1>3, <2>1, <2>3 DEF Shown
<1>11. CASE tables
  <2>1. pc = "tables" /\ printed = Program /\ Analyzed
    BY <1>2, <1>11 DEF tables, Shown, Reached
  <2>2. CASE NoTypes
    <3>1. Asked = Program
      BY <2>2, TextsTyping, ConcatEmptySeq DEF Asked, Program
    <3> QED
      BY <1>3, <1>4, <1>11, <2>1, <2>2, <3>1 DEF tables, NoTypes
  <2>3. CASE ~NoTypes
    <3>1. pc' = "callGraph"
      BY <1>11, <2>3 DEF tables, NoTypes, Show
    <3>2. printed' = Program \o Tables
      <4>1. CASE options.pt
        <5>1. printed' = Append(Program, "types")
          BY <1>11, <2>1, <2>3, <4>1 DEF tables, NoTypes, Show
        <5> QED
          BY <4>1, <5>1, TextsTyping, AppendProperties DEF Tables
      <4>2. CASE ~options.pt /\ options.ps
        <5>1. printed' = Append(Program, "symbols")
          BY <1>11, <2>1, <2>3, <4>2 DEF tables, NoTypes, Show
        <5> QED
          BY <4>2, <5>1, TextsTyping, AppendProperties DEF Tables
      <4>3. CASE ~options.pt /\ ~options.ps
        <5>1. printed' = Program
          BY <1>11, <2>1, <2>3, <4>3 DEF tables, NoTypes, Show
        <5> QED
          BY <4>3, <5>1, TextsTyping, ConcatEmptySeq DEF Tables
      <4> QED
        BY <4>1, <4>2, <4>3
    <3> QED
      BY <1>2, <1>3, <3>1, <3>2 DEF Shown
  <2> QED
    BY <2>2, <2>3
<1>12. CASE callGraph
  <2>1. /\ pc = "callGraph" /\ printed = Program \o Tables /\ pc' = "generate"
        /\ printed' = IF options.pcg THEN Append(printed, "call graph") ELSE printed
    BY <1>12 DEF callGraph, Show, Shown
  <2>2. Program \o Tables \in Seq(Texts)
    BY TextsTyping, ConcatProperties
  <2>3. printed' = (Program \o Tables) \o Graph
    <3> DEFINE s == Program \o Tables
    <3>1. printed' = IF options.pcg THEN Append(s, "call graph") ELSE s
      BY <2>1
    <3>2. s \in Seq(Texts)
      BY <2>2
    <3> HIDE DEF s
    <3>3. CASE options.pcg
      <4>1. Append(s, "call graph") = s \o <<"call graph">>
        BY <3>2, "call graph" \in Texts, AppendIsConcat DEF Texts
      <4> QED
        BY <3>1, <3>3, <4>1 DEF Graph, s
    <3>4. CASE ~options.pcg
      <4>1. s \o << >> = s
        BY <3>2, ConcatEmptySeq
      <4> QED
        BY <3>1, <3>4, <4>1 DEF Graph, s
    <3> QED
      BY <3>3, <3>4
  <2>4. printed' = Program \o (Tables \o Graph)
    BY <2>3, TextsTyping, ConcatAssociative
  <2> QED
    BY <1>2, <1>3, <2>1, <2>4 DEF Shown
<1>13. (pc \in {"generate", "optimize", "emit"}) => printed = IF Analyzed THEN Asked ELSE << >>
  BY <1>2 DEF Reached, Shown, Asked, Program, Tables, Graph
<1>14. CASE generate
  BY <1>2, <1>3, <1>4, <1>13, <1>14 DEF generate, Phase, Pass, Shown
<1>15. CASE runFunction \/ runModule
  BY <1>2, <1>3, <1>15 DEF runFunction, runModule, Shown
<1>16. CASE emit
  BY <1>3, <1>13, <1>16 DEF emit, Shown
<1>17. CASE UNCHANGED vars
  BY <1>2, <1>3, <1>17 DEF vars, Shown, PrintedIffAnalyzed, Ended
<1> QED
  BY <1>5, <1>6, <1>7, <1>8, <1>9, <1>10, <1>11, <1>12, <1>14, <1>15, <1>16, <1>17 DEF Next

(* Whatever the options and the source, what a run has printed when it ends *)
(* is all that was asked for, in the order of the phases, if the analyses   *)
(* accept the source, and nothing if they do not.                           *)
THEOREM PrintsWhatIsAnalyzed == Spec => []PrintedIffAnalyzed
<1>1. Init => Typed /\ Reached /\ Written /\ Shown
  <2>1. Init => pc = "open" /\ printed = << >>
    BY Zenon DEF Init
  <2>2. pc = "open" /\ printed = << >> => Shown
    BY DEF Shown, PrintedIffAnalyzed, Ended
  <2> QED
    BY <2>1, <2>2, InitReached
<1>2. Typed /\ Reached /\ Written /\ Shown /\ [Next]_vars => (Typed /\ Reached /\ Written /\ Shown)'
  BY NextTyped, NextWritten, NextShown
<1>3. Shown => PrintedIffAnalyzed
  BY DEF Shown
<1> QED
  BY <1>1, <1>2, <1>3, PTL DEF Spec
-----------------------------------------------------------------------------
(* Induction over the naturals as a statement about sets, from the least     *)
(* element of a set that is not empty, and from it what a function that is   *)
(* defined by recursion is.                                                  *)
Before == {p \in Nat \X Nat : p[1] < p[2]}

LEMMA Induction ==
    ASSUME NEW S, 0 \in S, \A n \in Nat : n \in S => n + 1 \in S
    PROVE  Nat \subseteq S
<1> SUFFICES ASSUME Nat \ S # {} PROVE FALSE
  OBVIOUS
<1>1. OpToRel(<, Nat) = Before
  BY DEF OpToRel, Before
<1>2. PICK n \in Nat \ S : \A m \in Nat \ S : ~(<<m, n>> \in Before)
  BY <1>1, NatLessThanWellFounded, WFMin
<1>3. n # 0 /\ n - 1 \in Nat
  BY <1>2
<1>4. <<n - 1, n>> \in Before
  BY <1>3 DEF Before
<1>5. n - 1 \in S
  BY <1>2, <1>3, <1>4
<1> QED
  BY <1>2, <1>3, <1>5

Repeats(f, n, s) == f = [k \in 0 .. n |-> IF k = 0 THEN << >> ELSE f[k - 1] \o s]

RepeatsForEver(t, s) == t = [n \in Nat |-> IF n = 0 THEN << >> ELSE t[n - 1] \o s]

LEMMA RepeatsAgree ==
    ASSUME NEW s, NEW n \in Nat, NEW m \in Nat, NEW f, NEW g, Repeats(f, n, s), Repeats(g, m, s)
    PROVE  \A k \in Nat : k <= n /\ k <= m => f[k] = g[k]
<1> DEFINE S == {k \in Nat : k <= n /\ k <= m => f[k] = g[k]}
<1>1. 0 \in S
  BY DEF Repeats
<1>2. ASSUME NEW k \in Nat, k \in S PROVE k + 1 \in S
  <2>1. ASSUME k + 1 <= n, k + 1 <= m PROVE f[k + 1] = g[k + 1]
    <3>1. f[k] = g[k]
      BY <1>2, <2>1
    <3>2. k + 1 \in 0 .. n /\ k + 1 \in 0 .. m /\ k + 1 # 0 /\ (k + 1) - 1 = k
      BY <2>1
    <3>3. f[k + 1] = f[k] \o s
      BY <3>2 DEF Repeats
    <3>4. g[k + 1] = g[k] \o s
      BY <3>2 DEF Repeats
    <3> QED
      BY <3>1, <3>3, <3>4
  <2> QED
    BY <2>1
<1> HIDE DEF S
<1>3. Nat \subseteq S
  BY <1>1, <1>2, Induction
<1> QED
  BY <1>3 DEF S

LEMMA RepeatsExist == ASSUME NEW s PROVE \A n \in Nat : \E f : Repeats(f, n, s)
<1> DEFINE S == {n \in Nat : \E f : Repeats(f, n, s)}
<1>1. 0 \in S
  <2>1. Repeats([k \in 0 .. 0 |-> << >>], 0, s)
    BY DEF Repeats
  <2> QED
    BY <2>1
<1>2. ASSUME NEW n \in Nat, n \in S PROVE n + 1 \in S
  <2>1. PICK f : Repeats(f, n, s)
    BY <1>2
  <2>2. PICK g : g = [k \in 0 .. n + 1 |-> IF k = 0 THEN << >> ELSE f[k - 1] \o s]
    OBVIOUS
  <2>3. ASSUME NEW k \in 0 .. n PROVE g[k] = f[k]
    <3>1. f[k] = IF k = 0 THEN << >> ELSE f[k - 1] \o s
      BY <2>1 DEF Repeats
    <3>2. k \in 0 .. n + 1
      OBVIOUS
    <3> QED
      BY <2>2, <3>1, <3>2
  <2>4. \A k \in 0 .. n + 1 : k # 0 => k - 1 \in 0 .. n
    OBVIOUS
  <2>5. g = [k \in 0 .. n + 1 |-> IF k = 0 THEN << >> ELSE g[k - 1] \o s]
    BY <2>2, <2>3, <2>4
  <2>6. Repeats(g, n + 1, s)
    BY <2>5 DEF Repeats
  <2> QED
    BY <2>6
<1> HIDE DEF S
<1>3. Nat \subseteq S
  BY <1>1, <1>2, Induction
<1> QED
  BY <1>3 DEF S

(* What Times computes. *)
LEMMA TimesFacts ==
    ASSUME NEW s
    PROVE  /\ Times(s)[0] = << >>
           /\ \A n \in Nat : Times(s)[n + 1] = Times(s)[n] \o s
<1> DEFINE F(n) == CHOOSE f : Repeats(f, n, s)
           T == [n \in Nat |-> F(n)[n]]
<1>1. \A n \in Nat : Repeats(F(n), n, s)
  BY RepeatsExist
<1> HIDE DEF F
<1>2. T = [n \in Nat |-> IF n = 0 THEN << >> ELSE T[n - 1] \o s]
  <2>1. T[0] = << >>
    BY <1>1 DEF Repeats
  <2>2. ASSUME NEW n \in Nat, n # 0 PROVE T[n] = T[n - 1] \o s
    <3>1. n - 1 \in Nat /\ n - 1 <= n
      BY <2>2
    <3>2. F(n)[n] = F(n)[n - 1] \o s
      BY <1>1, <2>2 DEF Repeats
    <3>3. F(n)[n - 1] = F(n - 1)[n - 1]
      BY <1>1, <3>1, RepeatsAgree
    <3> QED
      BY <3>1, <3>2, <3>3
  <2> QED
    BY <2>1, <2>2
<1>3. Times(s) = CHOOSE t : RepeatsForEver(t, s)
  BY DEF Times, RepeatsForEver
<1> HIDE DEF T
<1>4. RepeatsForEver(T, s)
  BY <1>2 DEF RepeatsForEver
<1>5. RepeatsForEver(CHOOSE t : RepeatsForEver(t, s), s)
  BY <1>4
<1>6. RepeatsForEver(Times(s), s)
  BY <1>3, <1>5
<1>7. /\ Times(s)[0] = << >>
      /\ \A n \in Nat : n # 0 => Times(s)[n] = Times(s)[n - 1] \o s
  BY <1>6 DEF RepeatsForEver
<1>8. ASSUME NEW n \in Nat PROVE Times(s)[n + 1] = Times(s)[n] \o s
  <2>1. n + 1 \in Nat /\ n + 1 # 0 /\ (n + 1) - 1 = n
    OBVIOUS
  <2> QED
    BY <1>7, <2>1
<1> QED
  BY <1>7, <1>8

-----------------------------------------------------------------------------
(* How far the rounds are: each function has had one more than the rounds   *)
(* that are done if its turn is over.                                       *)
Names == {FunctionList[i] : i \in DOMAIN FunctionList}
RoundsOf(i) == IF i < turn THEN round + 1 ELSE round
Fresh == round = 0 /\ turn = 1 /\ ranOnAll = << >>
Finished ==
    IF options.do = "all" THEN Fresh ELSE round = Rounds /\ turn = 1 /\ ranOnAll = ThePM

Optimizing ==
    /\ options \in Options
    /\ round \in Nat /\ turn \in 1 .. Len(FunctionList)
    /\ round <= Rounds /\ (turn > 1 => round < Rounds)
    /\ DOMAIN ran = Names
    /\ \A i \in DOMAIN FunctionList : ran[FunctionList[i]] = Times(TheFPM)[RoundsOf(i)]
    /\ pc \notin {"optimize", "emit", "end"} => Fresh
    /\ pc = "optimize" => options.do # "all" /\ ranOnAll = << >>
    /\ pc = "emit" => Finished
    /\ pc = "end" /\ written # "none" => Finished
    /\ pc # "end" => written = "none"

LEMMA FunctionListFacts ==
    /\ Len(FunctionList) \in Nat /\ Len(FunctionList) > 0
    /\ DOMAIN FunctionList = 1 .. Len(FunctionList)
BY FunctionListAssumption

LEMMA InitOptimizing == Init => Optimizing
<1> SUFFICES ASSUME Init PROVE Optimizing
  OBVIOUS
<1>1. /\ options \in Options /\ pc = "open" /\ round = 0 /\ turn = 1 /\ ranOnAll = << >>
      /\ written = "none" /\ ran = [f \in Names |-> << >>]
  BY DEF Init, Names
<1>2. options.rounds \in Int
  BY <1>1, OptionsAssumption
<1>3. round \in Nat /\ turn \in 1 .. Len(FunctionList) /\ round <= Rounds /\ ~(turn > 1)
  BY <1>1, <1>2, FunctionListFacts DEF Rounds
<1>4. ASSUME NEW i \in DOMAIN FunctionList
      PROVE  ran[FunctionList[i]] = Times(TheFPM)[RoundsOf(i)]
  <2>1. ran[FunctionList[i]] = << >>
    BY <1>1 DEF Names
  <2>2. RoundsOf(i) = 0
    BY <1>1, FunctionListFacts DEF RoundsOf
  <2> QED
    BY <2>1, <2>2, TimesFacts
<1> QED
  BY <1>1, <1>3, <1>4 DEF Optimizing, Fresh

LEMMA NextOptimizing == Typed /\ Optimizing /\ [Next]_vars => Optimizing'
<1> SUFFICES ASSUME Typed, Optimizing, [Next]_vars PROVE Optimizing'
  OBVIOUS
<1>1. options' = options
  BY NextTyped
<1>2. Rounds' = Rounds /\ TheFPM' = TheFPM /\ ThePM' = ThePM /\ Rounds \in Nat /\ options.rounds \in Int
  BY <1>1, OptionsAssumption DEF Rounds, TheFPM, ThePM, Optimizing
<1>3. ASSUME UNCHANGED Optimized
      PROVE  /\ options' \in Options
             /\ round' \in Nat /\ turn' \in 1 .. Len(FunctionList)
             /\ round' <= Rounds /\ (turn' > 1 => round' < Rounds)
             /\ DOMAIN ran' = Names
             /\ \A i \in DOMAIN FunctionList : ran'[FunctionList[i]] = Times(TheFPM)[RoundsOf(i)']
             /\ (Fresh' <=> Fresh) /\ (Finished' <=> Finished) /\ ranOnAll' = ranOnAll
  <2>1. round' = round /\ turn' = turn /\ ran' = ran /\ ranOnAll' = ranOnAll
    BY <1>3 DEF Optimized
  <2>2. \A i \in DOMAIN FunctionList : RoundsOf(i)' = RoundsOf(i)
    BY <2>1 DEF RoundsOf
  <2>3. (Fresh' <=> Fresh) /\ (Finished' <=> Finished)
    BY <1>1, <1>2, <2>1 DEF Fresh, Finished
  <2> QED
    BY <1>1, <2>1, <2>2, <2>3 DEF Optimizing
<1>4. CASE open \/ symbols \/ assignable
  <2>1. /\ UNCHANGED Optimized /\ pc \notin {"optimize", "emit", "end"}
        /\ pc' \notin {"optimize", "emit"} /\ written' = written
    BY <1>4 DEF open, symbols, assignable, Phase, Report, Pass
  <2> QED
    BY <1>2, <1>3, <2>1 DEF Optimizing
<1>5. CASE parse \/ types \/ pretty \/ tables \/ callGraph
  <2>1. /\ UNCHANGED Optimized /\ pc \notin {"optimize", "emit", "end"}
        /\ pc' \notin {"optimize", "emit"} /\ written' = written
    BY <1>5 DEF parse, types, pretty, tables, callGraph, Report, Pass, Show
  <2> QED
    BY <1>2, <1>3, <2>1 DEF Optimizing
<1>6. CASE generate
  <2>1. /\ UNCHANGED Optimized /\ pc = "generate" /\ written' = written
        /\ pc' \in {"end", "emit", "optimize"}
        /\ pc' = "emit" => options.do = "all"
        /\ pc' = "optimize" => options.do # "all"
    BY <1>6 DEF generate, Phase, Report, Pass
  <2> QED
    BY <1>1, <1>2, <1>3, <2>1 DEF Optimizing, Fresh, Finished
<1>7. CASE runFunction
  <2>1. /\ pc = "optimize" /\ round < options.rounds /\ turn <= Len(FunctionList)
        /\ ran' = [ran EXCEPT ![FunctionList[turn]] = @ \o TheFPM]
        /\ turn' = IF turn = Len(FunctionList) THEN 1 ELSE turn + 1
        /\ round' = IF turn = Len(FunctionList) THEN round + 1 ELSE round
        /\ pc' = pc /\ ranOnAll' = ranOnAll /\ written' = written
    BY <1>7 DEF runFunction
  <2>2. round \in Nat /\ turn \in 1 .. Len(FunctionList) /\ DOMAIN ran = Names
    BY DEF Optimizing
  <2>n. PICK n \in Nat : n = Len(FunctionList) /\ n > 0 /\ DOMAIN FunctionList = 1 .. n
    BY FunctionListFacts
  <2>t. PICK t \in 1 .. n : t = turn
    BY <2>2, <2>n
  <2>r. PICK r \in Nat : r = round
    BY <2>2
  <2>s. \/ t = n /\ turn' = 1 /\ round' = r + 1
        \/ t < n /\ turn' = t + 1 /\ round' = r
    BY <2>1, <2>n, <2>t, <2>r
  <2>b. Rounds = options.rounds /\ r < Rounds
    BY <1>2, <2>1, <2>r DEF Rounds, Optimizing
  <2>3. /\ round' \in Nat /\ turn' \in 1 .. Len(FunctionList)
        /\ round' <= Rounds /\ (turn' > 1 => round' < Rounds)
    <3>1. CASE t = n /\ turn' = 1 /\ round' = r + 1
      BY <1>2, <2>n, <2>b, <3>1
    <3>2. CASE t < n /\ turn' = t + 1 /\ round' = r
      <4>1. t + 1 \in 1 .. n
        BY <3>2
      <4> QED
        BY <1>2, <2>n, <2>b, <3>2, <4>1
    <3> QED
      BY <2>s, <3>1, <3>2
  <2>4. ASSUME NEW i \in 1 .. n
        PROVE  ran'[FunctionList[i]] = Times(TheFPM)[RoundsOf(i)']
    <3>1. /\ FunctionList[i] \in DOMAIN ran /\ FunctionList[t] \in DOMAIN ran
          /\ ran[FunctionList[i]] = Times(TheFPM)[RoundsOf(i)]
      BY <2>2, <2>n DEF Optimizing, Names
    <3>2. CASE i = t
      <4>1. RoundsOf(i) = r /\ RoundsOf(i)' = r + 1
        BY <2>s, <2>t, <2>r, <3>2 DEF RoundsOf
      <4>2. ran'[FunctionList[i]] = ran[FunctionList[i]] \o TheFPM
        BY <2>1, <2>t, <3>1, <3>2
      <4> QED
        BY <3>1, <4>1, <4>2, TimesFacts
    <3>3. CASE i # t
      <4>1. FunctionList[i] # FunctionList[t]
        BY <2>n, <3>3, FunctionListAssumption
      <4>2. ran'[FunctionList[i]] = ran[FunctionList[i]]
        BY <2>1, <2>t, <3>1, <4>1
      <4>3. RoundsOf(i)' = RoundsOf(i)
        BY <2>s, <2>t, <2>r, <3>3 DEF RoundsOf
      <4> QED
        BY <3>1, <4>2, <4>3
    <3> QED
      BY <3>2, <3>3
  <2>5. DOMAIN ran' = Names
    BY <2>1, <2>2
  <2>6. options.do # "all" /\ ranOnAll = << >> /\ options \in Options /\ written = "none"
    BY <2>1 DEF Optimizing
  <2> QED
    BY <1>1, <1>2, <2>1, <2>n, <2>3, <2>4, <2>5, <2>6 DEF Optimizing
<1>8. CASE runModule
  <2>1. /\ pc = "optimize" /\ round >= options.rounds /\ ranOnAll' = ThePM /\ pc' = "emit"
        /\ round' = round /\ turn' = turn /\ ran' = ran /\ written' = written
    BY <1>8 DEF runModule
  <2>2. round = Rounds /\ turn = 1
    BY <1>2, <2>1 DEF Rounds, Optimizing
  <2>3. \A i \in DOMAIN FunctionList : RoundsOf(i)' = RoundsOf(i)
    BY <2>1 DEF RoundsOf
  <2>4. Finished'
    BY <1>1, <1>2, <2>1, <2>2 DEF Finished, Optimizing
  <2> QED
    BY <1>1, <1>2, <2>1, <2>3, <2>4 DEF Optimizing
<1>9. CASE emit
  <2>1. UNCHANGED Optimized /\ pc = "emit" /\ pc' = "end"
    BY <1>9 DEF emit
  <2> QED
    BY <1>2, <1>3, <2>1 DEF Optimizing
<1>10. CASE UNCHANGED vars
  <2>1. UNCHANGED Optimized /\ pc' = pc /\ written' = written
    BY <1>10 DEF vars, Optimized
  <2> QED
    BY <1>1, <1>2, <1>3, <2>1 DEF Optimizing
<1> QED
  BY <1>4, <1>5, <1>6, <1>7, <1>8, <1>9, <1>10 DEF Next

(* What Without leaves.                                                      *)
KeptUpTo(f, n, s, left) ==
    f = [k \in 0 .. n |->
            IF k = 0 THEN << >> ELSE f[k - 1] \o (IF s[k] \in left THEN << >> ELSE <<s[k]>>)]

Kept(f, s, left) == KeptUpTo(f, Len(s), s, left)

LEMMA KeptExists == ASSUME NEW s, NEW left PROVE \A n \in Nat : \E f : KeptUpTo(f, n, s, left)
<1> DEFINE S == {n \in Nat : \E f : KeptUpTo(f, n, s, left)}
<1>1. 0 \in S
  <2>1. KeptUpTo([k \in 0 .. 0 |-> << >>], 0, s, left)
    BY DEF KeptUpTo
  <2> QED
    BY <2>1
<1>2. ASSUME NEW n \in Nat, n \in S PROVE n + 1 \in S
  <2> DEFINE e(k) == IF s[k] \in left THEN << >> ELSE <<s[k]>>
  <2>1. PICK f : f = [k \in 0 .. n |-> IF k = 0 THEN << >> ELSE f[k - 1] \o e(k)]
    BY <1>2 DEF KeptUpTo
  <2> HIDE DEF e
  <2>2. PICK g : g = [k \in 0 .. n + 1 |-> IF k = 0 THEN << >> ELSE f[k - 1] \o e(k)]
    OBVIOUS
  <2>3. ASSUME NEW k \in 0 .. n PROVE g[k] = f[k]
    <3>1. f[k] = IF k = 0 THEN << >> ELSE f[k - 1] \o e(k)
      BY <2>1
    <3>2. k \in 0 .. n + 1
      OBVIOUS
    <3> QED
      BY <2>2, <3>1, <3>2
  <2>4. \A k \in 0 .. n + 1 : k # 0 => k - 1 \in 0 .. n
    OBVIOUS
  <2>5. g = [k \in 0 .. n + 1 |-> IF k = 0 THEN << >> ELSE g[k - 1] \o e(k)]
    BY <2>2, <2>3, <2>4
  <2>6. KeptUpTo(g, n + 1, s, left)
    BY <2>5 DEF KeptUpTo, e
  <2> QED
    BY <2>6
<1> HIDE DEF S
<1>3. Nat \subseteq S
  BY <1>1, <1>2, Induction
<1> QED
  BY <1>3 DEF S

LEMMA WithoutFacts ==
    ASSUME NEW T, NEW s \in Seq(T), NEW left
    PROVE  Without(s, left) \in Seq(T) /\ PassesIn(Without(s, left)) = PassesIn(s) \ left
<1>n. PICK n \in Nat : n = Len(s) /\ DOMAIN s = 1 .. n
  OBVIOUS
<1>1. \E f : Kept(f, s, left)
  BY <1>n, KeptExists DEF Kept
<1>2. PICK f : Kept(f, s, left) /\ Without(s, left) = f[n]
  <2>1. Kept(CHOOSE f : Kept(f, s, left), s, left)
    BY <1>1
  <2>2. Without(s, left) = (CHOOSE f : Kept(f, s, left))[n]
    BY <1>n DEF Without, Kept, KeptUpTo
  <2> QED
    BY <2>1, <2>2
<1> DEFINE Upto(k) == {s[i] : i \in 1 .. k} \ left
           S == {k \in Nat : k <= n => f[k] \in Seq(T) /\ PassesIn(f[k]) = Upto(k)}
<1>3. 0 \in S
  <2>1. f[0] = << >>
    BY <1>2, <1>n DEF Kept, KeptUpTo
  <2>2. Upto(0) = {}
    OBVIOUS
  <2>3. PassesIn(<< >>) = {} /\ << >> \in Seq(T)
    BY DEF PassesIn
  <2> QED
    BY <2>1, <2>2, <2>3
<1>4. ASSUME NEW k \in Nat, k \in S PROVE k + 1 \in S
  <2> SUFFICES ASSUME k + 1 <= n PROVE f[k + 1] \in Seq(T) /\ PassesIn(f[k + 1]) = Upto(k + 1)
    OBVIOUS
  <2>1. f[k] \in Seq(T) /\ PassesIn(f[k]) = Upto(k)
    BY <1>4
  <2>2. f[k + 1] = f[k] \o (IF s[k + 1] \in left THEN << >> ELSE <<s[k + 1]>>)
    <3>1. k + 1 \in 0 .. Len(s) /\ k + 1 # 0 /\ (k + 1) - 1 = k
      BY <1>n
    <3> QED
      BY <1>2, <3>1 DEF Kept, KeptUpTo
  <2>3. s[k + 1] \in T
    BY <1>n
  <2>4. 1 .. k + 1 = (1 .. k) \cup {k + 1}
    OBVIOUS
  <2>5. CASE s[k + 1] \in left
    <3>1. f[k + 1] = f[k]
      BY <2>1, <2>2, <2>5
    <3>2. Upto(k + 1) = Upto(k)
      BY <2>4, <2>5
    <3> QED
      BY <2>1, <3>1, <3>2
  <2>6. CASE s[k + 1] \notin left
    <3>1. f[k + 1] = Append(f[k], s[k + 1])
      BY <2>1, <2>2, <2>3, <2>6
    <3>2. Upto(k + 1) = Upto(k) \cup {s[k + 1]}
      BY <2>4, <2>6
    <3>3. PassesIn(f[k + 1]) = PassesIn(f[k]) \cup {s[k + 1]}
      <4>m. PICK m \in Nat : m = Len(f[k]) /\ DOMAIN f[k] = 1 .. m
        BY <2>1
      <4>1. DOMAIN f[k + 1] = 1 .. m + 1 /\ f[k + 1][m + 1] = s[k + 1]
        BY <2>1, <2>3, <3>1, <4>m
      <4>2. \A i \in 1 .. m : f[k + 1][i] = f[k][i]
        BY <2>1, <2>3, <3>1, <4>m
      <4>3. 1 .. m + 1 = (1 .. m) \cup {m + 1}
        OBVIOUS
      <4>4. PassesIn(f[k + 1]) = {f[k + 1][i] : i \in (1 .. m) \cup {m + 1}}
        BY <4>1, <4>3 DEF PassesIn
      <4>5. PassesIn(f[k]) = {f[k][i] : i \in 1 .. m}
        BY <4>m DEF PassesIn
      <4> QED
        BY <4>1, <4>2, <4>4, <4>5
    <3> QED
      BY <2>1, <2>3, <3>1, <3>2, <3>3
  <2> QED
    BY <2>5, <2>6
<1> HIDE DEF S
<1>5. Nat \subseteq S
  BY <1>3, <1>4, Induction
<1>i. n \in S
  BY <1>5
<1> HIDE DEF Upto
<1>6. f[n] \in Seq(T) /\ PassesIn(f[n]) = Upto(n)
  BY <1>i DEF S
<1> QED
  BY <1>2, <1>6, <1>n DEF PassesIn, Upto

LEMMA PassesInBoth ==
    ASSUME NEW T, NEW s \in Seq(T), NEW t \in Seq(T)
    PROVE  PassesIn(s \o t) = PassesIn(s) \cup PassesIn(t)
<1>n. PICK n \in Nat : n = Len(s) /\ DOMAIN s = 1 .. n
  OBVIOUS
<1>m. PICK m \in Nat : m = Len(t) /\ DOMAIN t = 1 .. m
  OBVIOUS
<1>1. DOMAIN (s \o t) = 1 .. n + m
  BY <1>n, <1>m
<1>2. \A i \in 1 .. n : (s \o t)[i] = s[i]
  BY <1>n, <1>m
<1>3. \A i \in 1 .. m : (s \o t)[n + i] = t[i] /\ n + i \in 1 .. n + m
  BY <1>n, <1>m
<1>4. \A i \in 1 .. n + m : i \in 1 .. n \/ (i - n \in 1 .. m /\ i = n + (i - n))
  OBVIOUS
<1>5. ASSUME NEW p \in PassesIn(s \o t) PROVE p \in PassesIn(s) \cup PassesIn(t)
  <2>1. PICK i \in 1 .. n + m : p = (s \o t)[i]
    BY <1>1 DEF PassesIn
  <2>2. CASE i \in 1 .. n
    BY <1>2, <1>n, <2>1, <2>2 DEF PassesIn
  <2>3. CASE i - n \in 1 .. m /\ i = n + (i - n)
    <3>1. p = t[i - n]
      BY <1>3, <2>1, <2>3
    <3> QED
      BY <1>m, <2>3, <3>1 DEF PassesIn
  <2> QED
    BY <1>4, <2>2, <2>3
<1>6. \A p \in PassesIn(s) : p \in PassesIn(s \o t)
  <2>1. 1 .. n \subseteq 1 .. n + m
    OBVIOUS
  <2> QED
    BY <1>1, <1>2, <1>n, <2>1 DEF PassesIn
<1>7. \A p \in PassesIn(t) : p \in PassesIn(s \o t)
  BY <1>1, <1>3, <1>m DEF PassesIn
<1> QED
  BY <1>5, <1>6, <1>7

(* The first of several turns is the sequence that is repeated.              *)
LEMMA TimesStart ==
    ASSUME NEW T, NEW s \in Seq(T), NEW n \in Nat, n > 0
    PROVE  Times(s)[n] \in Seq(T) /\ Len(s) \in 0 .. Len(Times(s)[n])
           /\ SubSeq(Times(s)[n], 1, Len(s)) = s
<1> DEFINE Starts(t) == t \in Seq(T) /\ Len(s) \in 0 .. Len(t) /\ SubSeq(t, 1, Len(s)) = s
           S == {k \in Nat : Starts(Times(s)[k + 1])}
<1>0. \A k \in Nat : Times(s)[k + 1] = Times(s)[k] \o s
  BY TimesFacts
<1>1. ASSUME NEW t \in Seq(T), Starts(t) PROVE Starts(t \o s)
  <2>1. t \o s \in Seq(T) /\ Len(t \o s) = Len(t) + Len(s) /\ Len(t) \in Nat /\ Len(s) \in Nat
    OBVIOUS
  <2>2. Len(s) \in 0 .. Len(t \o s)
    BY <1>1, <2>1
  <2>3. SubSeq(t \o s, 1, Len(s)) = SubSeq(t, 1, Len(s))
    BY <1>1, <2>1
  <2> QED
    BY <1>1, <2>1, <2>2, <2>3
<1>2. 0 \in S
  <2>1. Times(s)[1] = << >> \o s
    <3>1. Times(s)[0 + 1] = Times(s)[0] \o s
      BY <1>0
    <3>2. Times(s)[0] = << >>
      BY TimesFacts
    <3> QED
      BY <3>1, <3>2
  <2>2. Times(s)[1] = s
    BY <2>1
  <2>3. SubSeq(s, 1, Len(s)) = s /\ Len(s) \in 0 .. Len(s)
    OBVIOUS
  <2> QED
    BY <2>2, <2>3
<1>3. ASSUME NEW k \in Nat, k \in S PROVE k + 1 \in S
  <2>0. k + 1 \in Nat
    OBVIOUS
  <2>1. Times(s)[(k + 1) + 1] = Times(s)[k + 1] \o s
    BY <1>0, <2>0
  <2>2. Starts(Times(s)[k + 1])
    BY <1>3
  <2> HIDE DEF Starts
  <2>3. Times(s)[k + 1] \in Seq(T)
    BY <2>2 DEF Starts
  <2>4. Starts(Times(s)[k + 1] \o s)
    BY <1>1, <2>2, <2>3
  <2>5. Starts(Times(s)[(k + 1) + 1])
    BY <2>1, <2>4
  <2> QED
    BY <2>0, <2>5
<1> HIDE DEF S
<1>4. Nat \subseteq S
  BY <1>2, <1>3, Induction
<1>5. n - 1 \in Nat /\ (n - 1) + 1 = n
  OBVIOUS
<1>6. n - 1 \in S
  BY <1>4, <1>5
<1> QED
  BY <1>5, <1>6 DEF S

(* What the lists of passes hold.                                            *)
Passes ==
    {"cpmtrp", "cicp", "crp", "cgp", "ccsp", "clicm", "cldp", "clrp", "clup", "sink", "jump",
     "dae", "mfun", "hcs", "pil", "funinline"}

LEMMA PassLists ==
    /\ FunctionPasses \in Seq(Passes) /\ SimplePasses \in Seq(Passes) /\ ModulePasses \in Seq(Passes)
    /\ PassesIn(SimplePasses) = {"crp", "cgp", "ccsp", "clup"}
    /\ PassesIn(FunctionPasses) =
          {"cpmtrp", "cicp", "crp", "cgp", "ccsp", "clicm", "cldp", "clrp", "clup", "sink", "jump"}
    /\ PassesIn(ModulePasses) = {"dae", "mfun", "hcs", "pil", "funinline"}
<1>1. FunctionPasses \in Seq(Passes) /\ SimplePasses \in Seq(Passes) /\ ModulePasses \in Seq(Passes)
  BY DEF FunctionPasses, SimplePasses, ModulePasses, Passes
<1>2. PassesIn(SimplePasses) = {"crp", "cgp", "ccsp", "clup"}
  <2>1. DOMAIN SimplePasses = {1, 2, 3, 4}
    BY DEF SimplePasses
  <2> QED
    BY <2>1 DEF PassesIn, SimplePasses
<1>3. PassesIn(FunctionPasses) =
          {"cpmtrp", "cicp", "crp", "cgp", "ccsp", "clicm", "cldp", "clrp", "clup", "sink", "jump"}
  <2>1. DOMAIN FunctionPasses = {1, 2, 3, 4, 5, 6, 7, 8, 9, 10, 11}
    BY DEF FunctionPasses
  <2> QED
    BY <2>1 DEF PassesIn, FunctionPasses
<1>4. PassesIn(ModulePasses) = {"dae", "mfun", "hcs", "pil", "funinline"}
  <2>1. DOMAIN ModulePasses = {1, 2, 3, 4, 5}
    BY DEF ModulePasses
  <2> QED
    BY <2>1 DEF PassesIn, ModulePasses
<1> QED
  BY <1>1, <1>2, <1>3, <1>4

(* One turn of the passes on functions has all that the options leave on,   *)
(* and what it has besides is named.                                        *)
LEMMA TheFPMFits ==
    ASSUME options.do # "all"
    PROVE  /\ TheFPM \in Seq(Passes)
           /\ PassesIn(FunctionPasses) \ SwitchedOff \subseteq PassesIn(TheFPM)
           /\ PassesIn(TheFPM) \cap SwitchedOff \subseteq AddedAgain
<1> DEFINE off == {options.do} \cup (IF options.do = "ru" THEN {"clrp", "clup"} ELSE {})
           most == IF options.df THEN << >> ELSE Without(FunctionPasses, off)
           rest == Without(SimplePasses, {options.do})
<1>1. most \in Seq(Passes) /\ PassesIn(most) = IF options.df THEN {} ELSE PassesIn(FunctionPasses) \ off
  <2>1. CASE options.df
    <3>1. most = << >>
      BY <2>1
    <3> QED
      BY <2>1, <3>1 DEF PassesIn
  <2>2. CASE ~options.df
    BY <2>2, PassLists, WithoutFacts
  <2> QED
    BY <2>1, <2>2
<1>2. rest \in Seq(Passes) /\ PassesIn(rest) = PassesIn(SimplePasses) \ {options.do}
  BY PassLists, WithoutFacts
<1>3. TheFPM = most \o rest
  BY DEF TheFPM
<1> HIDE DEF most, rest
<1>4. TheFPM \in Seq(Passes) /\ PassesIn(TheFPM) = PassesIn(most) \cup PassesIn(rest)
  BY <1>1, <1>2, <1>3, PassesInBoth
<1>5. PassesIn(FunctionPasses) \ SwitchedOff \subseteq PassesIn(TheFPM)
  BY <1>1, <1>4 DEF SwitchedOff
<1>6. ASSUME NEW p \in PassesIn(TheFPM), p \in SwitchedOff PROVE p \in AddedAgain
  <2>1. CASE p \in PassesIn(most)
    <3>1. ~options.df /\ p \in PassesIn(FunctionPasses) /\ p \notin off
      BY <1>1, <2>1
    <3>2. p \in PassesIn(ModulePasses)
      BY <1>6, <3>1 DEF SwitchedOff
    <3> QED
      BY <3>1, <3>2, PassLists
  <2>2. CASE p \in PassesIn(rest)
    <3>1. p \in PassesIn(SimplePasses) /\ p # options.do
      BY <1>2, <2>2
    <3>2. options.df \/ (options.do = "ru" /\ p = "clup")
      BY <1>6, <3>1, PassLists DEF SwitchedOff
    <3> QED
      BY <3>1, <3>2 DEF AddedAgain
  <2> QED
    BY <1>4, <2>1, <2>2
<1> QED
  BY <1>4, <1>5, <1>6

LEMMA ThePMFits ==
    ASSUME options.do # "all"
    PROVE  PassesIn(ThePM) = PassesIn(ModulePasses) \ SwitchedOff
<1>1. CASE options.dm
  <2>1. PassesIn(ModulePasses) \subseteq SwitchedOff
    BY <1>1 DEF SwitchedOff
  <2>2. PassesIn(ThePM) = {}
    BY <1>1 DEF ThePM, PassesIn
  <2> QED
    BY <2>1, <2>2
<1>2. CASE ~options.dm
  <2>1. PassesIn(ThePM) = PassesIn(ModulePasses) \ {options.do}
    BY <1>2, PassLists, WithoutFacts DEF ThePM
  <2>2. \A p \in PassesIn(ModulePasses) : p \in SwitchedOff <=> p = options.do
    BY <1>2, PassLists DEF SwitchedOff
  <2> QED
    BY <2>1, <2>2
<1> QED
  BY <1>1, <1>2

LEMMA OptimizingIs == Optimizing => PassesAreAsAskedFor
<1> SUFFICES ASSUME Optimizing, written # "none" PROVE PassesAreAsAskedFor
  BY DEF PassesAreAsAskedFor
<1>1. Finished /\ turn = 1 /\ options.rounds \in Int
  BY OptionsAssumption DEF Optimizing, Finished, Fresh
<1>2. round = Rounds /\ Rounds \in Nat
  BY <1>1 DEF Finished, Fresh, Rounds
<1>3. ASSUME NEW f \in DOMAIN ran PROVE ran[f] = Times(TheFPM)[Rounds]
  <2>1. PICK i \in DOMAIN FunctionList : f = FunctionList[i]
    BY DEF Optimizing, Names
  <2>2. RoundsOf(i) = Rounds
    BY <1>1, <1>2, <2>1, FunctionListFacts DEF RoundsOf
  <2> QED
    BY <2>1, <2>2 DEF Optimizing
<1>4. PassesIn(ranOnAll) = PassesIn(ModulePasses) \ SwitchedOff
  <2>1. CASE options.do = "all"
    <3>1. ranOnAll = << >> /\ PassesIn(ModulePasses) \subseteq SwitchedOff
      BY <1>1, <2>1 DEF Finished, Fresh, SwitchedOff
    <3> QED
      BY <3>1 DEF PassesIn
  <2>2. CASE options.do # "all"
    BY <1>1, <2>2, ThePMFits DEF Finished
  <2> QED
    BY <2>1, <2>2
<1>5. ASSUME NEW f \in DOMAIN ran
      PROVE  \E k \in 0 .. Len(ran[f]) :
                LET once == SubSeq(ran[f], 1, k)
                IN /\ ran[f] = Times(once)[Rounds]
                   /\ Rounds > 0 => PassesIn(FunctionPasses) \ SwitchedOff \subseteq PassesIn(once)
                   /\ PassesIn(once) \cap SwitchedOff \subseteq AddedAgain
  <2>1. CASE Rounds = 0
    <3>1. ran[f] = << >>
      BY <1>3, <2>1, TimesFacts
    <3>2. 0 \in 0 .. Len(ran[f]) /\ SubSeq(ran[f], 1, 0) = << >>
      BY <3>1
    <3>3. Times(<< >>)[Rounds] = << >>
      BY <2>1, TimesFacts
    <3>4. PassesIn(<< >>) = {}
      BY DEF PassesIn
    <3>5. /\ ran[f] = Times(SubSeq(ran[f], 1, 0))[Rounds]
          /\ PassesIn(SubSeq(ran[f], 1, 0)) = {}
      BY <3>1, <3>2, <3>3, <3>4
    <3>6. ~(Rounds > 0)
      BY <2>1
    <3> QED
      BY <3>2, <3>5, <3>6
  <2>2. CASE Rounds # 0
    <3>1. Rounds > 0 /\ options.do # "all"
      BY <1>2, <2>2 DEF Rounds
    <3>2. /\ TheFPM \in Seq(Passes)
          /\ PassesIn(FunctionPasses) \ SwitchedOff \subseteq PassesIn(TheFPM)
          /\ PassesIn(TheFPM) \cap SwitchedOff \subseteq AddedAgain
      BY <3>1, TheFPMFits
    <3>3. Len(TheFPM) \in 0 .. Len(ran[f]) /\ SubSeq(ran[f], 1, Len(TheFPM)) = TheFPM
      BY <1>2, <1>3, <3>1, <3>2, TimesStart
    <3> QED
      BY <1>3, <3>2, <3>3
  <2> QED
    BY <2>1, <2>2
<1> QED
  BY <1>3, <1>4, <1>5 DEF PassesAreAsAskedFor

(* Whatever the options, the number of rounds and the functions, when a file *)
(* is written every function has been through the same passes once for each  *)
(* round asked for (none for a negative number) and the module through its   *)
(* own, with all that the options leave on, and of what they switch off      *)
(* nothing but the passes of AddedAgain.                                     *)
THEOREM RunsWhatIsAskedFor == Spec => []PassesAreAsAskedFor
<1>1. Init => Typed /\ Optimizing
  BY InitReached, InitOptimizing
<1>2. Typed /\ Optimizing /\ [Next]_vars => (Typed /\ Optimizing)'
  BY NextTyped, NextOptimizing
<1>3. Optimizing => PassesAreAsAskedFor
  BY OptimizingIs
<1> QED
  BY <1>1, <1>2, <1>3, PTL DEF Spec
=============================================================================
