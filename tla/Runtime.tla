------------------------------- MODULE Runtime -------------------------------
(***************************************************************************)
(* A compiled program when it runs: the runtime library's main(), which    *)
(* hands the command line over, the functions of the program, which call   *)
(* each other through a table, and the library's input, output and error.  *)
(*                                                                         *)
(* The program and the library are linked with the C library by name.  Of  *)
(* a function's body the model keeps one variable and what it does to it;  *)
(* CodeGen and GeneratedLoops have the rest.                               *)
(***************************************************************************)
EXTENDS Integers, Sequences

CONSTANTS
    Programs,     \* sequences of functions
    CommandLines, \* sequences of words
    Typed,        \* what is typed on the standard input, words too
    LargestWord,  \* 2^63 - 1 in the code
    Garbage       \* what an uninitialized word may hold

VARIABLES
    program, argv, typed,  \* what is run on what
    stdin,          \* the words not yet read
    tip_input_array,
    pc, given,      \* where the library's main() is, and the index of its loop
    stack,          \* the calls of the program's functions, the current one first
    read,           \* what _tip_input returned so far
    printed,        \* the standard output
    status          \* "running", "exit 0", "exit -1", or "undefined"

Inputs == <<program, argv, typed>>
vars == <<Inputs, stdin, tip_input_array, pc, given, stack, read, printed, status>>

-----------------------------------------------------------------------------
(* What the code generator puts into the module.                            *)

\* A word is a numeral or not.  Longer numerals are cut off at the ends.
strtoll(w) ==
    CASE ~w.numeral -> 0
      [] w.numeral /\ w.n > LargestWord -> LargestWord
      [] w.numeral /\ w.n < -LargestWord - 1 -> -LargestWord - 1
      [] OTHER -> w.n

Names == {program[i].name : i \in DOMAIN program}
HasMain == "main" \in Names

\* Positions count from 1 here.
functionIndex(name) == CHOOSE i \in DOMAIN program : program[i].name = name

\* getFunction() of every function, in their order.
tip_ftable == program

numTIPArgs == IF HasMain THEN program[functionIndex("main")].formals ELSE 0

\* A function that has been entered: its formals are set, its local is 0.
Frame(f, formals) == [fun |-> f, at |-> 1, formals |-> formals, v |-> 0]

\* main has no parameters: it loads what the command line left in the array.
Entered(f, actuals) == Frame(f, IF f.name = "main" THEN tip_input_array ELSE actuals)

Top == Head(stack)
Executing(op) ==
    /\ status = "running" /\ stack # << >>
    /\ Top.at <= Len(Top.fun.body) /\ Top.fun.body[Top.at].op = op
Op == Top.fun.body[Top.at]

Continue(v) == stack' = <<[Top EXCEPT !.at = @ + 1, !.v = v]>> \o Tail(stack)

\* The library reaches the functions of the C library, unless the program
\* has one of the name, which is an external symbol as well.  What such a
\* function does in the place of the other is left open.
Linked(cs) == cs \cap Names = {}
Undefined ==
    /\ status' = "undefined"
    /\ UNCHANGED <<Inputs, stdin, tip_input_array, pc, given, stack, read, printed>>

printf(t) == printed' = Append(printed, t)

-----------------------------------------------------------------------------
(* main() of the library.                                                   *)

\* Both arrays are zero until they are written.
Init ==
    /\ program \in Programs /\ argv \in CommandLines /\ typed \in Typed
    /\ stdin = typed
    /\ tip_input_array = [i \in 1 .. numTIPArgs |-> 0]
    /\ pc = "arguments" /\ given = 0 /\ stack = << >> /\ read = << >> /\ printed = << >> /\ status = "running"

At(label) == status = "running" /\ stack = << >> /\ pc = label

\* printf and exit(-1).
Fail(t) ==
    IF Linked({"printf", "exit"})
    THEN /\ printf(t) /\ status' = "exit -1"
         /\ UNCHANGED <<Inputs, stdin, tip_input_array, pc, given, stack, read>>
    ELSE Undefined

WrongNumber == At("arguments") /\ Len(argv) # numTIPArgs /\ Fail(<<"expected", numTIPArgs>>)

RightNumber ==
    /\ At("arguments") /\ Len(argv) = numTIPArgs
    /\ pc' = "loop"
    /\ UNCHANGED <<Inputs, stdin, tip_input_array, given, stack, read, printed, status>>

ReadArgument_Again ==  \* mutated form: the index stays
    /\ At("loop") /\ given < numTIPArgs /\ Linked({"strtoll"})
    /\ tip_input_array' = [tip_input_array EXCEPT ![given + 1] = strtoll(argv[given + 1])]
    /\ UNCHANGED <<Inputs, stdin, pc, given, stack, read, printed, status>>

ReadArgument ==
    /\ At("loop") /\ given < numTIPArgs
    /\ IF Linked({"strtoll"})
       THEN /\ tip_input_array' = [tip_input_array EXCEPT ![given + 1] = strtoll(argv[given + 1])]
            /\ given' = given + 1
            /\ UNCHANGED <<Inputs, stdin, pc, stack, read, printed, status>>
       ELSE Undefined

CallMain == At("loop") /\ given = numTIPArgs

tip_main ==
    /\ CallMain /\ HasMain
    /\ stack' = <<Entered(program[functionIndex("main")], << >>)>>
    /\ pc' = "print"
    /\ UNCHANGED <<Inputs, stdin, tip_input_array, given, read, printed, status>>

tip_main_undefined == CallMain /\ ~HasMain /\ Fail(<<"missing main">>)

-----------------------------------------------------------------------------
(* The functions of the program.  A body works on its local v.              *)

Formal ==
    /\ Executing("formal") /\ Continue(Top.formals[Op.i])
    /\ UNCHANGED <<Inputs, stdin, tip_input_array, pc, given, read, printed, status>>

Decrement ==
    /\ Executing("decrement") /\ Continue(Top.v - 1)
    /\ UNCHANGED <<Inputs, stdin, tip_input_array, pc, given, read, printed, status>>

\* if (v == 0) the rest is skipped.
Unless ==
    /\ Executing("unless")
    /\ stack' = [stack EXCEPT ![1].at = IF Top.v = 0 THEN Len(Top.fun.body) + 1 ELSE @ + 1]
    /\ UNCHANGED <<Inputs, stdin, tip_input_array, pc, given, read, printed, status>>

\* scanf stores nothing when what comes next is no numeral, and leaves it there.
tip_input_Again ==  \* mutated form: what was read is read again
    /\ Executing("input") /\ Linked({"printf", "scanf"})
    /\ \E x \in IF stdin # << >> /\ Head(stdin).numeral THEN {strtoll(Head(stdin))} ELSE Garbage :
          Continue(x) /\ read' = Append(read, x)
    /\ printf(<<"prompt">>)
    /\ UNCHANGED <<Inputs, stdin, tip_input_array, pc, given, status>>

tip_input ==
    /\ Executing("input")
    /\ IF Linked({"printf", "scanf"})
       THEN LET scans == stdin # << >> /\ Head(stdin).numeral
            IN /\ \E x \in IF scans THEN {strtoll(Head(stdin))} ELSE Garbage :
                     Continue(x) /\ read' = Append(read, x)
               /\ stdin' = IF scans THEN Tail(stdin) ELSE stdin
               /\ printf(<<"prompt">>)
               /\ UNCHANGED <<Inputs, tip_input_array, pc, given, status>>
       ELSE Undefined

tip_output ==
    /\ Executing("output")
    /\ IF Linked({"printf"})
       THEN /\ printf(<<"output", Top.v>>) /\ Continue(Top.v)
            /\ UNCHANGED <<Inputs, stdin, tip_input_array, pc, given, read, status>>
       ELSE Undefined

tip_error == Executing("error") /\ Fail(<<"error", Top.v>>)

\* The callee's name is a number until it is looked up in the table.
Call ==
    /\ Executing("call")
    /\ LET f == tip_ftable[functionIndex(Op.name)]
       IN stack' = <<Entered(f, [i \in 1 .. f.formals |-> Top.v])>> \o stack
    /\ UNCHANGED <<Inputs, stdin, tip_input_array, pc, given, read, printed, status>>

ReturnToCaller ==
    /\ status = "running" /\ Len(stack) > 1 /\ Top.at > Len(Top.fun.body)
    /\ stack' = <<[stack[2] EXCEPT !.at = @ + 1, !.v = Top.v]>> \o Tail(Tail(stack))
    /\ UNCHANGED <<Inputs, stdin, tip_input_array, pc, given, read, printed, status>>

\* tip_main returns, and main() prints what it returned.
Finish ==
    /\ status = "running" /\ Len(stack) = 1 /\ Top.at > Len(Top.fun.body)
    /\ IF Linked({"printf"})
       THEN /\ printf(<<"output", Top.v>>) /\ status' = "exit 0" /\ stack' = << >>
            /\ UNCHANGED <<Inputs, stdin, tip_input_array, pc, given, read>>
       ELSE Undefined

Next == \/ WrongNumber \/ RightNumber \/ ReadArgument \/ tip_main \/ tip_main_undefined
        \/ Formal \/ Decrement \/ Unless \/ tip_input \/ tip_output \/ tip_error
        \/ Call \/ ReturnToCaller \/ Finish

\* A program runs on, and whoever types goes on or ends the input.
Spec == Init /\ [][Next]_vars /\ WF_vars(Next)
-----------------------------------------------------------------------------
(* What the program means, as it is written: a reference that passes the    *)
(* actuals of every call to its formals.                                    *)

RECURSIVE Executed(_, _, _, _, _)

\* The rest of a body: f from its operation k on, with its formals, its v and
\* the state of the run, which is how much is read, what is printed and "ok"
\* or an error.
Executed(f, k, formals, v, s) ==
    IF s.end # "ok" THEN s
    ELSE IF k > Len(f.body) THEN [s EXCEPT !.v = v]
    ELSE LET op == f.body[k]
             Then(x, t) == Executed(f, k + 1, formals, x, t)
         IN CASE op.op = "formal" -> Then(formals[op.i], s)
              [] op.op = "decrement" -> Then(v - 1, s)
              [] op.op = "unless" -> IF v = 0 THEN [s EXCEPT !.v = v] ELSE Then(v, s)
              [] op.op = "input" ->
                    IF s.reads = Len(read) THEN [s EXCEPT !.end = "asks for more"]
                    ELSE Then(read[s.reads + 1],
                              [s EXCEPT !.reads = @ + 1, !.printed = Append(@, <<"prompt">>)])
              [] op.op = "output" -> Then(v, [s EXCEPT !.printed = Append(@, <<"output", v>>)])
              [] op.op = "error" ->
                    [s EXCEPT !.end = "error", !.printed = Append(@, <<"error", v>>)]
              [] op.op = "call" ->
                    LET g == CHOOSE h \in {program[j] : j \in DOMAIN program} : h.name = op.name
                        t == Executed(g, 1, [j \in 1 .. g.formals |-> v], 0, s)
                    IN Then(t.v, t)

Meaning ==
    LET main == {f \in {program[j] : j \in DOMAIN program} : f.name = "main"}
        formals == IF main = {} THEN 0 ELSE (CHOOSE f \in main : TRUE).formals
        Ran(f) == Executed(f, 1, [j \in DOMAIN argv |-> strtoll(argv[j])], 0,
                           [reads |-> 0, printed |-> << >>, end |-> "ok", v |-> 0])
    IN CASE Len(argv) # formals -> [printed |-> <<<<"expected", formals>>>>, status |-> "exit -1", reads |-> 0]
         [] Len(argv) = formals /\ main = {} ->
               [printed |-> <<<<"missing main">>>>, status |-> "exit -1", reads |-> 0]
         [] OTHER ->
               LET r == Ran(CHOOSE f \in main : TRUE)
               IN [printed |-> r.printed \o IF r.end = "ok" THEN <<<<"output", r.v>>>> ELSE << >>,
                   status |-> IF r.end = "ok" THEN "exit 0" ELSE "exit -1", reads |-> r.reads]

-----------------------------------------------------------------------------
(* Properties.                                                              *)

Ended == status # "running"

\* A run that ends prints, in order, what the program as it is written prints
\* for the words of the command line and what its inputs came out as, and ends
\* as it does: calls get their arguments wherever they go, an error ends the
\* run inside any number of calls, and nothing runs on a wrong command line.
\* Inputs come out as the numbers that are typed, in order and each once,
\* whichever functions ask for them, up to the first word that is no number.
BehavesAsWritten ==
    /\ Ended /\ status # "undefined" =>
          [printed |-> printed, status |-> status, reads |-> Len(read)] = Meaning
    /\ \A k \in DOMAIN read :
          (k <= Len(typed) /\ \A j \in 1 .. k : typed[j].numeral) => read[k] = strtoll(typed[k])

\* Every run of a program that recurs on a smaller number ends.
EveryProgramEnds == <>Ended
=============================================================================
