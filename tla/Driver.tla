-------------------------------- MODULE Driver --------------------------------
(***************************************************************************)
(* One run of tipc: the phases of the compiler in sequence, under every    *)
(* set of options, with the handlers of main() for what a phase throws.    *)
(* A source is what the phases say of it: the set of those that reject it. *)
(* The passes belong to LLVM; which of them run, on what and in which      *)
(* order, is the optimizer's.                                              *)
(***************************************************************************)
EXTENDS Integers, Sequences

CONSTANTS
    Options,    \* command lines: records of the options
    Sources,    \* sets of the phases that reject a source
    FunctionList \* the functions of the module, in its order

Phases == {"open", "parse", "symbols", "assignable", "types", "generate"}

ASSUME SourcesAssumption == Sources \subseteq SUBSET (Phases \cup {"number"})
ASSUME OptionsAssumption == \A o \in Options : o.rounds \in Int
ASSUME FunctionListAssumption ==
    /\ FunctionList \in Seq({FunctionList[i] : i \in DOMAIN FunctionList})
    /\ Len(FunctionList) > 0
    /\ \A i, j \in DOMAIN FunctionList : FunctionList[i] = FunctionList[j] => i = j

VARIABLES
    options,    \* the command line
    rejectedBy, \* the source
    pc,         \* the next phase, or "end"
    printed,    \* what went to standard output
    round,      \* optimizer: rounds that are done
    turn,       \* optimizer: the function that is next
    ran,        \* the passes run so far on each function
    ranOnAll,   \* the passes run so far on the module
    written,    \* the kind of file that was written, or "none"
    outcome     \* "running", or how the process ended

vars == <<options, rejectedBy, pc, printed, round, turn, ran, ranOnAll, written, outcome>>
Command == <<options, rejectedBy>>
Optimized == <<round, turn, ran, ranOnAll>>

-----------------------------------------------------------------------------
(* Phases, and how main() ends.                                             *)

Failing == {"no such file", "parse error", "semantic error", "internal error"}
Ended == pc = "end"

\* A handler reports the error and leaves with EXIT_FAILURE.
Report(error) ==
    /\ pc' = "end" /\ outcome' = error
    /\ UNCHANGED <<Command, printed, Optimized, written>>

\* A phase that passes hands over to the next one.
Pass(phase) == pc' = phase /\ UNCHANGED <<Command, printed, Optimized, written, outcome>>

Phase(name, error, next) ==
    /\ pc = name
    /\ IF name \in rejectedBy THEN Report(error) ELSE Pass(next)

open == Phase("open", "no such file", "parse")

\* A number that is too large throws std::out_of_range, which no handler takes.
parse ==
    /\ pc = "parse"
    /\ IF "parse" \in rejectedBy THEN Report("parse error")
       ELSE IF "number" \in rejectedBy THEN Report("terminated")
       ELSE Pass("symbols")

symbols == Phase("symbols", "semantic error", "assignable")
assignable == Phase("assignable", "semantic error", "types")

types_WhenPrinted ==  \* mutated form: types are inferred only to be printed
    /\ pc = "types"
    /\ IF options.pt /\ ~options.dt /\ "types" \in rejectedBy THEN Report("semantic error") ELSE Pass("pretty")

\* The call graph is built first and rejects nothing.
types ==
    /\ pc = "types"
    /\ IF ~options.dt /\ "types" \in rejectedBy THEN Report("semantic error") ELSE Pass("pretty")

Show(what, asked, next) ==
    /\ pc' = next
    /\ printed' = IF asked THEN Append(printed, what) ELSE printed
    /\ UNCHANGED <<Command, Optimized, written, outcome>>

pretty == pc = "pretty" /\ Show("program", options.pp, "tables")

tables_Both ==  \* mutated form: symbols are printed beside their types
    /\ pc = "tables"
    /\ IF options.pt /\ options.dt THEN Report("null dereference")
       ELSE /\ pc' = "callGraph"
            /\ printed' = printed \o (IF options.pt THEN <<"types">> ELSE << >>)
                                  \o (IF options.ps THEN <<"symbols">> ELSE << >>)
            /\ UNCHANGED <<Command, Optimized, written, outcome>>

\* Without type inference there are no type results to print.
tables ==
    /\ pc = "tables"
    /\ IF options.pt /\ options.dt THEN Report("null dereference")
       ELSE IF options.pt THEN Show("types", TRUE, "callGraph")
       ELSE Show("symbols", options.ps, "callGraph")

callGraph == pc = "callGraph" /\ Show("call graph", options.pcg, "generate")

generate == Phase("generate", "internal error", IF options.do = "all" THEN "emit" ELSE "optimize")

emit ==
    /\ pc = "emit"
    /\ written' = IF options.asm THEN "assembly" ELSE "bitcode"
    /\ pc' = "end" /\ outcome' = "success"
    /\ UNCHANGED <<Command, printed, Optimized>>

-----------------------------------------------------------------------------
(* Optimizer::optimize. A pass goes by the name that leaves it out.         *)

FunctionPasses ==
    <<"cpmtrp", "cicp", "crp", "cgp", "ccsp", "clicm", "cldp", "clrp", "clup", "sink", "jump">>
SimplePasses == <<"crp", "cgp", "ccsp", "clup">>
ModulePasses == <<"dae", "mfun", "hcs", "pil", "funinline">>

\* A pass is added unless it is left out. (A recursive function: the provers
\* know nothing of SelectSeq.)
Without(passes, left) ==
    LET added[n \in 0 .. Len(passes)] ==
            IF n = 0 THEN << >>
            ELSE added[n - 1] \o (IF passes[n] \in left THEN << >> ELSE <<passes[n]>>)
    IN added[Len(passes)]

TheFPM_KeepsSimple ==  \* mutated form: the passes added last heed no option
    (IF options.df THEN << >>
     ELSE Without(FunctionPasses, {options.do} \cup (IF options.do = "ru" THEN {"clrp", "clup"} ELSE {})))
    \o SimplePasses

TheFPM ==
    (IF options.df THEN << >>
     ELSE Without(FunctionPasses, {options.do} \cup (IF options.do = "ru" THEN {"clrp", "clup"} ELSE {})))
    \o Without(SimplePasses, {options.do})

ThePM == IF options.dm THEN << >> ELSE Without(ModulePasses, {options.do})

runFunction ==
    /\ pc = "optimize" /\ round < options.rounds /\ turn <= Len(FunctionList)
    /\ ran' = [ran EXCEPT ![FunctionList[turn]] = @ \o TheFPM]
    /\ turn' = IF turn = Len(FunctionList) THEN 1 ELSE turn + 1
    /\ round' = IF turn = Len(FunctionList) THEN round + 1 ELSE round
    /\ UNCHANGED <<Command, pc, printed, ranOnAll, written, outcome>>

runModule ==
    /\ pc = "optimize" /\ round >= options.rounds
    /\ ranOnAll' = ThePM
    /\ pc' = "emit"
    /\ UNCHANGED <<Command, printed, round, turn, ran, written, outcome>>

-----------------------------------------------------------------------------

Init ==
    /\ options \in Options /\ rejectedBy \in Sources
    /\ pc = "open" /\ printed = << >>
    /\ round = 0 /\ turn = 1
    /\ ran = [f \in {FunctionList[i] : i \in DOMAIN FunctionList} |-> << >>]
    /\ ranOnAll = << >>
    /\ written = "none" /\ outcome = "running"

Next ==
    \/ open \/ parse \/ symbols \/ assignable \/ types
    \/ pretty \/ tables \/ callGraph \/ generate
    \/ runFunction \/ runModule \/ emit

Spec == Init /\ [][Next]_vars

-----------------------------------------------------------------------------
(* Properties.                                                              *)

NoTypes == options.pt /\ options.dt
PassesUpTo(phases) == rejectedBy \subseteq phases \cup (IF options.dt THEN {"types"} ELSE {})
Analyzed == PassesUpTo({"generate"})
Accepted == PassesUpTo({}) /\ ~NoTypes

\* The two ways to end that main() has no handler for.
Unhandled ==
    \/ "number" \in rejectedBy /\ {"open", "parse"} \cap rejectedBy = {}
    \/ Analyzed /\ NoTypes

(* A run that ends has written its file exactly when no phase that the      *)
(* options leave on rejects the source; otherwise it has reported why, but  *)
(* for the large number and the missing types that nothing handles.         *)
WrittenIffAccepted ==
    Ended => /\ (written # "none") = Accepted
             /\ (outcome = "success") = Accepted
             /\ (outcome \in Failing) = (~Accepted /\ ~Unhandled)

(* Nothing of a source that the analyses reject is printed, and of one that *)
(* they accept all that was asked for, even when no code can be made of it, *)
(* up to types that were not inferred.                                      *)
Asked ==
    (IF options.pp THEN <<"program">> ELSE << >>)
    \o (IF NoTypes THEN << >>
        ELSE (IF options.pt THEN <<"types">> ELSE IF options.ps THEN <<"symbols">> ELSE << >>)
             \o (IF options.pcg THEN <<"call graph">> ELSE << >>))
PrintedIffAnalyzed == Ended => printed = IF Analyzed THEN Asked ELSE << >>

\* The sequence s once, twice and so on.
Times(s) == LET times[n \in Nat] == IF n = 0 THEN << >> ELSE times[n - 1] \o s IN times

PassesIn(s) == {s[i] : i \in DOMAIN s}

Rounds == IF options.do = "all" \/ options.rounds < 0 THEN 0 ELSE options.rounds

\* What the options promise to switch off: --do a pass by its name, "ru" both
\* loop rotation and unrolling (Optimizer.cpp 66), "all" everything, --df the
\* passes on functions and --dm those on the module (tipc.cpp 22, 23).
SwitchedOff ==
    {options.do}
    \cup (IF options.do = "ru" THEN {"clrp", "clup"} ELSE {})
    \cup (IF options.df \/ options.do = "all" THEN PassesIn(FunctionPasses) \cup PassesIn(SimplePasses) ELSE {})
    \cup (IF options.dm \/ options.do = "all" THEN PassesIn(ModulePasses) ELSE {})

\* What may run although it is switched off: the four passes that are added
\* a second time heed neither --df (Optimizer.cpp 91-109) nor, which is about
\* one of them, "ru" (106).
AddedAgain ==
    {p \in PassesIn(SimplePasses) :
        /\ options.do \notin {p, "all"}
        /\ options.df \/ (options.do = "ru" /\ p = "clup")}

(* Every function goes through the same passes, once a round, and the       *)
(* module through its own once: all that the options leave on, and of those *)
(* they switch off none but AddedAgain.                                     *)
PassesAreAsAskedFor ==
    written # "none" =>
        /\ \A f, g \in DOMAIN ran : ran[f] = ran[g]
        /\ \A f \in DOMAIN ran : \E k \in 0 .. Len(ran[f]) :
              LET once == SubSeq(ran[f], 1, k)
              IN /\ ran[f] = Times(once)[Rounds]
                 /\ Rounds > 0 => PassesIn(FunctionPasses) \ SwitchedOff \subseteq PassesIn(once)
                 /\ PassesIn(once) \cap SwitchedOff \subseteq AddedAgain
        /\ PassesIn(ranOnAll) = PassesIn(ModulePasses) \ SwitchedOff

=============================================================================
