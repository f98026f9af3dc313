------------------------------- MODULE MCDriver -------------------------------
(***************************************************************************)
(* Command lines: everything that may be printed or switched off, and      *)
(* every pass that may be left out in up to two rounds over two functions. *)
(***************************************************************************)
EXTENDS Driver, Functions

TwoFunctions == <<"f", "main">>

AllSources == SUBSET Phases \cup {{"number"}, {"number", "types"}}

Line(dt, pp, ps, pcg, pt, df, dm, do, rounds, asm) ==
    [dt |-> dt, pp |-> pp, ps |-> ps, pcg |-> pcg, pt |-> pt, df |-> df, dm |-> dm,
     do |-> do, rounds |-> rounds, asm |-> asm]

Named == {"none", "all", "ru"} \cup Range(FunctionPasses) \cup Range(ModulePasses)

PrintLines ==
    {Line(dt, pp, ps, pcg, pt, FALSE, FALSE, "all", 0, asm) : dt, pp, ps, pcg, pt, asm \in BOOLEAN}
PassLines ==
    {Line(dt, FALSE, FALSE, FALSE, FALSE, df, dm, do, rounds, FALSE) :
        dt, df, dm \in BOOLEAN, do \in Named, rounds \in -1 .. 2}

AllLines == PrintLines \cup PassLines
=============================================================================
