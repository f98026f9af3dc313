------------------------------ MODULE FrontEnd ------------------------------
(***************************************************************************)
(* src/src/frontend/FrontEnd.cpp: what one process does with its sources.  *)
(* parse() builds the syntax tree of a parse tree, prettyprint() prints a  *)
(* tree that was built.  The handlers of the builder leave their results   *)
(* in globals, so a build that throws is followed by one that must not see *)
(* them.  The lexer and the parser are external.                           *)
(***************************************************************************)
EXTENDS Integers, Sequences

CONSTANTS
    Programs,   \* parse trees
    IntMax,     \* the largest int
    MaxBuilds   \* bound: how many programs one process parses

VARIABLES
    source, steps, taken, register, built,                 \* of the builder
    printing, visits, visitResults, indentLevel, printed   \* of the printer

builderVars == <<source, steps, taken, register, built>>
printerVars == <<printing, visits, visitResults, indentLevel, printed>>
vars == <<builderVars, printerVars>>

Builder == INSTANCE ASTBuilder WITH todo <- steps

Trees == {Builder!Translation(p) : p \in {q \in Programs : ~Builder!Overflows(q)}}

Printer == INSTANCE PrettyPrinter WITH
    Programs <- Trees, MaxPrints <- MaxBuilds, program <- printing, todo <- visits

Init == Builder!Init /\ Printer!Init

ParsedTrees == SelectSeq(built, LAMBDA t : t # Builder!OutOfRange)

\* A source is parsed when the tree of the one before is printed.
parse ==
    /\ visits = << >> /\ steps = << >> /\ Len(printing) = Len(ParsedTrees)
    /\ Builder!build
    /\ UNCHANGED printerVars

Building ==
    /\ \/ Builder!VisitContext \/ Builder!TakeRegister \/ Builder!MakeNode
       \/ Builder!LeaveHandler \/ Builder!FinishBuild \/ Builder!ThrowException
    /\ UNCHANGED printerVars

prettyprint ==
    /\ steps = << >> /\ Len(printing) < Len(ParsedTrees)
    /\ Printer!print(ParsedTrees[Len(ParsedTrees)])
    /\ UNCHANGED builderVars

Printing ==
    /\ Printer!VisitNode \/ Printer!EndVisitNode
    /\ UNCHANGED builderVars

Next == parse \/ Building \/ prettyprint \/ Printing

Spec == Init /\ [][Next]_vars

-----------------------------------------------------------------------------
(* Properties: those of the two visitors, of any two sources one after the  *)
(* other.                                                                   *)

(* A source is built into the tree of its parse tree, or not at all when a  *)
(* literal in it is no int, whatever was built, printed or failed before.   *)
BuiltIsTranslation == Builder!BuiltIsTranslation

(* A subtree is never destroyed by overwriting the register it is in, and   *)
(* none is left in a register by a build that succeeded.                    *)
NoSubtreeIsLost ==
    [][~Builder!Failed =>
          /\ \A r \in Builder!Registers :
                register[r] # Builder!Null => register'[r] \in {register[r], Builder!Null}
          /\ parse => \A r \in Builder!Registers : register[r] = Builder!Null]_vars

(* One text is on the printer's stack for every finished child of an open   *)
(* node, and one level of indentation for every open node that indents.     *)
OneResultPerNode == Printer!OneResultPerNode

(* What is printed names what the source names, in the same order.          *)
PrintedInOrder == Printer!PrintedInOrder

(* Two sources with the same text have the same tree, unless one of them    *)
(* needs brackets that are not printed.                                     *)
TextDeterminesProgram == Printer!TextDeterminesProgram
=============================================================================
