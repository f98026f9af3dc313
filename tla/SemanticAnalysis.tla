-------------------------- MODULE SemanticAnalysis --------------------------
(***************************************************************************)
(* src/src/semantic/SemanticAnalysis.cpp: the passes between the front end *)
(* and the code generator.  One after the other they traverse the same     *)
(* tree: the symbol table, the weeding pass, the call graph and, unless it *)
(* is switched off, type inference.  A pass that throws ends the analysis. *)
(* Then the tools that use the result query it.                            *)
(***************************************************************************)
EXTENDS Naturals, Sequences

LOCAL INSTANCE SequencesExt

CONSTANTS
    Programs,    \* the trees to analyze
    MaxQueries,  \* bound: how many calls of getEdges and existEdge
    Prologue,    \* statements that force the types of the variables of main
    Gamma        \* these types

VARIABLES
    phase,       \* the pass whose turn it is, "analyzed" or the exception
    program,     \* the tree
    todo,        \* the rest of the traversal that is going on
    collector, fMap, curMap, first, lMap, fields,       \* of SymbolTable
    cfaPass, cfaScope, flowConstraints, flow,           \* of CFAnalyzer
    cfun, callGraph, funMap, callEdges, queries,        \* of the call graph
    typePass, typeScope, equations, solution            \* of TypeInference

tableVars == <<collector, fMap, curMap, first, lMap, fields>>
graphVars == <<cfaPass, cfaScope, flowConstraints, flow, cfun, callGraph, funMap, callEdges, queries>>
typeVars == <<typePass, typeScope, equations, solution>>
vars == <<phase, program, todo, tableVars, graphVars, typeVars>>

Table == INSTANCE SymbolTable
Weeding == INSTANCE CheckAssignable
Graph == INSTANCE CallGraph WITH
    pass <- cfaPass, scope <- cfaScope, constraints <- flowConstraints, edges <- callEdges
Types == INSTANCE TypeRules WITH
    pass <- typePass, scope <- typeScope, constraints <- equations, edges <- solution

-----------------------------------------------------------------------------
Init ==
    /\ phase = "SymbolTable"
    /\ program \in Programs
    /\ Table!Init /\ Graph!Init /\ Types!Init

\* The next pass starts at the root.
Turn(to) == phase' = to /\ todo' = Table!accept(program)

BuildSymbolTable ==
    /\ phase = "SymbolTable"
    /\ Table!Next
    /\ phase' = IF collector' = "SemanticError" THEN "SemanticError" ELSE phase
    /\ UNCHANGED <<graphVars, typeVars>>

SymbolTableBuilt ==
    /\ phase = "SymbolTable" /\ collector = "built"
    /\ Turn("CheckAssignable")
    /\ UNCHANGED <<program, tableVars, graphVars, typeVars>>

CheckAssignable ==
    /\ phase = "CheckAssignable"
    /\ IF Weeding!check(program) THEN Turn("CallGraph") ELSE phase' = "SemanticError" /\ todo' = << >>
    /\ UNCHANGED <<program, tableVars, graphVars, typeVars>>

BuildCallGraph ==
    /\ phase = "CallGraph"
    /\ Graph!BuildNext
    /\ UNCHANGED <<phase, tableVars, typeVars>>

\* typeInfOn: the option of the driver
CallGraphBuilt ==
    /\ phase = "CallGraph" /\ cfaPass = "built"
    /\ \E typeInfOn \in BOOLEAN :
          IF typeInfOn THEN Turn("TypeInference") ELSE phase' = "analyzed" /\ UNCHANGED todo
    /\ UNCHANGED <<program, tableVars, graphVars, typeVars>>

InferTypes ==
    /\ phase = "TypeInference"
    /\ Types!Next
    /\ phase' = CASE typePass' = "typed" -> "analyzed"
                  [] typePass' \in {"UnificationError", "SemanticError"} -> typePass'
                  [] OTHER -> phase
    /\ UNCHANGED <<tableVars, graphVars>>

QueryCallGraph ==
    /\ phase = "analyzed"
    /\ Graph!getEdges
    /\ UNCHANGED <<phase, tableVars, typeVars>>

Next ==
    \/ BuildSymbolTable \/ SymbolTableBuilt \/ CheckAssignable \/ BuildCallGraph \/ CallGraphBuilt
    \/ InferTypes \/ QueryCallGraph

Spec == Init /\ [][Next]_vars

-----------------------------------------------------------------------------
(* Properties.  Those about the result of a pass are evaluated where the    *)
(* pass hands over: no later pass changes it.                               *)

(* The table is built for the programs that keep the scope rules, and for   *)
(* no other, whatever a function before declared or used.                   *)
BuiltIffWellScoped == phase \in {"CheckAssignable", "SemanticError"} => Table!BuiltIffWellScoped

(* The table answers the lookups of the later passes: of a name from within *)
(* a function with the declaration the program itself has for it there,     *)
(* a local of no other function and never the function's own name; of a     *)
(* variable among the locals or among the functions, never both; and every  *)
(* field name of the program is in the list once, since type inference and  *)
(* the code generator give a field the position of its name.                *)
TableAnswersLookups ==
    phase = "CheckAssignable" =>
        /\ \A s \in Table!Names("ASTDeclNode") \cup Table!Names("ASTVariableExpr") :
              /\ Table!getFunction(s) = Graph!getFunction(s)
              /\ \A f \in Table!Functions :
                    LET decl == Table!DeclOf(f) IN Table!getLocal(s, decl) = Graph!getLocal(s, decl)
        /\ \A f \in Table!Functions : \A u \in Table!Uses(f) :
              (Table!getLocal(u.node.names[1], Table!DeclOf(f)) = << >>)
                  # (Table!getFunction(u.node.names[1]) = << >>)
        /\ ToSet(fields) = Table!Names("ASTFieldExpr") \cup Table!Names("ASTAccessExpr")
        /\ IsInjective(fields)

(* A name is resolved in the scope of the function it stands in, in flow    *)
(* constraints and in equations, though one traversal looks names up in two *)
(* functions and the other pushes scopes that it never pops.                *)
ScopesDoNotMix ==
    /\ phase = "CallGraph" => Graph!ConstraintsAreLocal
    /\ phase = "TypeInference" => Types!EquationsAreLocal

(* A call that a run of the program makes is an edge of the call graph, but *)
(* for the two ways of getting at a function that the analysis ignores.     *)
EveryCallIsAnEdge == phase = "CallGraph" => Graph!EveryCallIsAnEdge

(* The same graph is read by node and by name, forwards and backwards, from *)
(* an analysis with types or without, however often it was asked before.    *)
QueriesAgree == phase = "analyzed" => Graph!QueriesAgree

(* When main is told the types of its variables, it is accepted exactly if  *)
(* every statement is well typed: no equation is missing or too many.       *)
AcceptedIffWellTyped == Types!AcceptedIffWellTyped

(* A program that all passes accept does not get stuck, whatever it passes  *)
(* to whom: no operation meets a value it is not defined for.               *)
AcceptedRunsDoNotGetStuck == phase = "analyzed" => Types!AcceptedRunsDoNotGetStuck
=============================================================================
