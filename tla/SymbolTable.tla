----------------------------- MODULE SymbolTable -----------------------------
(***************************************************************************)
(* The symbol table: three visitors over the program, one after the other, *)
(* collect the functions, the locals of each function and the field names. *)
(* The first two reject programs whose names clash or are not declared.    *)
(* A declaration node is the path of the ASTDeclNode in the program.       *)
(***************************************************************************)
EXTENDS ASTVisitor, TreeTypes

LOCAL INSTANCE SequencesExt

VARIABLES
    program,    \* the tree
    collector,  \* the visitor that is running, or how build() ended
    todo,       \* the rest of its traversal
    fMap,       \* function name -> declaration
    curMap,     \* local name -> declaration, of the function being visited
    first,      \* whether the next ASTDeclNode is a function's name
    lMap,       \* declaration of a function -> its locals
    fields      \* the field names, in the order they are found

vars == <<program, collector, todo, fMap, curMap, first, lMap, fields>>

Collectors == {"FunctionNameCollector", "LocalNameCollector", "FieldNameCollector"}
nullptr == << >>
Empty == [name \in {} |-> nullptr]

\* std::map::insert: an entry that is there already stays.
Insert(map, key, value) ==
    [k \in DOMAIN map \cup {key} |-> IF k \in DOMAIN map THEN map[k] ELSE value]

This == Head(todo).node
Running(c, call, cls) == collector = c /\ Calls(todo, call) /\ This.cls = cls
Go == todo' = (IF Calls(todo, "visit") THEN Children(Head(todo)) ELSE << >>) \o Tail(todo)

\* throw SemanticError
Throw == collector' = "SemanticError" /\ todo' = << >>

-----------------------------------------------------------------------------
(* FunctionNameCollector.  Its visit() returns false.                       *)

DeclOf(f) == Append(f, 1)
getName(f) == f.kids[1].names[1]

visitFunctionName ==
    /\ Running("FunctionNameCollector", "visit", "ASTFunction")
    /\ IF getName(This) \notin DOMAIN fMap
       THEN /\ fMap' = Insert(fMap, getName(This), DeclOf(Head(todo).at))
            /\ todo' = NoChildren(Head(todo)) \o Tail(todo)
            /\ UNCHANGED collector
       ELSE Throw /\ UNCHANGED fMap
    /\ UNCHANGED <<program, curMap, first, lMap, fields>>

-----------------------------------------------------------------------------
(* LocalNameCollector.                                                      *)

visitFunction_FirstOnce ==  \* mutated form: first is set for one function only
    /\ Running("LocalNameCollector", "visit", "ASTFunction")
    /\ curMap' = Empty /\ Go
    /\ UNCHANGED <<program, collector, fMap, first, lMap, fields>>

visitFunction_KeepsMap ==  \* mutated form: the map of the function before is kept
    /\ Running("LocalNameCollector", "visit", "ASTFunction")
    /\ first' = TRUE /\ Go
    /\ UNCHANGED <<program, collector, fMap, curMap, lMap, fields>>

visitFunction ==
    /\ Running("LocalNameCollector", "visit", "ASTFunction")
    /\ curMap' = Empty
    /\ first' = TRUE
    /\ Go
    /\ UNCHANGED <<program, collector, fMap, lMap, fields>>

endVisitDeclNode ==
    /\ Running("LocalNameCollector", "endVisit", "ASTDeclNode")
    /\ LET name == This.names[1]
       IN CASE first -> first' = FALSE /\ Go /\ UNCHANGED <<collector, curMap>>
            [] ~first /\ name \notin DOMAIN fMap \cup DOMAIN curMap ->
                  curMap' = Insert(curMap, name, Head(todo).at) /\ Go /\ UNCHANGED <<collector, first>>
            [] OTHER -> Throw /\ UNCHANGED <<curMap, first>>
    /\ UNCHANGED <<program, fMap, lMap, fields>>

endVisitVariableExpr ==
    /\ Running("LocalNameCollector", "endVisit", "ASTVariableExpr")
    /\ IF This.names[1] \in DOMAIN fMap \cup DOMAIN curMap THEN Go /\ UNCHANGED collector ELSE Throw
    /\ UNCHANGED <<program, fMap, curMap, first, lMap, fields>>

endVisitFunction ==
    /\ Running("LocalNameCollector", "endVisit", "ASTFunction")
    /\ lMap' = Insert(lMap, DeclOf(Head(todo).at), curMap)
    /\ Go
    /\ UNCHANGED <<program, collector, fMap, curMap, first, fields>>

-----------------------------------------------------------------------------
(* FieldNameCollector.                                                      *)

endVisitField ==
    /\ \/ Running("FieldNameCollector", "endVisit", "ASTFieldExpr")
       \/ Running("FieldNameCollector", "endVisit", "ASTAccessExpr")
    /\ fields' = IF This.names[1] \in ToSet(fields) THEN fields ELSE Append(fields, This.names[1])
    /\ Go
    /\ UNCHANGED <<program, collector, fMap, curMap, first, lMap>>

-----------------------------------------------------------------------------
Init ==
    /\ collector = "FunctionNameCollector" /\ todo = accept(program)
    /\ fMap = Empty /\ curMap = Empty /\ first = TRUE /\ lMap = Empty /\ fields = << >>

\* The default visit() and endVisit(), of the nodes a collector ignores.
Overridden ==
    {<<"FunctionNameCollector", "visit", "ASTFunction">>, <<"LocalNameCollector", "visit", "ASTFunction">>}
    \cup {<<"LocalNameCollector", "endVisit", cls>> : cls \in {"ASTFunction", "ASTDeclNode", "ASTVariableExpr"}}
    \cup {<<"FieldNameCollector", "endVisit", cls>> : cls \in {"ASTFieldExpr", "ASTAccessExpr"}}

Ignore ==
    /\ todo # << >>
    /\ <<collector, Head(todo).call, This.cls>> \notin Overridden
    /\ Go
    /\ UNCHANGED <<program, collector, fMap, curMap, first, lMap, fields>>

\* build(): the next collector, and the table when they are done.
build ==
    /\ todo = << >>
    /\ collector \in Collectors
    /\ \/ /\ collector = "FunctionNameCollector"
          /\ collector' = "LocalNameCollector" /\ todo' = accept(program)
       \/ /\ collector = "LocalNameCollector"
          /\ collector' = "FieldNameCollector" /\ todo' = accept(program)
       \/ /\ collector = "FieldNameCollector"
          /\ collector' = "built" /\ UNCHANGED todo
    /\ UNCHANGED <<program, fMap, curMap, first, lMap, fields>>

Next ==
    \/ visitFunctionName
    \/ visitFunction \/ endVisitDeclNode \/ endVisitVariableExpr \/ endVisitFunction
    \/ endVisitField
    \/ Ignore \/ build

-----------------------------------------------------------------------------
(* The queries of a table that is built.                                    *)

getFunction(s) == IF s \in DOMAIN fMap THEN fMap[s] ELSE nullptr
getFunctions == {fMap[s] : s \in DOMAIN fMap}
getLocal(s, f) == IF s \in DOMAIN lMap[f] THEN lMap[f][s] ELSE nullptr
getLocals(f) == {lMap[f][s] : s \in DOMAIN lMap[f]}
getFields == fields

-----------------------------------------------------------------------------
(* Properties.                                                              *)

Functions == {<<i>> : i \in DOMAIN program.kids}
FunctionAt(p) == program.kids[p[1]]

RECURSIVE Below(_, _)
Below(p, n) ==
    {[at |-> p, node |-> n]} \cup UNION {Below(Append(p, i), n.kids[i]) : i \in DOMAIN n.kids}

Nodes(cls) == {m \in Below(<< >>, program) : m.node.cls = cls}
Names(cls) == {m.node.names[1] : m \in Nodes(cls)}
Named(cls, name) == {m \in Nodes(cls) : m.node.names[1] = name}
Declares(f) == {m \in Nodes("ASTDeclNode") : m.at[1] = f[1] /\ m.at # DeclOf(f)}
Uses(f) == {m \in Nodes("ASTVariableExpr") : m.at[1] = f[1]}

(* The scope rules: every function has its own name, every local a name     *)
(* that is neither a function's nor another local's of its function, and a  *)
(* variable is a local of its own function or a function.                   *)
FunctionNames == {getName(FunctionAt(f)) : f \in Functions}
WellScoped ==
    /\ \A f, g \in Functions : getName(FunctionAt(f)) = getName(FunctionAt(g)) => f = g
    /\ \A f \in Functions :
          /\ \A l, m \in Declares(f) : l.node = m.node => l = m
          /\ \A l \in Declares(f) : l.node.names[1] \notin FunctionNames
          /\ \A u \in Uses(f) :
                \/ u.node.names[1] \in FunctionNames
                \/ \E l \in Declares(f) : l.node.names = u.node.names

(* A table is built for the programs that keep the scope rules, and no      *)
(* other, whatever a function before declared or used.                      *)
BuiltIffWellScoped ==
    /\ collector = "built" => WellScoped
    /\ collector = "SemanticError" => ~WellScoped

=============================================================================
