------------------------------ MODULE CallGraph ------------------------------
(***************************************************************************)
(* Control flow analysis and the call graph: CFAnalyzer visits the program *)
(* and adds flow constraints, CallGraphBuilder visits it again and asks    *)
(* which functions each called expression may be, and the CallGraph that   *)
(* results answers queries.                                                *)
(*                                                                         *)
(* The constraint solver is its least solution, which is what CubicSolver  *)
(* is checked to compute.  A node is its path in the program, a function   *)
(* the path of its ASTFunction.                                            *)
(***************************************************************************)
EXTENDS Scopes, FiniteSets

LOCAL INSTANCE SequencesExt

CONSTANT MaxQueries  \* bound: how many calls of getEdges and existEdge

VARIABLES
    pass,         \* the visitor that is running, or "built"
    todo,         \* the rest of its traversal
    scope,        \* CFAnalyzer's stack of function declarations
    constraints,  \* what CFAnalyzer added to the solver
    flow,         \* the solution: function, node
    cfun,         \* CallGraphBuilder's current function
    callGraph,    \* caller -> callees; no entry for a function without callees
    funMap,       \* fromFunNameToASTFun
    edges,        \* the member of CallGraph that getEdges fills
    queries       \* how many calls filled it

vars == <<program, pass, todo, scope, constraints, flow, cfun, callGraph, funMap, edges, queries>>

This == Head(todo).node
Here == Head(todo).at
Go == todo' = (IF Calls(todo, "visit") THEN Children(Head(todo)) ELSE << >>) \o Tail(todo)
Running(p, call, cls) == pass = p /\ Calls(todo, call) /\ This.cls = cls

-----------------------------------------------------------------------------
(* CFAnalyzer.  The program point of an expression is its declaration when  *)
(* it is a variable, and itself otherwise.                                  *)

getCanonicalForFunction(c, f) ==
    IF c.node.cls # "ASTVariableExpr" THEN c.at
    ELSE LET local == getLocal(c.node.names[1], getDecl(f))
             function == getFunction(c.node.names[1])
         IN CASE local # nullptr -> local
              [] local = nullptr /\ function # nullptr -> function
              [] OTHER -> c.at

getCanonical(c) == getCanonicalForFunction(c, <<Head(scope)[1]>>)

Element(fn, in) == [op |-> "element", fn |-> fn, in |-> in]
SubsetOf(from, to) == [op |-> "subset", from |-> from, to |-> to]
Conditional(fn, in, from, to) == [op |-> "conditional", fn |-> fn, in |-> in, from |-> from, to |-> to]

visitFunction ==
    /\ Running("CFAnalyzer", "visit", "ASTFunction")
    /\ scope' = <<getDecl(Here)>> \o scope
    /\ constraints' = constraints \cup {Element(Here, getDecl(Here))}
    /\ Go
    /\ UNCHANGED <<program, pass, flow, cfun, callGraph, funMap, edges, queries>>

endVisitFunction ==
    /\ Running("CFAnalyzer", "endVisit", "ASTFunction")
    /\ scope' = Tail(scope)
    /\ Go
    /\ UNCHANGED <<program, pass, constraints, flow, cfun, callGraph, funMap, edges, queries>>

\* The returned value flows to the call in the loop over the formals.
CallConstraints(c, f) ==
    LET formals == Len(getFormals(FunctionAt(f)))
        called == getCanonical(Kid(c, 1))
        Pass(i) == Conditional(f, called, getCanonical(Kid(c, i + 1)), <<f[1], i + 1>>)
        return == Conditional(f, called, getCanonicalForFunction(ReturnArg(f), f), getCanonical(c))
    IN IF formals # Len(c.node.kids) - 1 THEN {}
       ELSE UNION {{Pass(i), return} : i \in 1..formals}

visitFunAppExpr ==
    /\ Running("CFAnalyzer", "visit", "ASTFunAppExpr")
    /\ constraints' = constraints \cup UNION {CallConstraints(Head(todo), f) : f \in Functions}
    /\ Go
    /\ UNCHANGED <<program, pass, scope, flow, cfun, callGraph, funMap, edges, queries>>

visitAssignStmt_Swapped ==  \* mutated form: the flow goes from left to right
    /\ Running("CFAnalyzer", "visit", "ASTAssignStmt")
    /\ constraints' = constraints \cup
           {SubsetOf(getCanonical(Kid(Head(todo), 1)), getCanonical(Kid(Head(todo), 2)))}
    /\ Go
    /\ UNCHANGED <<program, pass, scope, flow, cfun, callGraph, funMap, edges, queries>>

visitAssignStmt ==
    /\ Running("CFAnalyzer", "visit", "ASTAssignStmt")
    /\ constraints' = constraints \cup
           {SubsetOf(getCanonical(Kid(Head(todo), 2)), getCanonical(Kid(Head(todo), 1)))}
    /\ Go
    /\ UNCHANGED <<program, pass, scope, flow, cfun, callGraph, funMap, edges, queries>>

\* The least solution of the constraints, as pairs of a function and a node.
Step(S) ==
    S \cup {<<c.fn, c.in>> : c \in {d \in constraints : d.op = "element"}}
      \cup UNION {{<<s[1], c.to>> : s \in {t \in S : t[2] = c.from}} :
                     c \in {d \in constraints : \/ d.op = "subset"
                                                \/ d.op = "conditional" /\ <<d.fn, d.in>> \in S}}
RECURSIVE Closure(_)
Closure(S) == IF Step(S) = S THEN S ELSE Closure(Step(S))

solve ==
    /\ pass = "CFAnalyzer" /\ todo = << >>
    /\ flow' = Closure({})
    /\ pass' = "CallGraphBuilder" /\ todo' = accept(program)
    /\ UNCHANGED <<program, scope, constraints, cfun, callGraph, funMap, edges, queries>>

-----------------------------------------------------------------------------
(* CallGraphBuilder.                                                        *)

getPossibleFunctionsForExpr(c, f) ==
    {s[1] : s \in {t \in flow : t[2] = getCanonicalForFunction(c, f)}}

visitCaller ==
    /\ Running("CallGraphBuilder", "visit", "ASTFunction")
    /\ cfun' = Here
    /\ Go
    /\ UNCHANGED <<program, pass, scope, constraints, flow, callGraph, funMap, edges, queries>>

Callees_NoCaller(c) ==  \* mutated form: the caller is not entered under its name
    LET possible == getPossibleFunctionsForExpr(c, cfun)
    IN IF possible = {} THEN UNCHANGED <<callGraph, funMap>>
       ELSE /\ callGraph' = [f \in DOMAIN callGraph \cup {cfun} |->
                  (IF f \in DOMAIN callGraph THEN callGraph[f] ELSE {})
                      \cup (IF f = cfun THEN possible ELSE {})]
            /\ funMap' = [s \in DOMAIN funMap \cup {getName(f) : f \in possible} |->
                             IF s \in DOMAIN funMap THEN funMap[s]
                             ELSE CHOOSE f \in possible : getName(f) = s]

\* The loop over the functions that c may be, which makes an entry for cfun.
Callees(c) ==
    LET possible == getPossibleFunctionsForExpr(c, cfun)
    IN IF possible = {} THEN UNCHANGED <<callGraph, funMap>>
       ELSE /\ callGraph' = [f \in DOMAIN callGraph \cup {cfun} |->
                  (IF f \in DOMAIN callGraph THEN callGraph[f] ELSE {})
                      \cup (IF f = cfun THEN possible ELSE {})]
            /\ LET new == {cfun} \cup possible
               IN funMap' = [s \in DOMAIN funMap \cup {getName(f) : f \in new} |->
                                IF s \in DOMAIN funMap THEN funMap[s]
                                ELSE CHOOSE f \in new : getName(f) = s]

visitCall ==
    /\ Running("CallGraphBuilder", "visit", "ASTFunAppExpr")
    /\ Callees(Kid(Head(todo), 1))
    /\ Go
    /\ UNCHANGED <<program, pass, scope, constraints, flow, cfun, edges, queries>>

visitMention ==
    /\ \/ Running("CallGraphBuilder", "visit", "ASTVariableExpr")
       \/ Running("CallGraphBuilder", "visit", "ASTReturnStmt")
    /\ Callees(Head(todo))
    /\ Go
    /\ UNCHANGED <<program, pass, scope, constraints, flow, cfun, edges, queries>>

\* The nodes a visitor ignores.
Overridden ==
    {<<"CFAnalyzer", "visit", cls>> : cls \in {"ASTFunction", "ASTFunAppExpr", "ASTAssignStmt"}}
    \cup {<<"CFAnalyzer", "endVisit", "ASTFunction">>}
    \cup {<<"CallGraphBuilder", "visit", cls>> :
             cls \in {"ASTFunction", "ASTFunAppExpr", "ASTVariableExpr", "ASTReturnStmt"}}

Ignore ==
    /\ todo # << >>
    /\ <<pass, Head(todo).call, This.cls>> \notin Overridden
    /\ Go
    /\ UNCHANGED <<program, pass, scope, constraints, flow, cfun, callGraph, funMap, edges, queries>>

build ==
    /\ pass = "CallGraphBuilder" /\ todo = << >>
    /\ pass' = "built"
    /\ UNCHANGED <<program, todo, scope, constraints, flow, cfun, callGraph, funMap, edges, queries>>

-----------------------------------------------------------------------------
(* The queries of a graph that is built.  A function without an entry has   *)
(* callees only by name: by node the end of the map is dereferenced.        *)

EdgeSet == UNION {{<<f, g>> : g \in callGraph[f]} : f \in DOMAIN callGraph}

\* getEdges appends to the member it returns; existEdge calls it and looks
\* through what it returns.
Appended == edges \o SetToSeq(EdgeSet)

getEdges ==
    /\ pass = "built" /\ queries < MaxQueries
    /\ edges' = Appended
    /\ queries' = queries + 1
    /\ UNCHANGED <<program, pass, todo, scope, constraints, flow, cfun, callGraph, funMap>>

existEdge(caller, callee) == \E e \in ToSet(Appended) : getName(e[1]) = caller /\ getName(e[2]) = callee
getTotalEdges == Cardinality(EdgeSet)
getVertices == Functions
getCalleesIsDefined(f) == f \in DOMAIN callGraph
getCallees(f) == callGraph[f]
getCalleesOf(caller) == UNION {callGraph[f] : f \in {g \in DOMAIN callGraph : getName(g) = caller}}
getCallers(f) == {g \in DOMAIN callGraph : f \in callGraph[g]}
getCallersOf(callee) == {getName(g) : g \in {h \in DOMAIN callGraph : \E f \in callGraph[h] : getName(f) = callee}}

\* fromFunNameToASTFuns[name], which is null for a name without an edge.
getASTFun(name) == IF name \in DOMAIN funMap THEN funMap[name] ELSE nullptr

-----------------------------------------------------------------------------
Init ==
    /\ pass = "CFAnalyzer" /\ todo = accept(program)
    /\ scope = << >> /\ constraints = {} /\ flow = {} /\ cfun = nullptr
    /\ callGraph = [f \in {} |-> {}] /\ funMap = [s \in {} |-> nullptr]
    /\ edges = << >> /\ queries = 0

BuildNext ==
    \/ visitFunction \/ endVisitFunction \/ visitFunAppExpr \/ visitAssignStmt \/ solve
    \/ visitCaller \/ visitCall \/ visitMention \/ build
    \/ Ignore

Next == BuildNext \/ getEdges

-----------------------------------------------------------------------------
(* The calls that a run of the program makes.                               *)

Semantics == INSTANCE TipSemantics

CallsMade == {<<<<c[1]>>, <<c[2]>>>> : c \in Semantics!Run(program).state.calls}

-----------------------------------------------------------------------------
(* Properties.                                                              *)

(* Constraints are about the function being visited and the ones it may     *)
(* call: a name is resolved in the scope of its own function.               *)
ConstraintsAreLocal ==
    \A c \in constraints :
        CASE c.op = "element" -> c.in = getDecl(c.fn)
          [] c.op = "subset" -> c.to[1] = c.from[1] \/ c.from \in {getDecl(f) : f \in Functions}
          [] c.op = "conditional" ->
                {c.from[1], c.to[1]} \cap {c.fn[1]} # {} \/ c.from \in {getDecl(f) : f \in Functions}

\* What control flow analysis does not follow: values that are read from
\* memory or chosen, and what a function without formals returns.
Unfollowed == {"ASTDeRefExpr", "ASTAccessExpr", "ASTElementRefrenceOperatorExpr", "ASTTernaryExpr", "ASTForIterStmt"}

RECURSIVE Mentions(_, _)
Mentions(n, classes) == n.cls \in classes \/ \E i \in DOMAIN n.kids : Mentions(n.kids[i], classes)

ReturnedWithoutFormals ==
    \E f \in Functions :
        /\ getFormals(FunctionAt(f)) = << >> /\ getName(f) # "main"
        /\ getPossibleFunctionsForExpr(ReturnArg(f), f) # {}

(* An edge says that one function may call another, and a call that a run   *)
(* of the program makes is an edge, but for functions that reach the call   *)
(* by a way the analysis does not follow.                                   *)
EveryCallIsAnEdge ==
    pass = "built" =>
        CallsMade \subseteq EdgeSet \/ Mentions(program, Unfollowed) \/ ReturnedWithoutFormals

\* Where the answers are not those that CallGraph.h promises: the list of all
\* edges holds each of them again for every time it was asked for (56); the
\* callees of a function without any have no entry to be read by node (62); a
\* function that is on no edge is not found under its name (85).
AskedAgain == queries > 1
CallsNothing(f) == getCalleesOf(getName(f)) = {}
OnNoEdge(f) == \A e \in EdgeSet : f \notin {e[1], e[2]}

(* The same graph is read by node and by name, forwards and backwards, and  *)
(* edge by edge, however often it was asked before and though existEdge     *)
(* reads a list that grows: the list is the set of edges, the callees of a  *)
(* function are the same by node as by name, and its name leads back to it, *)
(* but for AskedAgain, CallsNothing and OnNoEdge.                           *)
QueriesAgree ==
    pass = "built" =>
        /\ \A f, g \in Functions :
              /\ existEdge(getName(f), getName(g)) <=> <<f, g>> \in EdgeSet
              /\ g \in getCalleesOf(getName(f)) <=> f \in getCallers(g)
              /\ getName(f) \in getCallersOf(getName(g)) <=> f \in getCallers(g)
        /\ \A f \in getVertices :
              /\ ~CallsNothing(f) => getCalleesIsDefined(f) /\ getCallees(f) = getCalleesOf(getName(f))
              /\ ~OnNoEdge(f) => getASTFun(getName(f)) = f
        /\ queries > 0 =>
              /\ ToSet(edges) = EdgeSet
              /\ ~AskedAgain => Len(edges) = getTotalEdges
=============================================================================
