# A verification development for tipc

`tipc` (in `src/`) compiles TIP, a small imperative language with first-class
functions, pointers and records, extended with booleans, arrays and `for` loops.
This directory holds TLA+ specifications of its phases and of the programs it
compiles, TLC models that check them on small instances and TLAPS proofs of the type
solver, the control-flow solver, the code generator, the driver and the generated loops for
every instance.

## The system

    FrontEnd::parse -> SemanticAnalysis::analyze -> CodeGenerator -> Optimizer -> emit
                          SymbolTable::build
                          CheckAssignable::check
                          CallGraph::build        (CFAnalyzer + CubicSolver, CallGraphBuilder)
                          TypeInference::check    (constraints, Unifier + UnionFind, AbsentFieldChecker)

All of it is sequential. What is hard is not interleaving but algorithms over
shared mutable graphs, recursion that changes what its callers are iterating over,
and results that must not depend on the order in which constraints arrive.

| Component | State it keeps | Operations | What makes it correct | Modules |
|---|---|---|---|---|
| `ASTBuilder`, the AST | one static register per kind of node | one visit per grammar rule | the tree is the translation of the parse tree, whatever a build that threw left behind | `ASTBuilder`, `AST`, `TreeTypes`, `FrontEnd` |
| Pretty printer | a stack of texts, the indentation | a visit and an `endVisit` per class | the stack balances; different programs have different texts | `PrettyPrinter`, `ASTVisitor`, `FrontEnd` |
| `SymbolTable` and its collectors | functions, locals of each, fields | three traversals, look-ups | exactly the well scoped programs get a table, and in it a name has one declaration | `SymbolTable` |
| `CheckAssignable` | none | a check per assigning node | what it accepts, code generation has an address for | `Assignable`, `CheckAssignable` |
| `CFAnalyzer`, `CallGraphBuilder`, `CallGraph` | the scope stack, the graph, the list `getEdges` fills | two traversals, seven queries | every call that can happen is an edge | `CallGraph`, `Scopes` |
| `CubicSolver` | the graph of nodes, `dagmapping`, conditional constraints | `addElementofConstraint`, `addSubseteqConstraint`, `addConditionalConstraint`, `getPossibleFunctionsForExpr` | it reports the least solution of what was added, returns, and touches no deleted node | `CubicSolver` |
| `TypeConstraintVisitor`, `AbsentFieldChecker` | the scope stack, the constraints collected | a handler per class | exactly the well-typed programs are accepted, and they do not get stuck | `TypeConstraints`, `TypeRules` |
| `UnionFind` | `edges`, a map from type terms to parents | `find`, `quick_union`, `smart_insert`, `connected`, `copy` | the parents form a forest | `UnionFind`, `Closing` |
| `Unifier` (solving) | the constraints and the union-find forest | constructor, `solve`, `unify`, `throwUnifyException` | it returns a most general solution, or fails and there is none, whatever the order; it ends on recursive types | `Unifier`, `TypeSolutions`, `Unification` |
| Types | `TipType` objects | `operator==`, `doMatch`, `arity` | equality and matching of terms | `TypeTerms`, `TipTypes` |
| `Unifier` (closing), `Substituter`, `TypeVars` | the forest, copied and restored; shared constructors | `inferred`, `close` | an inferred type is the tree of the solution; a query changes no later answer; it ends | `Closing` |
| Code generation | module globals: `lValueGen`, `allocFlag`, `NamedValues`, `labelNum`, tables, intrinsics | one `codegen()` per AST class | an address is generated exactly where one is wanted; the blocks form a control-flow graph in which values are computed before they are used; loops and array accesses stay within bounds | `CodeGen`, `CodeGenFunctions`, `GeneratedLoops` |
| Run-time library | `_tip_input_array` | `main`, `_tip_input`, `_tip_output`, `_tip_error`, `_tip_main_undefined` | a compiled program gets its command line and its input, and prints what it should | `Runtime` |
| `SemanticAnalysis` | the results of its passes | `analyze` | every pass finds what it needs in the results of those before it, and changes none of them | `SemanticAnalysis` |
| `main()` of `tipc`, `Optimizer` | the options | phases, handlers, rounds of passes | a file is written exactly for accepted programs; the passes that run are those the options leave | `Driver` |
| Error classes, vendored libraries, grammar | | | | not modelled |

How the components interact: the symbol table is built first and only read later.
`CFAnalyzer` calls the cubic solver once per constraint, while it walks the tree,
and `CallGraphBuilder` queries the solved graph. `TypeInference` collects all the
constraints before the unifier solves them; `AbsentFieldChecker` and the type
printer then query the solution many times. Code generation reads the symbol
table for the record fields, and the run-time library reads two globals it emits.
All errors are exceptions that end the compilation.

## Modules

### `TypeTerms`, `TypeSolutions`, `UnionFind`, `Unifier`: the solver of the type constraints

`TypeTerms` fixes the data. The code compares types by value, so a term stands for
one class of equal `TipType` objects; `Kind` is its dynamic class and `Args` its
arguments, both constants, so a model is closed under taking arguments and may
hold deep, shared or recursive systems of terms. `doMatch` follows
`TipCons::doMatch`, absent fields and all.

`TypeSolutions` is the reference notion of a solution, a *congruence*: an
equivalence in which equal constructors agree and have equal arguments. It is given
as the `Kernel` of an assignment of representatives that `Respects` the terms'
structure; `Represents` and `Choosing` keep the enumeration of those assignments
small. `Solvable` says that some congruence satisfies the constraints. Recursive types
are solutions here, as they are for the code, which closes them with mu types later.

`UnionFind` is the forest: `smart_insert`, `get_parent`, `quick_union`, `find` (as
`Root`) and `connected`, and `Classes`, the partition the forest stands for, defined by
closed sets of terms and without climbing. `quick_union` inserts and finds its
arguments again; `unify` only passes it roots that are present, so the model keeps the
re-linking alone.

`Unifier` is `solve()` and `unify()` as a state machine. The recursion of `unify` is
the stack `calls` of calls still to be made, the next one first, which is exact
since a call does nothing after its last recursive call. The loop of
`UnionFind::find` is one step per parent (`Climb1`, `Climb2`), so that a forest with
a cycle would make the model climb for ever, as it would the code. `Find1` and `Find2`
insert the term, as `find` does, which changes the forest between finding the first
root and using it. One action follows for each branch: `Same`, `BindLeft`,
`BindRight`, `Decompose`, `Reject`.

| Code | Model |
|---|---|
| `Unifier::constraints`, position in `solve()`'s loop | `constraints`, `next` |
| `UnionFind::edges` | `edges` |
| pending calls of `unify` | `calls` |
| where the current call is, `rep1`, `rep2` | `pc`, `rep1`, `rep2` |
| returned, or threw `UnificationError` | `status` |

`Unification` is the abstract specification: no forest, no stack and no order.
It merges classes of entailed equations in any order until all hold or two
constructors clash. `Unifier!ImplementsUnification` maps `connected` to its equivalence.

### `CubicSolver`: the solver of the control-flow constraints

State: `dagmapping` maps a program point to its node; `supsets`, `subsets`, `bitvector`
and `conditionalConstraints` are the fields of the nodes, empty for a name that no live
node has; `stack` holds the frames of `propegateNodeChanges`. That function and
`activateConditionalConstraint` call each other, and a call may merge and delete
the node that a caller further out is working on. So each frame records the node,
the functions its first loop has left, the rest of the vector of constraints it
*copied*, and the superset its iterator stands at. The three operations of the
public interface are the actions named after them. `search` is `killCyclesAt`, which runs
before the innermost frame does: `NextCandidate` starts `findPath` from the next
superset, `Measure` is a turn of its breadth-first search, `NoPath` its failure,
`StepBack` a turn of the walk back, `MergeNext` a turn of `mergePath`, and
`NoCycleLeft` the end of the loop over the supsets. The steps of the innermost frame are
`NextFunction`, `activateConditionalConstraint`, `NextSuperset` and `Return`.

| Code | Model |
|---|---|
| `dagmapping`, `addEmptyVariableIfNecessary` | `dagmapping`, the operator of that name |
| the fields of a `CubicSolverNode` | `supsets`, `subsets`, `bitvector`, `conditionalConstraints` |
| the calls of `propegateNodeChanges` in progress, their loops and copies | `stack` |
| the locals of `killCyclesAt`, `findPath` and `mergePath` | `search` |
| returned, hung, or used freed memory | `status` |

Two things the code can do end the behaviour. A read of a deleted node, or an
increment of an iterator whose element was erased, is undefined: `UseDeleted` sets
`status` to "undefined". A walk back in `findPath` that repeats a turn without
progress never ends: `SearchForEver` sets it to "looping".

The code iterates over sets of pointers, in the order of addresses. Nodes are named
by the program point they were made for, numbers compared by `<`. The set `Flows`
is closed under renaming, so all relative orders of the nodes of flows are covered;
call sites keep fixed points, and their orders are those the flows do not restore.

The history variables `added` and `count` are read by properties and by the bound
alone; `overtaken` records that a merge has put a superset behind a loop that had the
absorbed one still to come. `Possible` is `getPossibleFunctionsForExpr`. The reference semantics is the
least assignment of sets of functions that satisfies all constraints added,
defined by quantifying over all assignments.

### `AST`, `Assignable`, `CheckAssignable`, `CodeGenFunctions`, `CodeGen`: code generation

`AST` is the data: a node has a class, identifiers and children. `Assignable` has what the
weeding pass checks when it ends its visit of a node, one operator per `endVisit`, and
`CheckAssignable` the pass over a tree; it keeps no state. It decides which programs are
compiled.

`CodeGenFunctions` has one operator per AST class, named after it. Its value is what
`codegen()` does, in order, as a list of steps: generate a child, set a flag, make
one call of the `IRBuilder`, create, place or enter a basic block. `CodeGen` is the
machine that takes the steps, one action per kind of step. The C++ stack is `calls`;
a frame is created with the flags as they are at that moment, which is when the
code reads them (`bool isLValue = lValueGen`, or at once). `Nodes` are the nodes of syntax
trees, and `NodesAssumption` says of them what `TIP.g4` says of a parse: which children a node
of each class has (`Grammatical`); that functions have different names is the symbol table's, and
that the nodes pass `Assignable!endVisit` the weeding pass's. The arguments of a call are
locals of their own, named by the constant `Actual`, as many as any call needs.

| Code | Model |
|---|---|
| `lValueGen`, `allocFlag`, `NamedValues`, `labelNum` | the same names |
| `Builder.GetInsertBlock()` | `insertAt` |
| basic blocks, their terminators, membership in a function | `blocks` |
| the C++ stack, with the local variables that hold `Value*` | `calls` |
| operands of the instructions emitted | `uses`, pairs of blocks |

Of a `Value*` the model keeps the block that computes it and its LLVM type; constants
and indexes of functions and fields are abstracted. `need` in a step gives the types
an instruction's operands must have. LLVM checks them by assertions that a release
build does not contain, and the code ignores what `verifyFunction` and
`verifyModule` return, so the model goes on with an ill-typed operand, as the
program does. `OperandsFit` names the two operands that do not fit, `OneBitIsUsed` and
`FunctionAddressed`. Left out are the `InternalError`s for null results, unknown names and
unknown fields, which no parsed program that passed the symbol table reaches. The
initial values of locals and the main function made up for a program without one are
in `Runtime`.

### `TreeTypes`, `ASTBuilder`, `ASTVisitor`, `PrettyPrinter`, `FrontEnd`: sources, trees and texts

`AST` and `TreeTypes` have the nodes, one operator per class; an optional child is a
child that is not there. In `ASTBuilder` a handler is the list of its steps: visit a
context, move a register into a local (`Take`), make a node of the locals and leave it
in a register (`Make`), throw. The machine runs the steps over the stack `todo`; `taken`
has the locals of every handler in progress and `register` the six statics. A build
that throws drops the stack and keeps the registers, as the process does. The
reference is `Translation`, which defines the tree by recursion on the parse tree and
has no registers.

`accept()` calls `visit`, the children, and `endVisit`; `ASTVisitor` turns that into a stack
of calls still to be made, in which a node is its path in the program. `PrettyPrinter`
adds the stack `visitResults` and `indentLevel`, one action per `visit` and `endVisit`; a
text is a sequence of tokens, and `printed` the texts written.

`FrontEnd` composes the two as one process uses them: a source is parsed, the tree that
came out of it is printed, and the next source is parsed with the registers as they were
left. It uses the actions of both modules and states the properties that need both.

### `SymbolTable`, `Scopes`, `CallGraph`, `TypeConstraints`, `SemanticAnalysis`: the passes

`SemanticAnalysis` composes the passes in the order of `analyze`: each is a traversal of
the same tree, handed on when the one before is finished, and a pass that throws ends
the analysis. Type inference may be switched off; the queries come last. Properties
about what a pass leaves are evaluated where it hands over, since none changes it later.

* `SymbolTable` has the three collectors in their order, `FunctionNameCollector`,
  `LocalNameCollector` with its `curMap` and its flag `first`, and `FieldNameCollector`. The
  table they leave is checked against the scoping of the program, defined on the tree.
  `Scopes` restates the table's queries for the later passes as functions of the tree;
  `TableAnswersLookups` checks that the table built answers them so.
* `CheckAssignable` (above) is one step here.
* `CallGraph`: `CFAnalyzer` visits the program and adds flows and conditional flows;
  `solve` takes their least solution, the one `CubicSolver` is proved to report where it
  ends well and no merge overtakes a loop. `CallGraphBuilder` visits the program again and fills `callGraph` and `funMap`.
  Then the queries run, of which `getEdges` changes the graph object, and so `existEdge`, which
  calls it and looks through the list it returns. (`getASTFun` enters the null that it returns
  for an unknown name; no query tells that from the missing name.) `QueriesAgree` asks of them
  what `CallGraph.h` promises, whatever was asked before.
  `EveryCallIsAnEdge` compares the graph with the calls of a run; it names the two ways
  of getting at a function that the analysis does not follow (`Unfollowed`,
  `ReturnedWithoutFormals`).
* `TypeConstraints` is `TypeConstraintVisitor` with one action per handler, then the
  solver, taken as one step since `Unifier` is about nothing else, then
  `AbsentFieldChecker`.

Two references decide what the results should be. `TypeRules` has `TypesOf`, a type checker:
it is *told* the types `Gamma` of the variables of `main`, in the programs whose `Prologue`
forces these types, and computes which types an expression may have from those of its
parts, with no equation and no solver. `TipSemantics` is an evaluator of TIP programs over
a memory of cells, which records the calls made and whether an operation met a value it
is not defined for. It evaluates both arms of a conditional expression, as the emitted
code does. Its bound `Depth` ends a run as "halt", as a `for` loop does, which is no
verdict.

### `TipTypes`, `Closing`: printing what was inferred

`close()` replaces the variables of a constructor by what the solution binds them to,
and writes the result *into the constructor it found*, which other edges of the forest
share. So in `Closing` a constructor is a cell of `heap`; `forest` relates objects, not
terms. `stack` has the calls of `close()`, each with its set of visited variables and
the variables left to substitute; a set of variables is walked in an order chosen
freely. `inferred()` is `inferred`, which takes the copy, the calls, and `restore`. The
reference is the solution as it was when solving ended (`solution`), unfolded: the type
that is returned and the one that was asked for must have the same tree, compared down
to `Depth`, since a mu type and its unfolding are one type.

### `GeneratedLoops`: loops when they run

The blocks that both `for` loops and `[n of E]` are compiled to, one action per block, over
a memory of words, numbers from `-Limit` to `Limit - 1` with wrap-around, and `calloc` of a number of bytes. `reg`
has the registers that live across the body. The body is any code: it assigns to the
variables, stores into elements and makes new arrays, up to `MaxEffects` times.
Everything else is as it stands in the code, the signed comparisons, the size that is
computed without a check, the length in the word below the elements. `NoRoom` names the
arrays that get less memory than their length and elements take: those of a negative count,
of a size that wraps around, and those `calloc` has no room for.

### `Runtime`: a program when it runs

`main()` of the run-time library counts and converts the command line, `_tip_main` loads it,
functions call each other through `_tip_ftable`, and input, output and error go through
the library. Of a body the model keeps one local and operations on it. `scanf` leaves
the variable uninitialized when what comes next is no number: any value of `Garbage`.
The library is linked by name, so a function of the program with the name of a C
function takes its place; the run is then "undefined". `Meaning` is the reference, a
recursive definition in which calls pass arguments and nothing else.

### `Driver`: phases, options and passes

One run of `tipc`: a source is the set of phases that would reject it, a command line a
record of the options. One action per phase, with the handlers of `main()` for what a
phase throws; `round` and `turn` are the loops of `Optimizer::optimize`, `ran` and
`ranOnAll` what they ran. Without `--or` there are no rounds, so by default no
function pass runs at all; a negative number is none as well.

## Runs

All runs switch deadlock checking off: the compiler is a program that ends.

| Run | Module / cfg | Shows | Bounds |
|---|---|---|---|
| `unifier` | `MCUnifier` / `Unifier.cfg` | `TypeOK`, `Forest`, `ProperTypeIsCanonical`, `OnlyForced`, `RejectedOnlyIfUnsolvable`, `SolvedForm`, `Termination`, `ImplementsUnification` | all lists of at most 3 equations with a left side `x` or `{f:&&x}` over 9 terms: `x`, `y`, `&x`, `&&x`, `()->x`, `(x)->y`, an absent field, the records `{f:&x}` and `{f:&&x}` |
| `cubic` | `MCCubicSolver` / `CubicSolver.cfg` | `TypeOK`, `ReportsLeastSolution`, `Collapsed`, `NeverRetracts`, `EveryFrameReturns` | 5 constraints, 4 program points, 2 functions |
| `cubic_loops` | `MCCubicSolver` / `CubicLoops.cfg` | `SearchesEnd` is violated | flows only, 3 points |
| `cubic_misses` | `MCCubicSolver` / `CubicMisses.cfg` | `ConstraintsAreSolved` is violated | the 5 constraints of one program, 4 points, 1 function |
| `front_end` | `MCFrontEnd` / `FrontEnd.cfg` | `BuiltIsTranslation`, `NoSubtreeIsLost`, `OneResultPerNode`, `PrintedInOrder`, `TextDeterminesProgram` | any two of 115 parse trees, one after the other |
| `semantic_analysis` | `MCSemanticAnalysis` / `SemanticAnalysis.cfg` | `BuiltIffWellScoped`, `TableAnswersLookups`, `ScopesDoNotMix`, `EveryCallIsAnEdge`, `QueriesAgree`, `AcceptedIffWellTyped`, `AcceptedRunsDoNotGetStuck` | 3782 programs, with type inference and without, two queries |
| `closing` | `MCClosing` / `Closing.cfg` | `InferredIsTheSolution`, `SolutionIsKept`, `EveryTypeIsInferred` | 1041 solutions of up to three equations over three variables, two queries |
| `closing_shared` | `MCClosing` / `ClosingShared.cfg` | `InferredIsTheSolution` is violated | one list of equations |
| `codegen` | `MCCodeGen` / `CodeGen.cfg` | `OperandsFit`, `BlocksWellFormed`, `DefinitionsDominateUses`, `RecordsWhereTheyBelong` | `CorePrograms`: two functions, one statement in `main`, see below |
| `generated_loops` | `MCGeneratedLoops` / `GeneratedLoops.cfg` | `EveryElementHasItsTurn`, `StoresStayInside`, `EveryLoopEndsIfItCan` | words of five bits, 14 words of memory, 123 loops, two effects of the body |
| `runtime` | `MCRuntime` / `Runtime.cfg` | `BehavesAsWritten`, `EveryProgramEnds` | 55 programs of up to four functions, command lines and inputs of up to two words |
| `driver` | `MCDriver` / `Driver.cfg` | `WrittenIffAccepted`, `PrintedIffAnalyzed`, `PassesAreAsAskedFor` | every set of six rejecting phases and a number that is no `int`, 670 command lines, two functions, up to two rounds, and a negative number of them |

*Why the bounds are enough.* Three equations suffice for the order effects of
unification: one to bind a variable to a constructor, one to merge two classes, one
to bring a second constructor into the merged class. The terms contain a
constructor deeper than those the code seeds, functions of different arity, recursive
equations (`x = &x`, and `&x = &&x` below two records), and records whose absent field must
agree. The theorems below lift the bounds. For the cubic solver four points give
cycles of up to four nodes; five constraints are enough for a cycle, a function and a
conditional constraint that closes it while its node is being propagated, the
situation in which frames outlive nodes and merges overtake loops.

Code generation is deterministic, so what counts is which programs are compiled.
`MCCodeGen` builds them by type, so that type inference would accept them, and keeps
those that `CheckAssignable!check` accepts. Every class of expression occurs as an
operand of every class that can move the insert point or touch a flag, every target
is assigned, incremented, decremented and referred to, and each loop and conditional
is nested in each loop around statements that add blocks of their own. Comparisons are
stored, the address of every kind of name is taken, and records stand beside further
allocations under an `alloc`. A defect of the flags needs an expression that reads a flag
within one that sets it, and a defect of the blocks one construct within another, so a
depth of three is enough for both.

The front end is deterministic as well. Handlers interfere only through registers, flags
and stacks that a parent and a child share, so what has to occur is every rule of the
grammar over operands that differ, so that an exchange shows, and a rule below itself; a
second source in the same process is what sees a global left over, and literals past
`IntMax` at several depths are what throws. The programs for `TextDeterminesProgram` differ
in their brackets alone.

The 3782 programs of `semantic_analysis` are six families. Names of two functions, their
formals, locals and uses clash in every way (972): a name is looked up in one function and,
failing that, among the functions, so two functions are enough. Four places mention one
of three fields (81). Five functions pass each other through variables, arguments and
results (54), and two programs use what the analysis does not follow. The type rules look
at a node and its children, so 2133 probes take every class of node over operands of every
type, after statements that force these types. What only shows at a distance, values
that travel through two functions and come back under an alias, is in 540 programs where
nothing tells the checker the types.

For `closing` three variables give solutions with a cycle through
two constructors and a third type that shares them; functions are kept to those without
recursion, because with it the code shows the defect of `closing_shared`.

With words of five bits steps overshoot the largest number, and the size of an array of
three wraps around to zero; two effects of the body are enough to make an
array and put it in the place of the one being iterated over. In `runtime`, a recursion
to depth two with input after the return is where a register or a stack would go
wrong; two words are one number and one that is none, in both orders.

*Fairness.* `Unifier!FairSpec` is weak fairness of the whole next-state relation:
sequential code that nothing suspends takes its next step. `CubicSolver!FairSpec` is
weak fairness of the steps of a call in progress, so a call of the solver runs on,
and nothing is assumed of `CFAnalyzer` making calls. It is written with `Busy` for
`ENABLED Propagate`, because evaluating `ENABLED` would search every path again.

`Closing`, `GeneratedLoops` and `Runtime` assume weak fairness of their whole
next-state relation, for the same reason: one thread runs to its end. A body of a
generated loop comes back each time, since `MaxEffects` bounds what it does, so
`EveryLoopEndsIfItCan` is about the loops of the compiler alone, and it only asks for
loops to end whose step lets them. `Runtime` takes input to be there or to have ended.

## Findings

* **`findPath` may not return** (`cubic_loops`). The walk back from the target looks
  at the subsets of the current node in address order and breaks at the *first* one
  that has a distance. When that one is not a step closer to the source, the current
  node stays and the turn repeats, appending to the path for ever. The shortest
  trace has four flows among three points: s into a, s into t, a into t, and then
  t into s, with a allocated before s. In TIP:
  `main() { var a, s, t; a = 1; a = s; t = s; t = a; s = t; return 0; }`
  The call graph is built for every program, so the compiler hangs when memory is
  laid out that way.
* **Flows get lost below a loop** (`cubic_misses`). The loop of `propegateNodeChanges` over
  the supsets calls itself, and a call may activate a constraint that closes a cycle.
  The merge replaces an element of the very set the loop walks by a node with another
  address; when that is one the loop is past, the superset never gets the functions.
  In TIP: `d = p; x = n; y = n; y = p; z = x(y); n = g;` in a function `g(p)`.
  The solver returns, and says that `y` is no function.

  With the node of the frame itself in the cycle, the loops go on with a node that was
  deleted (`UseDeleted`). In TIP:
  `f(p) { return p; } main() { var x; x = f; x = x(x); return 0; }`
* **Inferred types that are not the solution** (`closing_shared`). A constructor is closed
  in place once per place it is shared by, and the second time a variable in it is printed
  as free. For `x = y`, `y = &y` and a function `f(x, y)` that returns `y`, one occurrence of
  `y` in the type of `f` is a free variable, though `y` is bound to a pointer type.

## What the properties except

Where the code departs from what a comment or a document of the repository says in one
known case, the property names the case and holds of everything else. Each is listed
here with the place in the code.

* *Merges below a loop.* `ReportsLeastSolution` excepts the calls in which a merge overtook
  a loop over the supsets (`CubicSolver.cpp` 69), the finding above; `EveryFrameReturns` those
  that hang or use a deleted node.
* *Comparisons are used as one bit.* `b = n < 1` stores the `i1` of the comparison
  (`CodeGenFunctions.cpp` 467-478) through an `i64*`, though the comment at 52-55 promises
  64-bit integers in memory with conversions as needed; `and`, `or` and `not` do convert.
  A call passes the `i1` as well, a `return` returns it, a conditional expression selects it,
  and `==` compares it with 64 bits. `OperandsFit` excepts `OneBitIsUsed`.
* *The address of a function name is accepted.* The comment at `CodeGenFunctions.cpp` 614
  leaves the check of l-values to the weeding pass, which takes any variable expression
  (`CheckAssignable.cpp` 11). `&f` then is the index of `f`, and `f = g` and `for (f : a)` store
  through it. `OperandsFit` excepts `FunctionAddressed`.
* *An inner `alloc` ends the outer one.* `allocFlag` is cleared, not restored (587). In
  `alloc {g: alloc 1, h: {g: 2}}` the record of `h` is on the stack, and a function that
  returns the outer pointer leaves it dangling. `RecordsWhereTheyBelong` asks only that the
  record right below an `alloc` is on the heap and that none outside of one is.
* *Two programs, one text.* A dereference is printed without brackets and a field access
  or call after its operand: `(*p).g` and `*(p.g)` are both `*p.g` (`PrettyPrinter.cpp` 143).
  `TextDeterminesProgram` excepts `PrefixUnderPostfix`.
* *Calls missing from the call graph.* The flow of a result is generated in the loop over
  the formals (`CFAnalyzer.cpp` 60), so a function without formals returns nothing to its
  callers; and nothing is generated for `alloc`, `&`, `*`, fields, elements, conditional
  expressions and `for`. `CallGraph.h` 14-16 promises an edge for every call.
* *Queries of the call graph.* `CallGraph.h` promises the set of edges (56), the set of the
  callees of a function (62) and the function of a name (85). Asking for the edges twice doubles
  them (`CallGraph.cpp` 34); asking by node for the callees of a function that calls nothing
  dereferences the end of a map (45); a function on no edge is not found under its name but
  answered with null (108). `QueriesAgree` states the promises and excepts these three as
  `AskedAgain`, `CallsNothing` and `OnNoEdge`; it does not ask for the wrong answers, so a
  repair of any of them leaves it true.
* *Comments of the type rules.* Conditions are to be integers and `[E1 of E2]` an array of
  integers by their comments (`TypeConstraintVisitor.cpp` 211-221, 414-416); the code has
  booleans and any type, and `TypesOf` follows the code in that.
* *Free variables of one node.* The fields that an access does not mention lose their own
  variables when a type is closed (`Unifier.cpp` 176), and an empty array is inferred to be an
  array of itself (163), because its free variable carries the name its mu type would
  have. Accesses and empty arrays are not among the programs of `closing`.
* *Sizes of arrays.* `[-1 of 0]` allocates no bytes and stores the length behind them
  (`CodeGenFunctions.cpp` 1352-1358); so does `[n of 0]` when `(n + 1) * 8` wraps around, and
  when `calloc` returns null the store is to address 0. The properties of `generated_loops`
  except `NoRoom`, and the run has all three.
* *A call of `main`.* `main` has no parameters after compilation and loads the command
  line whenever it is entered: `main(n - 1)` starts again with the first `n`. No program
  of `runtime` calls it.
* *Names of the C library.* Functions are external under their own names (191), so one called
  `exit` is what the library's error handling calls. Such a run is "undefined" in `Runtime`.
* *Runs of the driver without an answer.* `--dt --pt` dereferences a null pointer, and a number
  too large for an `int` throws what no handler takes. `WrittenIffAccepted` calls both
  `Unhandled` and still asks that nothing is written.
* *Options.* `--df` is described as "disable function passes" (`tipc.cpp` 22), and the comment at
  `Optimizer.cpp` 66 has `ru` "disable both loop rotating and unrolling". Yet four passes on
  functions are added outside the test for `--df` (91-109), and one of them, the second loop
  unrolling (106), does not test for `ru`. `PassesAreAsAskedFor` takes what is switched off
  from those words (`SwitchedOff`) and excepts these passes as `AddedAgain`, unless `--do` names
  them; it does not ask that they run.

## Proofs

`UnifierProofs` proves for every finite or infinite set of
terms, every `Kind` and `Args`, and every set of constraint lists (the assumptions
are only that these have their types and that `NoTerm` is no term):

| Theorem | Property | Argument |
|---|---|---|
| `Typing` | `TypeOK` | inductive as it stands |
| `AlwaysForest` | `Forest` | needs `RepsAreRoots`: the representatives found are roots still when they are linked, although the second `find` inserted a term in between |
| `ProperRepresentatives` | `ProperTypeIsCanonical` | inductive with `TypeOK`, from the branches' conditions |
| `ForestIsForced` | `OnlyForced` | inductive with a clause for the locals: each representative equals its side of the call in every solving congruence |
| `NeverRejectsTypable` | `RejectedOnlyIfUnsolvable` | from the same invariant: two representatives that do not agree lie in one class of any solution, so there is none |
| `SolvesConstraints` | `SolvedForm` | below |
| `Refinement` | `ImplementsUnification` | below |

`CubicSolverProofs` and `CubicSolutionProofs` prove for any finite set of program points,
numbered in any order, any finite set of functions, any set of constraints and any number of
calls (the assumptions are the types of the constants and that `Unmapped` is no point):

| Theorem | Property | Argument |
|---|---|---|
| `Typing` | `TypeOK` | inductive with `Inv`, below |
| `Collapsing` | `Collapsed` | inductive with `CycleInv`, below |
| `Retraction` | `NeverRetracts` | from `Inv`: a merge keeps every bit with the points that had it |
| `Soundness` | `ForcedOnly` | inductive with `SoundInv`, below; holds in the middle of a call as well |
| `LeastSolution` | `ReportsLeastSolution` | below |

`DriverProofs` proves for every set of command lines, every list of functions and all
sources, assuming only that a source is rejected by phases the model has
(`SourcesAssumption`), that the number of rounds is an integer (`OptionsAssumption`) and that
the functions of a module are distinct and at least one (`FunctionListAssumption`):

| Theorem | Property | Argument |
|---|---|---|
| `WritesWhatIsAccepted` | `WrittenIffAccepted` | inductive with `Reached`: the phases before the next one accepted the source, and nothing is written before the end |
| `PrintsWhatIsAnalyzed` | `PrintedIffAnalyzed` | inductive with `Reached` and `Shown`, which says for each phase what has been printed when it starts |
| `RunsWhatIsAskedFor` | `PassesAreAsAskedFor` | inductive with `Optimizing`: a function has been through the passes once more than there are rounds done if its turn in this one is over (`RoundsOf`); then what one turn holds (`TheFPMFits`), from what is left out of a list (`WithoutFacts`), and that the turns repeat it (`TimesStart`) |

`CodeGenProofs`, `CodeGenTypingProofs` and `CodeGenBlocksProofs` prove for all programs whose nodes
are as the grammar has them and pass the weeding pass (`NodesAssumption`), however large and deep:

| Theorem | Property | Argument |
|---|---|---|
| `Records` | `RecordsWhereTheyBelong` | inductive with `AllocInv`, below |
| `Operands` | `OperandsFit` | inductive with `AllocInv` and `TypingInv`, below |
| `BlocksStayWellFormed` | `BlocksWellFormed` | inductive with `AllocInv`, `TypingInv` and `WellNow`, below |

`GeneratedLoopsProofs` proves for every `Limit` and `MemoryWords`, any set of loops and any
number of effects of the body (`MaxEffects` plays no part), assuming that words can hold 16,
that addresses fit a word and that the bounds of loops are integers:

| Theorem | Property | Argument |
|---|---|---|
| `LoopsStoreInside` | `StoresStayInside` | below |
| `LoopsTakeTheirTurns` | `EveryElementHasItsTurn` | below |

*The invariant of `SolvesConstraints`.* `SolvedForm` speaks of the end; what holds on
the way is that every obligation is either met by the forest or still owed by the
stack. `RootMap(R)` says that `R` takes each term to its root; no climb is defined,
the invariant states that such a map exists. `Accounted(R)` says that constructors
in one class of `R` agree, and that every map which respects the classes of `R` and
equates the sides of the pending calls also equates the arguments of those
constructors and the sides of the constraints already taken. When the stack is empty
`R` itself is such a map, so nothing is owed; `Classes`, defined by closed sets, is
then shown to be the kernel of `R`, hence a congruence. `IdempotentMap` shows that every
map to representatives is one of those that `Congruences` enumerates.

*The argument of `Refinement`.* The equivalence of the abstract state is the kernel of the
root map, so the first lemmas show that on a forest exactly one map satisfies the climbing
equation: `Classes`, with no climb in it, is then determined by the edges, and the steps
that climb, insert a term or return leave it alone. What a link must be shown to do is
merge the classes of one equation that the abstract solver may take at that moment;
`Pending` provides it: every call on the stack, and the one being made, is an equation
entailed by the constraints and the current equivalence. `Reject` maps to the abstract
clash by the representatives of the call, and the end of `solve()` to the abstract end by
`SolvesConstraints`' invariant.

*The invariants of the cubic solver.* `Inv` adds to the types that the subset sets mirror
the superset sets, that the points of an added or waiting constraint have nodes,
and what a search is about: the innermost frame, which has not begun, and a path of live
nodes with increasing distances, so that `mergeNodes` is never given one node twice
or a deleted one. `CycleInv` says which cycles may be left while `killCyclesAt` runs: only
those through the node of the frame, or through the path that is being merged; for each
superset tried in vain there is a closed set of nodes that holds it and not the node, the
set the breadth-first search has measured when its queue is empty (a closed set takes the
place of induction over paths). When the loop is through, any set of nodes without
an exit would meet one of those closed sets in a smaller such set that avoids the node.

*Nothing that is not forced.* `SoundInv` fixes an arbitrary solution `S` of the constraints
added. `S` bounds the bits, agrees on the points merged into one node, grows along edges,
and satisfies the inclusions that waiting lists hold for functions in `S`, and those that
frames have copied. The nodes of a walk lie between its source and the frame's node, and
the edge from that node to the source makes `S` equal on all of them, which is what a
merge needs.

*Nothing is forgotten.* `RepresentedInv` says where a constraint is: as a bit, as an edge or
as one node, or as a pair in a list or in a frame. `CoveredInv` says that an edge along which
bits are missing, or a list whose function has arrived, is still ahead of a loop of some
frame, or belongs to the source of a walk, which will be propagated from the start.
It holds as long as no frame is `Doomed` to use a deleted node; once one is, the call
cannot return, since a frame returns only after the frames above it and a deleted node
does not come back. With an empty stack nothing is ahead, so every edge and list
is satisfied, and the constraints they represent are. The first version of this invariant
left out `overtaken`, and the step that failed was the merge below a loop: that is how the
finding of `cubic_misses` was made.

*The invariant of `LoopsStoreInside`.* `StoresStayInside` is about the last store; whether the
next one is inside depends on registers loaded before a body that may have changed everything
they were loaded from. `Layout` says that blocks lie one after the other, each with its
length in its first word; `Registers` that the kept address of the iterator is `x` or an
element of a block that still exists, whatever `a` is now, and that the index is within
the block being filled. An element is then never the first word of a block
(`ElementIsNoLength`), so no store changes a length, and the lengths justify the next access.

*The invariant of `LoopsTakeTheirTurns`.* In a range loop (`RangeTurns`) the iterator holds the
term of the turn outside of the body; in the body, where it may hold anything, the register
holds a word that is one step before the next term. That every step wraps around and that turns are
counted modulo 2 * `Limit` does not matter: `Wrap` depends only on the remainder
(`WrapKeepsRemainder`), so adding to a word, or multiplying a count of turns that wrapped
around, stands for the same number (`WrapAdds`, `WrapCounts`). In the other loops
(`CounterTurns`) the hidden counter is one more than the turns done, and a count
that no word exceeds is never passed. `Arranged` is part of the invariant: a store to
the iterator has to land in memory for the next header to find it there.

*The invariant of `Records`.* `allocFlag` is one flag for any depth of nesting, and which frames
read it depends on who has set it and not yet reset it. `AllocInv` says so by what is left of the lists
of the frames: when the flag is set, some alloc is past its first step and not past its third
(`FlagHasOwner`), so what is generated then is within its argument; when an alloc is about to
ask for its argument, the flag is set (`FlagForArgument`), whatever expressions before it did.
For that, `CodegenLists` shows of each of the classes that its list of steps writes no
`allocFlag` unless the class is alloc's and asks only for children the grammar gives the node,
and `StepShape` that every step is a call, a return or an advance of the top frame. That a record
nested in a record under an alloc may find the flag reset, by an alloc between them, is the
behaviour listed above; the theorem says what holds in spite of it.

*The invariant of `Operands`.* The code has one `Value*` for words, bits and addresses, and what a
`codegen()` returns depends on a global flag. `TypingInv` gives each local of each
`codegen()` a kind by its name (`Kind`): an address, a word, a bit, a value of a child, the address of
a target. `Holds` says what a local of a kind may hold; for a value and a target that
includes the two exceptions, the bit of a comparison and the index of a function. A
frame is then *typed* (`FrameTyped`) if its locals hold what they should, each step it has left
writes and reads what its locals' kinds promise (`StepTyped`), reads only locals that an
earlier step has written (`Closed`), and asks for an address only between the steps that set and
reset the flag (`FlagsPaired`). What the callee's `result` is, is known from its caller: `LV(i)` is
whether the caller asked for an address, and `FlagForTarget` and `FlagHasTarget` say that
`lValueGen` is set just then. The second is where the classes matter that generate addresses:
each resets the flag before it calls anything else (`ResetsFirst`), except the variable, which
calls nothing and hands the flag back set. `SoundCodegen` shows all of that of the list of every
class as its frame starts, from the grammar and from what the weeding pass accepts as a target
(`TargetKid`); the steps then consume the list. The names of a function enter because a
name without an alloca is a function; they change only under frames of programs and functions
(`OuterBelow`), which hold no operands. Two things that TLC had not shown came up on the way:
that the step that assigns through the name of a function must be excepted as well as `&f`,
and that the model needs names for any number of arguments, which `Actual` now gives.

*The invariant of `BlocksStayWellFormed`.* `BlocksWellFormed` speaks mostly of the finished module; `WellNow`
says on the way what the frames still have to do about the blocks there are. `Laid` reads the
steps a frame has left: each block it names exists or is made before, is entered once, is placed and
branched to before that, and a list that makes blocks branches to them, or is a loop that branches back to
its header and on to its exit. `Flows` reads the same steps for the current block: open where something is
appended, ended where the list moves to another. With them, a block not yet in
its function is `Unplaced` (some frame will place it), one without a terminator is the current one or
`Pending` (some frame will enter it), and one that cannot be reached from the entry is pending too. That
control leaves every block is `Leaving`: a set of blocks without a branch out of it has a
block that returns. The branch back of a loop is what endangers that, and `HeadersLead`
is the reason it does not: as long as the exit is to come, the current block can be
reached from the header, so a set closed with the branch back in it was closed before. Blocks of two frames
are apart by their labels (`LabelsApart`), those of two functions by the names of the functions, each
of which is compiled once (`FunctionsApart`, `ToCompile`). Reachability is again by closed sets;
`FromClosed` shows that `From`, which counts rounds, is the least of them, since a round that
adds nothing comes within as many rounds as there are blocks.

*Recursion in `PassesAreAsAskedFor`.* `Times` and `Without` are defined by recursion on the naturals. That such
functions exist, and so satisfy their equations, is proved in `DriverProofs` by `Induction`, which
speaks of sets and not of formulas and follows from the least element of a set
(`WFMin`): the functions that satisfy the equation up to a number exist and agree.

The mechanics are the usual ones: a lemma per invariant with one step per action,
lemmas about `smart_insert`, `quick_union` and about concatenating stacks, and a last
step by propositional temporal logic.

Only model-checked: termination and the other liveness properties (TLAPS does not
handle fairness and `ENABLED` here); `DefinitionsDominateUses` of `codegen`; and the other modules. The references of most
of those (`Translation`, `TypesOf`, `Eval`, `Executed`) are `RECURSIVE` operators on trees,
which the provers do not take; they and the modules that use them are for TLC alone.

## Not modelled

* The `print` functions of types, nodes, tables and graphs, log messages, and writes that
  fail: output without a decision in it.
* `ConstraintUnifier`, which unifies while the constraints are made: only tests use it.
* What the emitted code does when it runs outside of loops, accesses, calls, input and
  output: arithmetic, records and pointers. Two hazards stay open with that: both arms
  of a conditional expression, and both sides of `and` and `or`, are always evaluated, and
  an element access in a loop takes a new slot of the frame at each turn. No document
  of the repository says otherwise of either.
* A second module in one process: `tipc` compiles one, and only a program that links the
  code generator would inherit its intrinsics and tables.
* Parsing (generated by ANTLR), what LLVM's passes do, the error classes, which have no
  behaviour, and the vendored libraries `loguru`, `PicoSHA2` and `CMake-codecov`.

## Plan

Done: the solver of the type constraints with its proofs, and every other phase as a
checked model. Left:

1. `CallGraph` over `CubicSolver` itself in place of the least solution, once the walk of
   `findPath` ends.
2. Arithmetic and records of the emitted code, as far as documents say what they do.
3. `DefinitionsDominateUses` for all programs: `WellNow` says which blocks are still to be entered, what is
   missing is that the block of every value a frame holds dominates them.
