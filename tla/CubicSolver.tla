---------------------------- MODULE CubicSolver ----------------------------
(***************************************************************************)
(* The control-flow constraint solver of src/src/semantic/cfa/             *)
(* CubicSolver.cpp.  A program point (an ASTNode) is mapped to a graph     *)
(* node, a CubicSolverNode; an edge from a node to one of its supsets says *)
(* that the functions of the first flow to the second.  Cycles are         *)
(* collapsed by merging their nodes, and a merged node is deleted.         *)
(*                                                                         *)
(* A graph node is named by the program point it was made for.  The code   *)
(* walks std::sets of pointers, that is in the order of addresses, which   *)
(* is here the order of the names: a set of requests that is closed under  *)
(* renaming covers every allocation order.                                 *)
(*                                                                         *)
(* propegateNodeChanges and activateConditionalConstraint call each other. *)
(* Their recursion is an explicit stack of frames, so that a frame whose   *)
(* node was deleted by a call it made is visible: a step that reads such a *)
(* node, or follows an iterator whose element was erased, is undefined     *)
(* behaviour and takes status to "undefined".  A search for a path that    *)
(* never ends takes it to "looping".                                       *)
(***************************************************************************)
EXTENDS Naturals, FiniteSets, Sequences

CONSTANTS
    ASTNode,        \* program points, numbered in address order
    Fn,             \* the functions, by their index in fmapping
    Unmapped,       \* no node
    Requests,       \* the constraints CFAnalyzer may add
    MaxRequests     \* bound: how many it adds

ASSUME ASTNodeAssumption == ASTNode \subseteq Nat /\ IsFiniteSet(ASTNode)
ASSUME FnAssumption == Fn \subseteq Nat /\ IsFiniteSet(Fn)
ASSUME UnmappedAssumption == Unmapped \notin ASTNode
ASSUME MaxRequestsAssumption == MaxRequests \in Nat

ElementOf == [op : {"element"}, fn : Fn, in : ASTNode]
Subset == [op : {"subset"}, from : ASTNode, to : ASTNode]
Conditional == [op : {"conditional"}, fn : Fn, in : ASTNode, from : ASTNode, to : ASTNode]

ASSUME RequestsAssumption == Requests \subseteq ElementOf \union Subset \union Conditional

VARIABLES
    dagmapping,             \* the node of each program point
    supsets, subsets,       \* the edges of each node, and the same edges backwards
    bitvector,              \* the functions of each node
    conditionalConstraints, \* the constraints of each node that wait for a function
    stack,                  \* the frames of propegateNodeChanges, the innermost first
    search,                 \* killCyclesAt, which runs before the innermost frame does
    status,
    added,                  \* history: the constraints added so far
    count,                  \* history: how many calls added them
    overtaken               \* history: a frame's loop was overtaken by a merge

graph == <<supsets, subsets, bitvector, conditionalConstraints>>
history == <<added, count>>
vars == <<dagmapping, graph, stack, search, status, history, overtaken>>

-----------------------------------------------------------------------------
(* The graph.  The fields of a name that no node has are empty: what the    *)
(* constructor gives a node they have from the start, and a deleted node    *)
(* leaves nothing behind.  A name is not used again once its node is gone.  *)

Live(n) == dagmapping[n] = n

NoConstraints == [f \in Fn |-> << >>]

(* dagmapping once each point of new has a node. *)
addEmptyVariableIfNecessary(new) ==
    [n \in ASTNode |-> IF n \in new /\ dagmapping[n] = Unmapped THEN n ELSE dagmapping[n]]

Link(m, n) ==
    /\ supsets' = [supsets EXCEPT ![m] = @ \union {n}]
    /\ subsets' = [subsets EXCEPT ![n] = @ \union {m}]

Merged_KeepsDeleted(out, in, n1, n2) ==     \* mutated form: neighbours keep n2
    [n \in ASTNode |->
        IF n = n2 THEN {}
        ELSE IF n = n1 THEN (out[n1] \union (out[n2] \ {n1})) \ {n2}
        ELSE out[n]]

(* One direction of the edges once n2 is merged into n1; in has the other.  *)
Merged(out, in, n1, n2) ==
    [n \in ASTNode |->
        IF n = n2 THEN {}
        ELSE IF n = n1 THEN (out[n1] \union (out[n2] \ {n1})) \ {n2}
        ELSE IF n \in in[n2] THEN (out[n] \ {n2}) \union {n1}
        ELSE out[n]]

mergeNodes_LosesBits(n1, n2) ==     \* mutated form: only edges and constraints are merged
    /\ dagmapping' = [n \in ASTNode |-> IF dagmapping[n] = n2 THEN n1 ELSE dagmapping[n]]
    /\ supsets' = Merged(supsets, subsets, n1, n2)
    /\ subsets' = Merged(subsets, supsets, n1, n2)
    /\ bitvector' = [bitvector EXCEPT ![n2] = {}]
    /\ conditionalConstraints' =
          [conditionalConstraints EXCEPT
              ![n1] = [f \in Fn |-> @[f] \o conditionalConstraints[n2][f]],
              ![n2] = NoConstraints]

(* n2 is merged into n1 and deleted. *)
mergeNodes(n1, n2) ==
    /\ dagmapping' = [n \in ASTNode |-> IF dagmapping[n] = n2 THEN n1 ELSE dagmapping[n]]
    /\ supsets' = Merged(supsets, subsets, n1, n2)
    /\ subsets' = Merged(subsets, supsets, n1, n2)
    /\ bitvector' = [bitvector EXCEPT ![n1] = @ \union bitvector[n2], ![n2] = {}]
    /\ conditionalConstraints' =
          [conditionalConstraints EXCEPT
              ![n1] = [f \in Fn |-> @[f] \o conditionalConstraints[n2][f]],
              ![n2] = NoConstraints]

-----------------------------------------------------------------------------
(* A frame of propegateNodeChanges: the loop over the functions has fns     *)
(* left, todo is the rest of the copied constraints of the previous one,    *)
(* and the loop over the supsets is at the element at (none when at = {}).  *)
Frame(n) == [node |-> n, fns |-> Fn, todo |-> << >>, at |-> {}]

(* killCyclesAt of the innermost frame's node: its loop over the supsets is *)
(* at the element at; findPath measures distances from there until it finds *)
(* the node, and walks back along path, whose head is where it has come to. *)
Search(mode, at, dist, queue, path) ==
    [mode |-> mode, at |-> at, dist |-> dist, queue |-> queue, path |-> path]

NoSearch == Search("none", {}, << >>, << >>, << >>)
NewSearch == Search("choose", {}, << >>, << >>, << >>)

(* An edge is added as addSubseteqConstraint and activateConditional-       *)
(* Constraint do it; frames is the stack to return to.                      *)
AddEdge(dag, frames, from, to) ==
    IF dag[from] = dag[to]
    THEN /\ stack' = frames
         /\ UNCHANGED <<supsets, subsets, search>>
    ELSE /\ Link(dag[from], dag[to])
         /\ stack' = <<Frame(dag[from])>> \o frames
         /\ search' = NewSearch

Init ==
    /\ dagmapping = [n \in ASTNode |-> Unmapped]
    /\ supsets = [n \in ASTNode |-> {}]
    /\ subsets = [n \in ASTNode |-> {}]
    /\ bitvector = [n \in ASTNode |-> {}]
    /\ conditionalConstraints = [n \in ASTNode |-> NoConstraints]
    /\ stack = << >>
    /\ search = NoSearch
    /\ status = "defined"
    /\ added = {}
    /\ count = 0
    /\ overtaken = FALSE

(* CFAnalyzer calls the solver only when the previous call has returned.    *)
Ready == status = "defined" /\ stack = << >>

Take(r, points) ==
    /\ Ready
    /\ count < MaxRequests
    /\ count' = count + 1
    /\ added' = added \union {r}
    /\ dagmapping' = addEmptyVariableIfNecessary(points)
    /\ UNCHANGED <<status, overtaken>>

addElementofConstraint(r) ==
    /\ r.op = "element" /\ Take(r, {r.in})
    /\ LET n == dagmapping'[r.in]
       IN  /\ bitvector' = [bitvector EXCEPT ![n] = @ \union {r.fn}]
           /\ stack' = <<Frame(n)>>
    /\ UNCHANGED <<supsets, subsets, conditionalConstraints, search>>

addConditionalConstraint(r) ==
    /\ r.op = "conditional" /\ Take(r, {r.in, r.from, r.to})
    /\ LET n == dagmapping'[r.in]
       IN  /\ conditionalConstraints' =
                  [conditionalConstraints EXCEPT ![n][r.fn] = Append(@, <<r.from, r.to>>)]
           /\ stack' = <<Frame(n)>>
    /\ UNCHANGED <<supsets, subsets, bitvector, search>>

addSubseteqConstraint(r) ==
    /\ r.op = "subset" /\ Take(r, {r.from, r.to})
    /\ AddEdge(dagmapping', << >>, r.from, r.to)
    /\ UNCHANGED <<bitvector, conditionalConstraints>>

-----------------------------------------------------------------------------
(* The innermost frame, and whether it or the search before it takes steps. *)
frame == Head(stack)
Busy == status = "defined" /\ stack # << >>
Searching(mode) == Busy /\ search.mode = mode
Running == Searching("none")
Replace(f) == <<f>> \o Tail(stack)

(* The first element of a set that is walked in order, as a set.            *)
First(S) == {s \in S : \A t \in S : s <= t}

(* The elements of the set not yet visited by a loop that is at `at'.       *)
After(S, at) == {s \in S : \A a \in at : a < s}

-----------------------------------------------------------------------------
(* killCyclesAt and findPath, a breadth-first search for the node from one  *)
(* of its supsets.                                                          *)

Ascending(S) ==
    {q \in [1..Cardinality(S) -> S] :
        /\ \A s \in S : \E i \in DOMAIN q : q[i] = s
        /\ \A i, j \in DOMAIN q : i < j => q[i] < q[j]}

Fresh(dist, n) == supsets[n] \ DOMAIN dist

(* The distances after those of the supsets of n have been filled in. *)
populateDistances(dist, n) ==
    [m \in DOMAIN dist \union supsets[n] |->
        IF m \in DOMAIN dist THEN dist[m] ELSE dist[n] + 1]

(* findPath(t, n) for the next t, up to its loop.                           *)
NextCandidate ==
    /\ Searching("choose")
    /\ \E t \in First(After(supsets[frame.node], search.at)) :
          LET dist == [m \in {t} |-> 0]
          IN  \E q \in Ascending(Fresh(dist, t)) :
                 search' = Search("measure", {t}, populateDistances(dist, t), q, << >>)
    /\ UNCHANGED <<dagmapping, graph, stack, status, history, overtaken>>

(* A turn of the loop; only at its end the code asks for the target. *)
Measure ==
    /\ Searching("measure") /\ search.queue # << >>
    /\ LET curr == Head(search.queue)
           dist == populateDistances(search.dist, curr)
       IN  \E q \in Ascending(Fresh(search.dist, curr)) :
              search' =
                 IF frame.node \in DOMAIN dist
                 THEN Search("walk", search.at, dist, << >>, <<frame.node>>)
                 ELSE Search("measure", search.at, dist, Tail(search.queue) \o q, << >>)
    /\ UNCHANGED <<dagmapping, graph, stack, status, history, overtaken>>

NoPath_Breaks ==    \* mutated form: the loop over the supsets ends here
    /\ Searching("measure") /\ search.queue = << >> /\ frame.node \notin DOMAIN search.dist
    /\ search' = NoSearch
    /\ UNCHANGED <<dagmapping, graph, stack, status, history, overtaken>>

(* The node cannot be reached from the candidate: the next one is tried.    *)
NoPath ==
    /\ Searching("measure") /\ search.queue = << >> /\ frame.node \notin DOMAIN search.dist
    /\ search' = Search("choose", search.at, << >>, << >>, << >>)
    /\ UNCHANGED <<dagmapping, graph, stack, status, history, overtaken>>

NoCycleLeft ==
    /\ Searching("choose") /\ After(supsets[frame.node], search.at) = {}
    /\ search' = NoSearch
    /\ UNCHANGED <<dagmapping, graph, stack, status, history, overtaken>>

Walking == Searching("walk") /\ Head(search.path) \notin search.at

(* The walk back looks only at the first subset that has a distance.        *)
Closer ==
    LET curr == Head(search.path)
    IN  {n \in First(subsets[curr] \intersect DOMAIN search.dist) :
            search.dist[n] + 1 = search.dist[curr]}

StepBack ==
    /\ Walking
    /\ \E n \in Closer : search' = [search EXCEPT !.path = <<n>> \o @]
    /\ UNCHANGED <<dagmapping, graph, stack, status, history, overtaken>>

(* When that subset is not a step closer to the source, the code repeats    *)
(* the turn as it was, for ever.                                            *)
SearchForEver ==
    /\ Walking /\ Closer = {}
    /\ status' = "looping"
    /\ UNCHANGED <<dagmapping, graph, stack, search, history, overtaken>>

(* The loop of some frame has n2 still to come, and is past n1, which takes *)
(* the place of n2 among the supsets of the frame's node.                   *)
Overtakes(n1, n2) ==
    \E i \in DOMAIN stack :
        LET n == stack[i].node
        IN  /\ n \notin {n1, n2}
            /\ n2 \in supsets[n] /\ n1 \notin supsets[n]
            /\ \A a \in stack[i].at : a < n2
            /\ \E a \in stack[i].at : n1 < a

(* A turn of mergePath: the source of the walk absorbs the others one by    *)
(* one, the node of the frame last, and becomes the node of the frame.      *)
MergeNext ==
    /\ Searching("walk") /\ Head(search.path) \in search.at /\ Len(search.path) > 1
    /\ LET n1 == search.path[1]
           n2 == search.path[2]
       IN  /\ mergeNodes(n1, n2)
           /\ overtaken' = (overtaken \/ Overtakes(n1, n2))
           /\ IF Len(search.path) = 2
              THEN /\ stack' = Replace([frame EXCEPT !.node = n1])
                   /\ search' = NewSearch
              ELSE /\ search' = [search EXCEPT !.path = <<n1>> \o Tail(Tail(@))]
                   /\ UNCHANGED stack
    /\ UNCHANGED <<status, history>>

-----------------------------------------------------------------------------
(* The steps of the innermost frame.                                        *)

activateConditionalConstraint_Again ==      \* mutated form: the loop does not advance
    /\ Running /\ frame.todo # << >>
    /\ LET pair == Head(frame.todo)
       IN  AddEdge(dagmapping, stack, pair[1], pair[2])
    /\ UNCHANGED <<dagmapping, bitvector, conditionalConstraints, status, history, overtaken>>

(* The next constraint of the copied vector; the frame's node may be gone.  *)
activateConditionalConstraint ==
    /\ Running /\ frame.todo # << >>
    /\ LET pair == Head(frame.todo)
       IN  AddEdge(dagmapping, Replace([frame EXCEPT !.todo = Tail(@)]), pair[1], pair[2])
    /\ UNCHANGED <<dagmapping, bitvector, conditionalConstraints, status, history, overtaken>>

NextFunction_NotCopied ==       \* mutated form: cleared before it is copied
    /\ Running /\ frame.todo = << >> /\ Live(frame.node)
    /\ \E f \in First(frame.fns) :
          LET n == frame.node
          IN  /\ stack' = Replace([frame EXCEPT !.fns = @ \ {f}])
              /\ IF f \in bitvector[n]
                 THEN conditionalConstraints' = [conditionalConstraints EXCEPT ![n][f] = << >>]
                 ELSE UNCHANGED conditionalConstraints
    /\ UNCHANGED <<dagmapping, supsets, subsets, bitvector, search, status, history, overtaken>>

(* The next function of the first loop: when its bit is set its constraints *)
(* are copied and cleared.                                                  *)
NextFunction ==
    /\ Running /\ frame.todo = << >> /\ Live(frame.node)
    /\ \E f \in First(frame.fns) :
          LET n == frame.node
              rest == [frame EXCEPT !.fns = @ \ {f}]
          IN  IF f \in bitvector[n]
              THEN /\ stack' = Replace([rest EXCEPT !.todo = conditionalConstraints[n][f]])
                   /\ conditionalConstraints' = [conditionalConstraints EXCEPT ![n][f] = << >>]
              ELSE /\ stack' = Replace(rest)
                   /\ UNCHANGED conditionalConstraints
    /\ UNCHANGED <<dagmapping, supsets, subsets, bitvector, search, status, history, overtaken>>

(* The loop over the supsets may go on.                                     *)
Looping ==
    /\ Running /\ frame.todo = << >> /\ frame.fns = {}
    /\ Live(frame.node) /\ frame.at \subseteq supsets[frame.node]

Remaining == After(supsets[frame.node], frame.at)

(* The next superset: it takes the bits of the node and is propagated.      *)
NextSuperset ==
    /\ Looping
    /\ \E s \in First(Remaining) :
          /\ bitvector' = [bitvector EXCEPT ![s] = @ \union bitvector[frame.node]]
          /\ stack' = <<Frame(s)>> \o Replace([frame EXCEPT !.at = {s}])
    /\ UNCHANGED <<dagmapping, supsets, subsets, conditionalConstraints, search>>
    /\ UNCHANGED <<status, history, overtaken>>

Return ==
    /\ Looping /\ Remaining = {}
    /\ stack' = Tail(stack)
    /\ UNCHANGED <<dagmapping, graph, search, status, history, overtaken>>

(* The frame's node was deleted, or the element its iterator is at was      *)
(* erased, while a call of the frame ran.                                   *)
UseDeleted ==
    /\ Running /\ frame.todo = << >>
    /\ \/ ~Live(frame.node)
       \/ frame.fns = {} /\ ~(frame.at \subseteq supsets[frame.node])
    /\ status' = "undefined"
    /\ UNCHANGED <<dagmapping, graph, stack, search, history, overtaken>>

Propagate ==
    \/ NextCandidate \/ Measure \/ NoPath \/ NoCycleLeft
    \/ StepBack \/ SearchForEver \/ MergeNext
    \/ activateConditionalConstraint \/ NextFunction \/ NextSuperset
    \/ Return \/ UseDeleted

Next ==
    \/ \E r \in Requests : \/ addElementofConstraint(r)
                           \/ addConditionalConstraint(r)
                           \/ addSubseteqConstraint(r)
    \/ Propagate

Spec == Init /\ [][Next]_vars

(* A call of the solver runs until it returns: WF_vars(Propagate) with      *)
(* ENABLED Propagate written as Busy, what it is.                           *)
FairSpec == Spec /\ ([]<>~Busy \/ []<><<Busy>>_vars)

-----------------------------------------------------------------------------
(* getPossibleFunctionsForExpr *)
Possible(n) == IF dagmapping[n] = Unmapped THEN {} ELSE bitvector[dagmapping[n]]

(* The constraints as they are meant: S gives each point its functions.     *)
Holds(S, r) ==
    \/ r.op = "element" /\ r.fn \in S[r.in]
    \/ r.op = "subset" /\ S[r.from] \subseteq S[r.to]
    \/ r.op = "conditional" /\ (r.fn \in S[r.in] => S[r.from] \subseteq S[r.to])

Solution(S) == \A r \in added : Holds(S, r)

(* Points are mapped to live nodes, edges lead to live nodes other than     *)
(* their own, and a deleted node has left nothing behind.                   *)
NodesAreLive ==
    /\ \A p \in ASTNode : dagmapping[p] # Unmapped => Live(dagmapping[p])
    /\ \A n \in ASTNode : ~Live(n) =>
          /\ supsets[n] = {} /\ subsets[n] = {} /\ bitvector[n] = {}
          /\ conditionalConstraints[n] = NoConstraints
    /\ \A m \in ASTNode : m \notin supsets[m] /\ \A n \in supsets[m] \union subsets[m] : Live(n)

Frames == [node : ASTNode, fns : SUBSET Fn, todo : Seq(ASTNode \X ASTNode), at : SUBSET ASTNode]

(* Every variable has its type, and the graph consists of live nodes.  What *)
(* could break it is a merge, which has to redirect every program point and *)
(* every neighbour of the node it deletes, and the assertion sups != node.  *)
TypeOK ==
    /\ dagmapping \in [ASTNode -> ASTNode \union {Unmapped}]
    /\ supsets \in [ASTNode -> SUBSET ASTNode]
    /\ subsets \in [ASTNode -> SUBSET ASTNode]
    /\ bitvector \in [ASTNode -> SUBSET Fn]
    /\ conditionalConstraints \in [ASTNode -> [Fn -> Seq(ASTNode \X ASTNode)]]
    /\ NodesAreLive
    /\ stack \in Seq(Frames)
    /\ search.mode \in {"none", "choose", "measure", "walk"}
    /\ search.at \subseteq ASTNode
    /\ DOMAIN search.dist \subseteq ASTNode
    /\ search.dist \in [DOMAIN search.dist -> Nat]
    /\ search.queue \in Seq(ASTNode) /\ search.path \in Seq(ASTNode)
    /\ status \in {"defined", "undefined", "looping"}
    /\ added \subseteq Requests
    /\ count \in 0..MaxRequests
    /\ overtaken \in BOOLEAN

(* No function is reported that the constraints added so far do not force. *)
ForcedOnly ==
    \A S \in [ASTNode -> SUBSET Fn] :
        Solution(S) => \A n \in ASTNode : Possible(n) \subseteq S[n]

(* When a call of the solver returns, the functions it reports for the      *)
(* program points satisfy the constraints added so far: collapsing,         *)
(* propagating and activating have lost no flow, unless a merge overtook a  *)
(* loop.  When a call has ended, well or not, nothing is reported that is   *)
(* not forced.  So what is reported is the least solution.                  *)
ReportsLeastSolution ==
    /\ Ready /\ ~overtaken => Solution([n \in ASTNode |-> Possible(n)])
    /\ Busy \/ ForcedOnly

(* What the recursion of propegateNodeChanges needs to end: but for the     *)
(* time killCyclesAt needs, the graph has no cycle.  The subset sets always *)
(* mirror the superset sets, or mergeNodes would erase what is not there.   *)
Acyclic ==
    \A S \in SUBSET ASTNode :
        S # {} => \E n \in S : supsets[n] \intersect S = {}

Mirrored == \A m, n \in ASTNode : n \in supsets[m] <=> m \in subsets[n]

Collapsed == (search.mode = "none" => Acyclic) /\ Mirrored

(* What was reported for a program point stays reported: a merge or a       *)
(* cleared list of conditional constraints takes nothing back.              *)
NeverRetracts == [][\A n \in ASTNode : Possible(n) \subseteq Possible(n)']_vars

(* A propagation ends although propegateNodeChanges calls itself on every   *)
(* superset whether or not its bits have changed, unless findPath loops or  *)
(* a deleted node is used.                                                  *)
EveryFrameReturns == (stack # << >>) ~> (stack = << >> \/ status # "defined")

(* "Generated constraints are solved by the cubic solver" (CFAnalyzer.h):   *)
(* findPath's walk back reaches the node its search started from.           *)
SearchesEnd == status # "looping"

(* The same sentence: a call that ends has ended well, and what the solver  *)
(* reports then satisfies every constraint added.                           *)
ConstraintsAreSolved ==
    ~Busy /\ SearchesEnd =>
        status = "defined" /\ Solution([n \in ASTNode |-> Possible(n)])
=============================================================================
