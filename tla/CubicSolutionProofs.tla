------------------------ MODULE CubicSolutionProofs ------------------------
(*************************************************************************)
(* The cubic solver computes the least solution of its constraints.      *)
(*                                                                       *)
(* It reports nothing that is not forced (SoundInv): every solution S of *)
(* the constraints added so far bounds the bits, and what S gives a node is *)
(* the same for all points merged into it, grows along the edges, and allows *)
(* the edge of every conditional constraint that S triggers.             *)
(*                                                                       *)
(* It forgets nothing (CoveredInv, RepresentedInv): every constraint added is *)
(* represented by a bit, an edge, or a list or frame that holds it, and every *)
(* edge and list that is not satisfied yet is still ahead of a loop on the *)
(* stack.  A merge can break that: a loop it overtakes, or a frame whose node *)
(* it deletes, is what the model calls overtaken and Doomed.             *)
(*************************************************************************)
EXTENDS CubicSolverProofs

(* A bit stays with the program points it was reported for.              *)
LEMMA PossibleGrows ==
    ASSUME Inv,
           \A p \in ASTNode :
               Mapped(p) => Mapped(p)' /\ bitvector[dagmapping[p]] \subseteq bitvector'[dagmapping'[p]]
    PROVE  \A n \in ASTNode : Possible(n) \subseteq Possible(n)'
BY DEF Possible, Mapped

LEMMA BitsGrow ==
    ASSUME Inv, MappingGrows, \A n \in ASTNode : bitvector[n] \subseteq bitvector'[n]
    PROVE  \A n \in ASTNode : Possible(n) \subseteq Possible(n)'
<1>1. ASSUME NEW p \in ASTNode, Mapped(p)
      PROVE  Mapped(p)' /\ bitvector[dagmapping[p]] \subseteq bitvector'[dagmapping'[p]]
  <2>1. dagmapping[p] \in ASTNode
    BY <1>1 DEF Inv, GraphOK, GraphType, Mapped
  <2> QED BY <1>1, <2>1 DEF MappingGrows
<1> QED BY <1>1, PossibleGrows

LEMMA TakenPoints ==
    ASSUME Inv, NEW r \in Requests, NEW points, Take(r, points)
    PROVE  \A p \in ASTNode :
              /\ Mapped(p) => dagmapping'[p] = dagmapping[p]
              /\ ~Mapped(p) => dagmapping'[p] = p \/ dagmapping'[p] = Unmapped
<1>1. dagmapping' = addEmptyVariableIfNecessary(points)
  BY DEF Take
<1> QED BY <1>1 DEF addEmptyVariableIfNecessary, Mapped

LEMMA Unmoved ==
    ASSUME Inv, UNCHANGED <<dagmapping, bitvector>>
    PROVE  \A n \in ASTNode : Possible(n) \subseteq Possible(n)'
BY DEF Possible

LEMMA StepRetractsNothing ==
    ASSUME Inv, [Next]_vars
    PROVE  \A n \in ASTNode : Possible(n) \subseteq Possible(n)'
<1>1. ASSUME NEW r \in Requests, addElementofConstraint(r)
      PROVE  \A n \in ASTNode : Possible(n) \subseteq Possible(n)'
  <2>1. /\ r.in \in ASTNode /\ r.fn \in Fn /\ Take(r, {r.in})
        /\ bitvector' = [bitvector EXCEPT ![dagmapping'[r.in]] = @ \union {r.fn}]
    BY <1>1, RequestTypes DEF addElementofConstraint
  <2>2. {r.in} \in SUBSET ASTNode
    BY <2>1
  <2>3. MappingGrows
    BY <2>1, <2>2, Taking
  <2>4. \A n \in ASTNode : bitvector[n] \subseteq bitvector'[n]
    BY <2>1 DEF Inv, GraphOK, GraphType
  <2> QED BY <2>3, <2>4, BitsGrow
<1>2. ASSUME NEW r \in Requests, addConditionalConstraint(r)
      PROVE  \A n \in ASTNode : Possible(n) \subseteq Possible(n)'
  <2>1. /\ {r.in, r.from, r.to} \in SUBSET ASTNode /\ Take(r, {r.in, r.from, r.to})
        /\ bitvector' = bitvector
    BY <1>2, RequestTypes DEF addConditionalConstraint
  <2>2. MappingGrows
    BY <2>1, Taking
  <2> QED BY <2>1, <2>2, BitsGrow
<1>3. ASSUME NEW r \in Requests, addSubseteqConstraint(r)
      PROVE  \A n \in ASTNode : Possible(n) \subseteq Possible(n)'
  <2>1. /\ {r.from, r.to} \in SUBSET ASTNode /\ Take(r, {r.from, r.to})
        /\ bitvector' = bitvector
    BY <1>3, RequestTypes DEF addSubseteqConstraint
  <2>2. MappingGrows
    BY <2>1, Taking
  <2> QED BY <2>1, <2>2, BitsGrow
<1>4. ASSUME NextSuperset
      PROVE  \A n \in ASTNode : Possible(n) \subseteq Possible(n)'
  <2>1. PICK s : bitvector' = [bitvector EXCEPT ![s] = @ \union bitvector[frame.node]]
    BY <1>4 DEF NextSuperset
  <2>2. \A n \in ASTNode : bitvector[n] \subseteq bitvector'[n]
    BY <2>1 DEF Inv, GraphOK, GraphType
  <2>3. MappingGrows
    BY <1>4, MappingStays DEF NextSuperset, Inv
  <2> QED BY <2>2, <2>3, BitsGrow
<1>5. ASSUME MergeNext
      PROVE  \A n \in ASTNode : Possible(n) \subseteq Possible(n)'
  <2>1. PICK n1 \in ASTNode, n2 \in ASTNode :
            n1 # n2 /\ Live(n1) /\ Live(n2) /\ mergeNodes(n1, n2)
    BY <1>5, Merging
  <2>2. /\ \A p \in ASTNode :
              /\ Mapped(p)' <=> Mapped(p)
              /\ dagmapping'[p] = IF dagmapping[p] = n2 THEN n1 ELSE dagmapping[p]
        /\ \A n \in ASTNode :
              bitvector'[n] = IF n = n2 THEN {}
                              ELSE IF n = n1 THEN bitvector[n1] \union bitvector[n2]
                              ELSE bitvector[n]
    <3>1. GraphOK
      BY DEF Inv
    <3> QED BY <2>1, <3>1, MergedPoints, MergedBits
  <2>3. ASSUME NEW p \in ASTNode, Mapped(p)
        PROVE  Mapped(p)' /\ bitvector[dagmapping[p]] \subseteq bitvector'[dagmapping'[p]]
    <3>1. dagmapping[p] \in ASTNode
      BY <2>3 DEF Inv, GraphOK, GraphType, Mapped
    <3>2. CASE dagmapping[p] = n2
      BY <2>1, <2>2, <2>3, <3>2
    <3>3. CASE dagmapping[p] # n2
      BY <2>1, <2>2, <2>3, <3>1, <3>3
    <3> QED BY <3>2, <3>3
  <2> QED BY <2>3, PossibleGrows
<1>6. ASSUME \/ NextCandidate \/ Measure \/ NoPath \/ NoCycleLeft \/ StepBack \/ SearchForEver
             \/ activateConditionalConstraint \/ NextFunction \/ Return \/ UseDeleted
             \/ UNCHANGED vars
      PROVE  \A n \in ASTNode : Possible(n) \subseteq Possible(n)'
  <2>1. UNCHANGED <<dagmapping, bitvector>>
    BY <1>6 DEF NextCandidate, Measure, NoPath, NoCycleLeft, StepBack, SearchForEver,
       activateConditionalConstraint, NextFunction, Return, UseDeleted, vars, graph
  <2> QED BY <2>1, Unmoved
<1> QED BY <1>1, <1>2, <1>3, <1>4, <1>5, <1>6 DEF Next, Propagate

(* No step of the solver, and no later constraint, takes back a function *)
(* that was reported for a program point: a merge hands the bits of the  *)
(* node it deletes on with the points that were mapped to it.            *)
THEOREM Retraction == Spec => NeverRetracts
<1>1. Spec => []Inv
  BY InitInv, NextInv, PTL DEF Spec
<1>2. Inv /\ [Next]_vars => [\A n \in ASTNode : Possible(n) \subseteq Possible(n)']_vars
  BY StepRetractsNothing
<1> QED BY <1>1, <1>2, PTL DEF Spec, NeverRetracts
-----------------------------------------------------------------------------
(* S bounds what the solver holds.  On a walk back from the frame's node to *)
(* the source every node lies on a path between the two, and the edge from *)
(* the frame's node to the source closes the cycle: S is the same on it. *)
SoundPoints(S) == \A p \in ASTNode : Mapped(p) => S[p] = S[dagmapping[p]]
SoundBits(S) == \A n \in ASTNode : bitvector[n] \subseteq S[n]
SoundEdges(S) == \A m \in ASTNode : \A n \in supsets[m] : S[m] \subseteq S[n]
SoundLists(S) ==
    \A n \in ASTNode : \A f \in S[n] :
        \A x \in Elems(conditionalConstraints[n][f]) : S[x[1]] \subseteq S[x[2]]
SoundFrames(S) ==
    \A fr \in Elems(stack) : \A x \in Elems(fr.todo) : S[x[1]] \subseteq S[x[2]]
SoundWalk(S) ==
    search.mode = "walk" =>
        \A x \in Elems(search.path) : S[Head(search.path)] \subseteq S[x] /\ S[x] \subseteq S[frame.node]

Sound(S) ==
    SoundPoints(S) /\ SoundBits(S) /\ SoundEdges(S) /\ SoundLists(S) /\ SoundFrames(S) /\ SoundWalk(S)

LEMMA TakenSound ==
    ASSUME Inv, NEW S \in [ASTNode -> SUBSET Fn], Sound(S),
           NEW r \in Requests, NEW points \in SUBSET ASTNode, Take(r, points)
    PROVE  SoundPoints(S)'
<1>1. ASSUME NEW p \in ASTNode, Mapped(p)'
      PROVE  S[p] = S[dagmapping'[p]]
  <2>1. CASE Mapped(p)
    BY <2>1, TakenPoints DEF Sound, SoundPoints
  <2>2. CASE ~Mapped(p)
    BY <1>1, <2>2, TakenPoints DEF Mapped
  <2> QED BY <2>1, <2>2
<1> QED BY <1>1 DEF SoundPoints

LEMMA addElementofConstraintSound ==
    ASSUME Inv, NEW S \in [ASTNode -> SUBSET Fn], Sound(S),
           NEW r \in Requests, addElementofConstraint(r), r.fn \in S[r.in]
    PROVE  Sound(S)'
<1>1. /\ r.in \in ASTNode /\ r.fn \in Fn /\ Take(r, {r.in}) /\ {r.in} \in SUBSET ASTNode
      /\ UNCHANGED <<supsets, subsets, conditionalConstraints, search>>
      /\ bitvector' = [bitvector EXCEPT ![dagmapping'[r.in]] = @ \union {r.fn}]
      /\ stack' = <<Frame(dagmapping'[r.in])>>
  BY RequestTypes DEF addElementofConstraint
<1>2. search.mode = "none" /\ Mapped(r.in)' /\ MappingGrows
  BY <1>1, Taking
<1>3. PICK n \in ASTNode : n = dagmapping'[r.in]
  BY <1>1, <1>2 DEF MappingGrows, Mapped
<1>4. SoundPoints(S)'
  BY <1>1, TakenSound
<1>5. S[n] = S[r.in]
  BY <1>1, <1>2, <1>3, <1>4 DEF SoundPoints
<1>6. SoundBits(S)'
  BY <1>1, <1>3, <1>5 DEF Sound, SoundBits, Inv, GraphOK, GraphType
<1>7. Elems(stack') = {Frame(n)} /\ Elems(Frame(n).todo) = {}
  BY <1>1, <1>3, SingleFrame, FrameType, NoElems
<1>8. SoundFrames(S)'
  BY <1>7 DEF SoundFrames
<1> QED BY <1>1, <1>2, <1>4, <1>6, <1>8 DEF Sound, SoundEdges, SoundLists, SoundWalk

LEMMA addConditionalConstraintSound ==
    ASSUME Inv, NEW S \in [ASTNode -> SUBSET Fn], Sound(S),
           NEW r \in Requests, addConditionalConstraint(r),
           r.fn \in S[r.in] => S[r.from] \subseteq S[r.to]
    PROVE  Sound(S)'
<1>1. /\ r.in \in ASTNode /\ r.fn \in Fn /\ r.from \in ASTNode /\ r.to \in ASTNode
      /\ Take(r, {r.in, r.from, r.to}) /\ {r.in, r.from, r.to} \in SUBSET ASTNode
      /\ UNCHANGED <<supsets, subsets, bitvector, search>>
      /\ conditionalConstraints' =
            [conditionalConstraints EXCEPT ![dagmapping'[r.in]][r.fn] = Append(@, <<r.from, r.to>>)]
      /\ stack' = <<Frame(dagmapping'[r.in])>>
  BY RequestTypes DEF addConditionalConstraint
<1>2. search.mode = "none" /\ Mapped(r.in)' /\ MappingGrows
  BY <1>1, Taking
<1>3. PICK n \in ASTNode : n = dagmapping'[r.in]
  BY <1>1, <1>2 DEF MappingGrows, Mapped
<1>4. SoundPoints(S)'
  BY <1>1, TakenSound
<1>5. S[n] = S[r.in]
  BY <1>1, <1>2, <1>3, <1>4 DEF SoundPoints
<1>6. \A k \in ASTNode, f \in Fn : \A y :
          y \in Elems(conditionalConstraints'[k][f]) <=>
              y \in Elems(conditionalConstraints[k][f]) \/ (k = n /\ f = r.fn /\ y = <<r.from, r.to>>)
  <2>1. PICK e \in Fn, x \in ASTNode \X ASTNode : e = r.fn /\ x = <<r.from, r.to>>
    BY <1>1
  <2>2. conditionalConstraints' = Extended(n, e, x)
    BY <1>1, <1>3, <2>1 DEF Inv, GraphOK, GraphType, Extended
  <2>3. \A k \in ASTNode, f \in Fn : \A y :
            y \in Elems(conditionalConstraints'[k][f]) <=>
                y \in Elems(conditionalConstraints[k][f]) \/ (k = n /\ f = e /\ y = x)
    BY <2>2, ElemsExtended, Zenon
  <2>4. \A y : y = x <=> y = <<r.from, r.to>>
    BY <2>1
  <2>5. ASSUME NEW k \in ASTNode, NEW f \in Fn, NEW y
        PROVE  y \in Elems(conditionalConstraints'[k][f]) <=>
                   y \in Elems(conditionalConstraints[k][f]) \/ (k = n /\ f = r.fn /\ y = <<r.from, r.to>>)
    <3>1. y \in Elems(conditionalConstraints'[k][f]) <=>
              y \in Elems(conditionalConstraints[k][f]) \/ (k = n /\ f = e /\ y = x)
      BY <2>3
    <3>2. y = x <=> y = <<r.from, r.to>>
      BY <2>4, Zenon
    <3> QED BY <2>1, <3>1, <3>2
  <2> QED BY <2>5, Zenon
<1>7. SoundLists(S)'
  <2> SUFFICES ASSUME NEW k \in ASTNode, NEW f \in S[k], NEW x \in Elems(conditionalConstraints'[k][f])
               PROVE  S[x[1]] \subseteq S[x[2]]
    BY DEF SoundLists
  <2>1. f \in Fn
    OBVIOUS
  <2>2. CASE x \in Elems(conditionalConstraints[k][f])
    BY <2>2 DEF Sound, SoundLists
  <2>3. CASE k = n /\ f = r.fn /\ x = <<r.from, r.to>>
    BY <1>5, <2>3
  <2> QED BY <1>6, <2>1, <2>2, <2>3
<1>8. Elems(stack') = {Frame(n)} /\ Elems(Frame(n).todo) = {}
  BY <1>1, <1>3, SingleFrame, FrameType, NoElems
<1>9. SoundFrames(S)'
  BY <1>8 DEF SoundFrames
<1> QED BY <1>1, <1>2, <1>4, <1>7, <1>9 DEF Sound, SoundEdges, SoundBits, SoundWalk

(* An edge that S allows, and a stack whose constraints S satisfies. *)
LEMMA AddedEdgeSound ==
    ASSUME Inv, search.mode = "none", MappingGrows,
           NEW S \in [ASTNode -> SUBSET Fn], Sound(S), SoundPoints(S)',
           NEW frames \in Seq(Frames), NEW from \in ASTNode, NEW to \in ASTNode,
           Mapped(from)', Mapped(to)', S[from] \subseteq S[to],
           \A fr \in Elems(frames) : \A x \in Elems(fr.todo) : S[x[1]] \subseteq S[x[2]],
           AddEdge(dagmapping', frames, from, to),
           UNCHANGED <<bitvector, conditionalConstraints>>
    PROVE  Sound(S)'
<1>1. GraphOK /\ SearchType /\ SearchOK
  BY DEF Inv
<1>2. PICK m \in ASTNode, k \in ASTNode :
          /\ m = dagmapping'[from] /\ k = dagmapping'[to]
          /\ m = k => NoEdge(frames)
          /\ m # k => NewEdge(frames, m, k)
  BY <1>1, EdgeAdded
<1>3. /\ m = k => stack' = frames /\ supsets' = supsets /\ search' = search
      /\ m # k => /\ Elems(stack') = {Frame(m)} \union Elems(frames)
                  /\ search' = NewSearch
                  /\ \A n \in ASTNode :
                        supsets'[n] = IF n = m THEN supsets[n] \union {k} ELSE supsets[n]
  BY <1>2 DEF NoEdge, NewEdge
<1>4. S[m] \subseteq S[k]
  BY <1>2 DEF SoundPoints, Mapped
<1>5. SoundEdges(S)'
  <2> SUFFICES ASSUME NEW a \in ASTNode, NEW b \in supsets'[a] PROVE S[a] \subseteq S[b]
    BY DEF SoundEdges
  <2>1. b \in supsets[a] \/ (a = m /\ b = k)
    BY <1>3
  <2> QED BY <1>4, <2>1 DEF Sound, SoundEdges
<1>6. SoundFrames(S)'
  <2>1. Elems(Frame(m).todo) = {}
    BY FrameType, NoElems
  <2> QED BY <1>3, <2>1 DEF SoundFrames
<1>7. search'.mode = "none" \/ search'.mode = "choose"
  BY <1>3 DEF NewSearch, Search
<1> QED BY <1>5, <1>6, <1>7 DEF Sound, SoundBits, SoundLists, SoundWalk

LEMMA addSubseteqConstraintSound ==
    ASSUME Inv, NEW S \in [ASTNode -> SUBSET Fn], Sound(S),
           NEW r \in Requests, addSubseteqConstraint(r), S[r.from] \subseteq S[r.to]
    PROVE  Sound(S)'
<1>1. /\ r.from \in ASTNode /\ r.to \in ASTNode
      /\ Take(r, {r.from, r.to}) /\ {r.from, r.to} \in SUBSET ASTNode
      /\ AddEdge(dagmapping', << >>, r.from, r.to)
      /\ UNCHANGED <<bitvector, conditionalConstraints>>
  BY RequestTypes DEF addSubseteqConstraint
<1>2. search.mode = "none" /\ MappingGrows /\ Mapped(r.from)' /\ Mapped(r.to)' /\ SoundPoints(S)'
  BY <1>1, Taking, TakenSound
<1>3. << >> \in Seq(Frames) /\ Elems(<< >>) = {}
  BY NoElems
<1> QED BY <1>1, <1>2, <1>3, AddedEdgeSound

LEMMA activateConditionalConstraintSound ==
    ASSUME Inv, NEW S \in [ASTNode -> SUBSET Fn], Sound(S), activateConditionalConstraint
    PROVE  Sound(S)'
<1>1. /\ stack # << >> /\ search.mode = "none"
      /\ UNCHANGED <<dagmapping, bitvector, conditionalConstraints>>
  BY DEF activateConditionalConstraint, Running, Searching, Busy
<1>2. MappingGrows /\ SoundPoints(S)'
  BY <1>1, MappingStays DEF Inv, Sound, SoundPoints, Mapped
<1>3. PICK from \in ASTNode, to \in ASTNode, f \in Frames, frames \in Seq(Frames) :
          /\ Elems(frame.todo) = {<<from, to>>} \union Elems(f.todo) /\ Mapped(from) /\ Mapped(to)
          /\ AddEdge(dagmapping', frames, from, to)
          /\ Elems(frames) = {f} \union Elems(Tail(stack))
  BY Activation
<1>4. \A x \in Elems(frame.todo) : S[x[1]] \subseteq S[x[2]]
  BY <1>1, TopFrame DEF Sound, SoundFrames
<1>5. S[from] \subseteq S[to]
  BY <1>3, <1>4
<1>6. \A fr \in Elems(frames) : \A x \in Elems(fr.todo) : S[x[1]] \subseteq S[x[2]]
  BY <1>1, <1>3, <1>4, TopFrame DEF Sound, SoundFrames
<1>7. Mapped(from)' /\ Mapped(to)'
  BY <1>1, <1>3 DEF Mapped
<1> QED BY <1>1, <1>2, <1>3, <1>5, <1>6, <1>7, AddedEdgeSound

LEMMA NextFunctionSound ==
    ASSUME Inv, NEW S \in [ASTNode -> SUBSET Fn], Sound(S), NextFunction
    PROVE  Sound(S)'
<1>1. PICK n \in ASTNode, f \in Fn, rest \in Frames :
          /\ search.mode = "none" /\ stack # << >>
          /\ rest.todo = IF f \in bitvector[n] THEN conditionalConstraints[n][f] ELSE << >>
          /\ Elems(stack') = {rest} \union Elems(Tail(stack))
          /\ \A k \in ASTNode, e \in Fn :
                conditionalConstraints'[k][e] =
                    IF k = n /\ e = f /\ f \in bitvector[n] THEN << >>
                    ELSE conditionalConstraints[k][e]
          /\ UNCHANGED <<dagmapping, supsets, bitvector, search>>
  BY FunctionTaken
<1>2. SoundFrames(S)'
  <2>1. \A x \in Elems(rest.todo) : S[x[1]] \subseteq S[x[2]]
    BY <1>1, NoElems DEF Sound, SoundBits, SoundLists
  <2> QED BY <1>1, <2>1, TopFrame DEF Sound, SoundFrames
<1>3. SoundLists(S)'
  <2> SUFFICES ASSUME NEW k \in ASTNode, NEW e \in S[k], NEW x \in Elems(conditionalConstraints'[k][e])
               PROVE  S[x[1]] \subseteq S[x[2]]
    BY DEF SoundLists
  <2>1. e \in Fn
    OBVIOUS
  <2>2. x \in Elems(conditionalConstraints[k][e])
    BY <1>1, <2>1, NoElems
  <2> QED BY <2>2 DEF Sound, SoundLists
<1> QED BY <1>1, <1>2, <1>3 DEF Sound, SoundPoints, SoundBits, SoundEdges, SoundWalk, Mapped

LEMMA NextSupersetSound ==
    ASSUME Inv, NEW S \in [ASTNode -> SUBSET Fn], Sound(S), NextSuperset
    PROVE  Sound(S)'
<1>1. PICK n \in ASTNode, s \in ASTNode, f \in Frames :
              /\ n = frame.node /\ Live(n) /\ s \in supsets[n] /\ Live(s) /\ s # n
              /\ f = [node |-> n, fns |-> {}, todo |-> << >>, at |-> {s}]
              /\ stack # << >> /\ search.mode = "none"
              /\ bitvector' \in [ASTNode -> SUBSET Fn]
              /\ \A k \in ASTNode :
                    bitvector'[k] = IF k = s THEN bitvector[s] \union bitvector[n] ELSE bitvector[k]
              /\ StackType' /\ Elems(stack') = {Frame(s), f} \union Elems(Tail(stack))
              /\ UNCHANGED <<dagmapping, supsets, subsets, conditionalConstraints, search>>
              /\ UNCHANGED <<status, history, overtaken>>
  BY SupersetTaken
<1>2. SoundFrames(S)'
  <2>1. Elems(Frame(s).todo) = {} /\ Elems(f.todo) = {}
    BY <1>1, FrameType, NoElems
  <2> QED BY <1>1, <2>1, TopFrame DEF Sound, SoundFrames
<1>3. SoundBits(S)'
  <2>1. S[n] \subseteq S[s]
    BY <1>1 DEF Sound, SoundEdges
  <2> QED BY <1>1, <2>1 DEF Sound, SoundBits
<1> QED BY <1>1, <1>2, <1>3 DEF Sound, SoundPoints, SoundLists, SoundEdges, SoundWalk, Mapped

LEMMA ReturnSound ==
    ASSUME Inv, NEW S \in [ASTNode -> SUBSET Fn], Sound(S), Return
    PROVE  Sound(S)'
<1>1. stack # << >> /\ search.mode = "none" /\ stack' = Tail(stack)
      /\ UNCHANGED <<dagmapping, graph, search>>
  BY DEF Return, Looping, Running, Searching, Busy
<1>2. SoundFrames(S)'
  BY <1>1, TopFrame DEF Sound, SoundFrames
<1> QED BY <1>1, <1>2 DEF Sound, SoundPoints, SoundBits, SoundLists, SoundEdges, SoundWalk, Mapped, graph

(* Steps of a search that leave the walk alone, or begin it. *)
LEMMA SearchSound ==
    ASSUME Inv, NEW S \in [ASTNode -> SUBSET Fn], Sound(S),
           UNCHANGED <<dagmapping, graph, stack>>,
           \/ UNCHANGED search
           \/ search'.mode # "walk"
           \/ stack # << >> /\ search'.path = <<frame.node>>
    PROVE  Sound(S)'
<1>1. SoundWalk(S)'
  <2>1. frame' = frame
    BY DEF frame
  <2>2. CASE UNCHANGED search \/ search'.mode # "walk"
    BY <2>1, <2>2 DEF Sound, SoundWalk
  <2>3. CASE stack # << >> /\ search'.path = <<frame.node>>
    <3>1. Head(search'.path) = frame.node /\ Elems(search'.path) = {frame.node}
      BY <2>3 DEF Elems
    <3> QED BY <2>1, <3>1 DEF SoundWalk
  <2> QED BY <2>2, <2>3
<1> QED BY <1>1 DEF Sound, SoundPoints, SoundBits, SoundLists, SoundEdges, SoundFrames, Mapped, graph

LEMMA StepBackSound ==
    ASSUME Inv, NEW S \in [ASTNode -> SUBSET Fn], Sound(S), StepBack
    PROVE  Sound(S)'
<1>1. /\ search.mode = "walk" /\ search.path \in Seq(ASTNode)
      /\ UNCHANGED <<dagmapping, graph, stack>>
  BY DEF StepBack, Walking, Searching, Inv, SearchType
<1>2. search.path # << >>
  BY <1>1 DEF Inv, SearchOK, Walked
<1>3. PICK c \in ASTNode : c = Head(search.path) /\ c \in Elems(search.path)
  BY <1>1, <1>2, ElemsTail
<1>4. PICK n \in subsets[c] : search' = [search EXCEPT !.path = <<n>> \o search.path]
  BY <1>3 DEF StepBack, Closer, First
<1>5. n \in ASTNode /\ c \in supsets[n]
  BY <1>4 DEF Inv, GraphOK, GraphType, Mirrored
<1>6. search'.path = <<n>> \o search.path
  <2>1. search = [mode |-> search.mode, at |-> search.at, dist |-> search.dist,
                  queue |-> search.queue, path |-> search.path]
    BY DEF Inv, SearchType, Search
  <2> QED BY <1>4, <2>1
<1>7. Head(search'.path) = n /\ Elems(search'.path) = {n} \union Elems(search.path)
  BY <1>1, <1>5, <1>6, ElemsCons
<1>8. \A x \in Elems(search.path) : S[c] \subseteq S[x] /\ S[x] \subseteq S[frame.node]
  BY <1>1, <1>3 DEF Sound, SoundWalk
<1>9. S[n] \subseteq S[c]
  BY <1>5 DEF Sound, SoundEdges
<1>10. frame' = frame
  BY <1>1 DEF frame
<1>11. SoundWalk(S)'
  BY <1>3, <1>7, <1>8, <1>9, <1>10 DEF SoundWalk
<1> QED BY <1>1, <1>11 DEF Sound, SoundPoints, SoundBits, SoundLists, SoundEdges, SoundFrames, Mapped, graph

(* The nodes of a walk that has come to its source lie on a cycle. *)
LEMMA MergeNextSound ==
    ASSUME Inv, NEW S \in [ASTNode -> SUBSET Fn], Sound(S), MergeNext
    PROVE  Sound(S)'
<1>1. PICK n1 \in ASTNode, n2 \in ASTNode :
              /\ n1 # n2 /\ Live(n1) /\ Live(n2) /\ mergeNodes(n1, n2)
              /\ search.path \in Seq(ASTNode) /\ n1 = search.path[1] /\ n2 = search.path[2]
              /\ Len(search.path) >= 2
              /\ n1 \in supsets[frame.node]
              /\ search.mode = "walk" /\ stack # << >>
              /\ frame.node \in ASTNode
              /\ \/ /\ n2 = frame.node /\ stack' = Replace(Frame(n1)) /\ search' = NewSearch
                 \/ /\ n2 # frame.node /\ UNCHANGED stack
                    /\ search' = [search EXCEPT !.path = <<n1>> \o Tail(Tail(search.path))]
  BY Merging
<1>2. n1 # n2 /\ Live(n1) /\ Live(n2) /\ mergeNodes(n1, n2) /\ GraphOK
  BY <1>1 DEF Inv
<1>3. \A p \in ASTNode :
          /\ Mapped(p)' <=> Mapped(p)
          /\ dagmapping'[p] = IF dagmapping[p] = n2 THEN n1 ELSE dagmapping[p]
  BY <1>2, MergeGraph
<1>4. \A m, k \in ASTNode :
          k \in supsets'[m] <=>
              /\ m # n2 /\ k # n2 /\ m # k
              /\ \/ k \in supsets[m]
                 \/ m = n1 /\ k \in supsets[n2]
                 \/ k = n1 /\ n2 \in supsets[m]
  BY <1>2, MergeGraph
<1>5. \A n \in ASTNode :
          bitvector'[n] = IF n = n2 THEN {}
                          ELSE IF n = n1 THEN bitvector[n1] \union bitvector[n2]
                          ELSE bitvector[n]
  BY <1>2, MergedBits
<1>6. \A n \in ASTNode, f \in Fn :
          conditionalConstraints'[n][f] =
              IF n = n2 THEN << >>
              ELSE IF n = n1 THEN conditionalConstraints[n1][f] \o conditionalConstraints[n2][f]
              ELSE conditionalConstraints[n][f]
  BY <1>2, MergedLists
<1>7. PICK p \in Seq(ASTNode) :
          /\ p = search.path /\ Head(p) = n1 /\ n2 \in Elems(p) /\ p # << >> /\ Tail(p) # << >>
          /\ Elems(Tail(Tail(p))) \subseteq Elems(p) /\ n1 \in Elems(p)
          /\ Tail(Tail(p)) \in Seq(ASTNode)
  <2>1. PICK p \in Seq(ASTNode) : p = search.path /\ Len(p) >= 2 /\ n1 = p[1] /\ n2 = p[2]
    BY <1>1
  <2>2. Len(p) \in Nat /\ 1 \in DOMAIN p /\ 2 \in DOMAIN p
    BY <2>1
  <2>3. n1 \in Elems(p) /\ n2 \in Elems(p)
    BY <2>1, <2>2 DEF Elems
  <2>4. p # << >> /\ Head(p) = n1
    BY <2>1, <2>2
  <2>5. Tail(p) \in Seq(ASTNode) /\ Len(Tail(p)) # 0
    BY <2>1, <2>2, <2>4
  <2>6. Tail(p) # << >>
    <3>1. Len(<< >>) = 0
      OBVIOUS
    <3> QED BY <2>5, <3>1
  <2>7. Elems(Tail(p)) \subseteq Elems(p)
    BY <2>4, ElemsTail
  <2>8. Tail(Tail(p)) \in Seq(ASTNode) /\ Elems(Tail(Tail(p))) \subseteq Elems(Tail(p))
    BY <2>5, <2>6, ElemsTail
  <2> QED BY <2>1, <2>3, <2>4, <2>6, <2>7, <2>8
<1>8. \A x \in Elems(p) : S[n1] \subseteq S[x] /\ S[x] \subseteq S[frame.node]
  BY <1>1, <1>7 DEF Sound, SoundWalk
<1>9. S[n1] = S[n2]
  <2>1. S[frame.node] \subseteq S[n1]
    BY <1>1 DEF Sound, SoundEdges
  <2> QED BY <1>7, <1>8, <2>1
<1>10. SoundPoints(S)'
  BY <1>3, <1>9 DEF Sound, SoundPoints
<1>11. SoundBits(S)'
  BY <1>5, <1>9 DEF Sound, SoundBits
<1>12. SoundEdges(S)'
  <2> SUFFICES ASSUME NEW m \in ASTNode, NEW k \in supsets'[m] PROVE S[m] \subseteq S[k]
    BY DEF SoundEdges
  <2>1. k \in ASTNode
    <3>1. GraphOK'
      BY <1>2, MergeGraph
    <3> QED BY <3>1 DEF GraphOK, GraphType
  <2>2. \A a, b \in ASTNode : b \in supsets[a] => S[a] \subseteq S[b]
    BY DEF Sound, SoundEdges
  <2>3. CASE k \in supsets[m]
    BY <2>1, <2>2, <2>3
  <2>4. CASE m = n1 /\ k \in supsets[n2]
    BY <1>9, <2>1, <2>2, <2>4
  <2>5. CASE k = n1 /\ n2 \in supsets[m]
    BY <1>9, <2>1, <2>2, <2>5
  <2> QED BY <1>4, <2>1, <2>3, <2>4, <2>5
<1>13. SoundLists(S)'
  <2> SUFFICES ASSUME NEW n \in ASTNode, NEW f \in S[n], NEW x \in Elems(conditionalConstraints'[n][f])
               PROVE  S[x[1]] \subseteq S[x[2]]
    BY DEF SoundLists
  <2>1. f \in Fn
    OBVIOUS
  <2>2. Elems(conditionalConstraints[n1][f] \o conditionalConstraints[n2][f])
             = Elems(conditionalConstraints[n1][f]) \union Elems(conditionalConstraints[n2][f])
    <3>1. /\ conditionalConstraints[n1][f] \in Seq(ASTNode \X ASTNode)
          /\ conditionalConstraints[n2][f] \in Seq(ASTNode \X ASTNode)
      BY <2>1, WaitingTypes
    <3> QED BY <3>1, ElemsConcat
  <2>3. \/ x \in Elems(conditionalConstraints[n][f])
        \/ n = n1 /\ x \in Elems(conditionalConstraints[n2][f])
    BY <1>6, <2>1, <2>2, NoElems
  <2> QED BY <1>9, <2>3 DEF Sound, SoundLists
<1>14. CASE n2 = frame.node
  <2>1. stack' = Replace(Frame(n1)) /\ search'.mode # "walk"
    BY <1>1, <1>14 DEF NewSearch, Search
  <2>2. Frame(n1) \in Frames /\ Elems(Frame(n1).todo) = {}
    BY FrameType, NoElems
  <2>3. Elems(stack') = {Frame(n1)} \union Elems(Tail(stack))
    BY <1>1, <2>1, <2>2, Replaced
  <2>4. SoundFrames(S)'
    BY <1>1, <2>2, <2>3, TopFrame DEF Sound, SoundFrames
  <2> QED BY <1>10, <1>11, <1>12, <1>13, <2>1, <2>4 DEF Sound, SoundWalk
<1>15. CASE n2 # frame.node
  <2>1. UNCHANGED stack /\ search' = [search EXCEPT !.path = <<n1>> \o Tail(Tail(p))]
    BY <1>1, <1>7, <1>15
  <2>2. search'.path = <<n1>> \o Tail(Tail(p))
    <3>1. search = [mode |-> search.mode, at |-> search.at, dist |-> search.dist,
                    queue |-> search.queue, path |-> search.path]
      BY DEF Inv, SearchType, Search
    <3> QED BY <2>1, <3>1
  <2>3. Head(search'.path) = n1 /\ Elems(search'.path) = {n1} \union Elems(Tail(Tail(p)))
    <3>1. PICK u \in Seq(ASTNode) : u = Tail(Tail(p))
      BY <1>7
    <3>2. Head(<<n1>> \o u) = n1 /\ Elems(<<n1>> \o u) = {n1} \union Elems(u)
      BY ElemsCons
    <3> QED BY <2>2, <3>1, <3>2
  <2>4. frame' = frame /\ SoundFrames(S)'
    BY <2>1 DEF Sound, SoundFrames, frame
  <2>5. SoundWalk(S)'
    BY <1>7, <1>8, <2>3, <2>4 DEF SoundWalk
  <2> QED BY <1>10, <1>11, <1>12, <1>13, <2>4, <2>5 DEF Sound
<1> QED BY <1>14, <1>15
-----------------------------------------------------------------------------
SoundInv == \A S \in [ASTNode -> SUBSET Fn] : Solution(S) => Sound(S)

LEMMA InitSound == Init => SoundInv
<1> SUFFICES ASSUME Init, NEW S \in [ASTNode -> SUBSET Fn] PROVE Sound(S)
  BY DEF SoundInv
<1>1. \A n \in ASTNode, f \in Fn : Elems(conditionalConstraints[n][f]) = {}
  BY NoElems DEF Init, NoConstraints
<1>2. SoundLists(S)
  BY <1>1 DEF SoundLists
<1>3. Elems(stack) = {}
  BY NoElems DEF Init
<1>4. SoundPoints(S) /\ SoundBits(S) /\ SoundEdges(S) /\ SoundFrames(S) /\ SoundWalk(S)
  BY <1>3 DEF Init, SoundPoints, SoundBits, SoundEdges, SoundFrames, SoundWalk, Mapped, NoSearch, Search
<1> QED BY <1>2, <1>4 DEF Sound

LEMMA NextSound == Inv /\ SoundInv /\ [Next]_vars => SoundInv'
<1> SUFFICES ASSUME Inv, SoundInv, [Next]_vars, NEW S \in [ASTNode -> SUBSET Fn], Solution(S)'
             PROVE  Sound(S)'
  BY DEF SoundInv
<1>1. \A r \in added' : Holds(S, r)
  BY DEF Solution
<1>2. added \subseteq added' => Sound(S)
  BY <1>1 DEF SoundInv, Solution
<1>3. ASSUME NEW r \in Requests, addElementofConstraint(r) PROVE Sound(S)'
  <2>1. added' = added \union {r} /\ r.op = "element"
    BY <1>3 DEF addElementofConstraint, Take
  <2>2. Sound(S) /\ r.fn \in S[r.in]
    BY <1>1, <1>2, <2>1 DEF Holds
  <2> QED BY <1>3, <2>2, addElementofConstraintSound
<1>4. ASSUME NEW r \in Requests, addConditionalConstraint(r) PROVE Sound(S)'
  <2>1. added' = added \union {r} /\ r.op = "conditional"
    BY <1>4 DEF addConditionalConstraint, Take
  <2>2. Sound(S) /\ (r.fn \in S[r.in] => S[r.from] \subseteq S[r.to])
    BY <1>1, <1>2, <2>1 DEF Holds
  <2> QED BY <1>4, <2>2, addConditionalConstraintSound
<1>5. ASSUME NEW r \in Requests, addSubseteqConstraint(r) PROVE Sound(S)'
  <2>1. added' = added \union {r} /\ r.op = "subset"
    BY <1>5 DEF addSubseteqConstraint, Take
  <2>2. Sound(S) /\ S[r.from] \subseteq S[r.to]
    BY <1>1, <1>2, <2>1 DEF Holds
  <2> QED BY <1>5, <2>2, addSubseteqConstraintSound
<1>6. CASE NextCandidate \/ NoPath \/ NoCycleLeft \/ SearchForEver \/ UseDeleted \/ UNCHANGED vars
  <2>1. UNCHANGED <<dagmapping, graph, stack, added>>
    BY <1>6 DEF NextCandidate, NoPath, NoCycleLeft, SearchForEver, UseDeleted, vars, history
  <2>2. UNCHANGED search \/ search'.mode # "walk"
    <3>1. CASE NextCandidate
      <4>1. search'.mode = "measure"
        BY <3>1 DEF NextCandidate, Search
      <4> QED BY <4>1
    <3>2. CASE NoPath
      BY <3>2 DEF NoPath, Search
    <3>3. CASE NoCycleLeft
      BY <3>3 DEF NoCycleLeft, NoSearch, Search
    <3>4. CASE SearchForEver \/ UseDeleted \/ UNCHANGED vars
      BY <3>4 DEF SearchForEver, UseDeleted, vars
    <3> QED BY <1>6, <3>1, <3>2, <3>3, <3>4
  <2> QED BY <1>2, <2>1, <2>2, SearchSound
<1>7. CASE Measure
  <2>1. UNCHANGED <<dagmapping, graph, stack, added>> /\ stack # << >>
    BY <1>7 DEF Measure, Searching, Busy, history
  <2>2. search'.mode # "walk" \/ search'.path = <<frame.node>>
    BY <1>7 DEF Measure, Search
  <2> QED BY <1>2, <2>1, <2>2, SearchSound
<1>8. CASE \/ StepBack \/ MergeNext \/ activateConditionalConstraint \/ NextFunction
           \/ NextSuperset \/ Return
  <2>1. UNCHANGED added
    BY <1>8 DEF StepBack, MergeNext, activateConditionalConstraint, NextFunction, NextSuperset,
       Return, history
  <2> QED BY <1>2, <1>8, <2>1, StepBackSound, MergeNextSound, activateConditionalConstraintSound,
          NextFunctionSound, NextSupersetSound, ReturnSound
<1> QED BY <1>3, <1>4, <1>5, <1>6, <1>7, <1>8 DEF Next, Propagate

LEMMA SoundMeaning == Inv /\ SoundInv => ForcedOnly
<1> SUFFICES ASSUME Inv, NEW S \in [ASTNode -> SUBSET Fn], Sound(S), NEW n \in ASTNode
             PROVE  Possible(n) \subseteq S[n]
  BY DEF SoundInv, ForcedOnly
<1>1. CASE Mapped(n)
  <2>1. dagmapping[n] \in ASTNode
    BY <1>1 DEF Inv, GraphOK, GraphType, Mapped
  <2> QED BY <1>1, <2>1 DEF Possible, Mapped, Sound, SoundPoints, SoundBits
<1>2. CASE ~Mapped(n)
  BY <1>2 DEF Possible, Mapped
<1> QED BY <1>1, <1>2

(* In every state, in the middle of a propagation and after undefined    *)
(* behaviour too, a reported function is in every solution of the        *)
(* constraints added so far: no merge puts together two program points that *)
(* the constraints do not make equal.                                    *)
THEOREM Soundness == Spec => []ForcedOnly
<1>1. Init => Inv /\ SoundInv
  BY InitInv, InitSound
<1>2. (Inv /\ SoundInv) /\ [Next]_vars => (Inv /\ SoundInv)'
  BY NextInv, NextSound
<1>3. Inv /\ SoundInv => ForcedOnly
  BY SoundMeaning
<1> QED BY <1>1, <1>2, <1>3, PTL DEF Spec
-----------------------------------------------------------------------------
(* A frame whose node was deleted, or whose iterator is at a deleted node: *)
(* the propagation will use it, which is undefined behaviour.            *)
Doomed == \E fr \in Elems(stack) : ~Live(fr.node) \/ \E a \in fr.at : ~Live(a)

(* The walk has come to its source n, which absorbs the rest of the path and *)
(* is then propagated from the start.                                    *)
Source(n) == search.mode = "walk" /\ n = Head(search.path) /\ n \in search.at

(* A loop of a frame of n is still to come to the superset m, or to the  *)
(* function f.                                                           *)
Visits(n, m) == \E fr \in Elems(stack) : fr.node = n /\ \A a \in fr.at : a < m
Asks(n, f) == \E fr \in Elems(stack) : fr.node = n /\ f \in fr.fns

EdgesCovered ==
    \A n \in ASTNode : \A m \in supsets[n] :
        bitvector[n] \subseteq bitvector[m] \/ Visits(n, m) \/ Source(n) \/ overtaken
ListsCovered ==
    \A n \in ASTNode : \A f \in bitvector[n] :
        conditionalConstraints[n][f] = << >> \/ Asks(n, f) \/ Source(n)
IteratorsValid == \A fr \in Elems(stack) : fr.at \subseteq supsets[fr.node]

Covered == EdgesCovered /\ ListsCovered /\ IteratorsValid
CoveredInv == status = "defined" /\ ~Doomed => Covered

LEMMA FramesTyped ==
    ASSUME Inv
    PROVE  \A fr \in Elems(stack) :
              fr \in Frames /\ fr.node \in ASTNode /\ fr.at \subseteq ASTNode /\ fr.fns \subseteq Fn
BY WaitingTypes DEF Frames

(* Nothing is left to do when a call has returned. *)
LEMMA NothingWaits ==
    ASSUME Inv, CoveredInv, Ready
    PROVE  /\ \A n \in ASTNode : \A m \in supsets[n] : bitvector[n] \subseteq bitvector[m] \/ overtaken
           /\ \A n \in ASTNode : \A f \in bitvector[n] : conditionalConstraints[n][f] = << >>
<1>1. Elems(stack) = {} /\ search.mode = "none" /\ status = "defined"
  BY NoElems DEF Ready, Inv, SearchOK, SearchOfFrame
<1>2. EdgesCovered /\ ListsCovered
  BY <1>1 DEF CoveredInv, Covered, Doomed
<1> QED BY <1>1, <1>2 DEF EdgesCovered, ListsCovered, Visits, Asks, Source

LEMMA addElementofConstraintCovered ==
    ASSUME Inv, CoveredInv, NEW r \in Requests, addElementofConstraint(r)
    PROVE  CoveredInv'
<1>1. /\ r.in \in ASTNode /\ r.fn \in Fn /\ Take(r, {r.in}) /\ {r.in} \in SUBSET ASTNode
      /\ UNCHANGED <<supsets, subsets, conditionalConstraints, search>>
      /\ bitvector' = [bitvector EXCEPT ![dagmapping'[r.in]] = @ \union {r.fn}]
      /\ stack' = <<Frame(dagmapping'[r.in])>>
  BY RequestTypes DEF addElementofConstraint
<1>2. search.mode = "none" /\ Mapped(r.in)' /\ MappingGrows /\ overtaken' = overtaken
  BY <1>1, Taking
<1>3. PICK n \in ASTNode : n = dagmapping'[r.in]
  BY <1>1, <1>2 DEF MappingGrows, Mapped
<1>4. /\ \A k \in ASTNode : \A m \in supsets[k] : bitvector[k] \subseteq bitvector[m] \/ overtaken
      /\ \A k \in ASTNode : \A f \in bitvector[k] : conditionalConstraints[k][f] = << >>
  BY <1>1, NothingWaits DEF Take
<1>5. /\ Elems(stack') = {Frame(n)} /\ Frame(n).node = n
      /\ Frame(n).fns = Fn /\ Frame(n).at = {}
  BY <1>1, <1>3, SingleFrame, FrameType
<1>6. /\ bitvector' \in [ASTNode -> SUBSET Fn]
      /\ \A k \in ASTNode : bitvector[k] \subseteq bitvector'[k]
      /\ \A k \in ASTNode : k # n => bitvector'[k] = bitvector[k]
  BY <1>1, <1>3 DEF Inv, GraphOK, GraphType
<1>7. \A m \in ASTNode : Visits(n, m)'
  BY <1>5 DEF Visits
<1>8. \A f \in Fn : Asks(n, f)'
  BY <1>5 DEF Asks
<1>9. EdgesCovered'
  <2> SUFFICES ASSUME NEW k \in ASTNode, NEW m \in supsets'[k]
               PROVE  (bitvector[k] \subseteq bitvector[m] \/ Visits(k, m) \/ overtaken)'
    BY DEF EdgesCovered
  <2>1. m \in supsets[k] /\ m \in ASTNode
    BY <1>1 DEF Inv, GraphOK, GraphType
  <2> QED BY <1>2, <1>4, <1>6, <1>7, <2>1
<1>10. ListsCovered'
  <2> SUFFICES ASSUME NEW k \in ASTNode, NEW f \in bitvector'[k]
               PROVE  (conditionalConstraints[k][f] = << >> \/ Asks(k, f))'
    BY DEF ListsCovered
  <2>1. f \in Fn
    BY <1>6
  <2> QED BY <1>1, <1>4, <1>6, <1>8, <2>1
<1>11. IteratorsValid'
  BY <1>5 DEF IteratorsValid
<1> QED BY <1>9, <1>10, <1>11 DEF CoveredInv, Covered

LEMMA addConditionalConstraintCovered ==
    ASSUME Inv, CoveredInv, NEW r \in Requests, addConditionalConstraint(r)
    PROVE  CoveredInv'
<1>1. /\ r.in \in ASTNode /\ r.fn \in Fn
      /\ Take(r, {r.in, r.from, r.to}) /\ {r.in, r.from, r.to} \in SUBSET ASTNode
      /\ UNCHANGED <<supsets, subsets, bitvector, search>>
      /\ conditionalConstraints' =
            [conditionalConstraints EXCEPT ![dagmapping'[r.in]][r.fn] = Append(@, <<r.from, r.to>>)]
      /\ stack' = <<Frame(dagmapping'[r.in])>>
  BY RequestTypes DEF addConditionalConstraint
<1>2. search.mode = "none" /\ Mapped(r.in)' /\ MappingGrows /\ overtaken' = overtaken
  BY <1>1, Taking
<1>3. PICK n \in ASTNode : n = dagmapping'[r.in]
  BY <1>1, <1>2 DEF MappingGrows, Mapped
<1>4. /\ \A k \in ASTNode : \A m \in supsets[k] : bitvector[k] \subseteq bitvector[m] \/ overtaken
      /\ \A k \in ASTNode : \A f \in bitvector[k] : conditionalConstraints[k][f] = << >>
  BY <1>1, NothingWaits DEF Take
<1>5. /\ Elems(stack') = {Frame(n)} /\ Frame(n).node = n
      /\ Frame(n).fns = Fn /\ Frame(n).at = {}
  BY <1>1, <1>3, SingleFrame, FrameType
<1>6. \A k \in ASTNode : k # n => conditionalConstraints'[k] = conditionalConstraints[k]
  BY <1>1, <1>3 DEF Inv, GraphOK, GraphType
<1>7. \A f \in Fn : Asks(n, f)'
  BY <1>5 DEF Asks
<1>8. EdgesCovered'
  BY <1>1, <1>2, <1>4 DEF EdgesCovered
<1>9. ListsCovered'
  <2> SUFFICES ASSUME NEW k \in ASTNode, NEW f \in bitvector'[k]
               PROVE  (conditionalConstraints[k][f] = << >> \/ Asks(k, f))'
    BY DEF ListsCovered
  <2>1. f \in Fn /\ f \in bitvector[k]
    BY <1>1 DEF Inv, GraphOK, GraphType
  <2> QED BY <1>4, <1>6, <1>7, <2>1
<1>10. IteratorsValid'
  BY <1>5 DEF IteratorsValid
<1> QED BY <1>8, <1>9, <1>10 DEF CoveredInv, Covered

(* An edge is added where nothing but the frames' loops is left to do. *)
LEMMA AddedEdgeCovered ==
    ASSUME Inv, search.mode = "none", MappingGrows, UNCHANGED overtaken,
           NEW frames \in Seq(Frames), NEW from \in ASTNode, NEW to \in ASTNode,
           Mapped(from)', Mapped(to)',
           AddEdge(dagmapping', frames, from, to),
           UNCHANGED <<bitvector, conditionalConstraints>>,
           \A n \in ASTNode : \A m \in supsets[n] :
               \/ bitvector[n] \subseteq bitvector[m]
               \/ \E fr \in Elems(frames) : fr.node = n /\ \A a \in fr.at : a < m
               \/ overtaken,
           \A n \in ASTNode : \A f \in bitvector[n] :
               \/ conditionalConstraints[n][f] = << >>
               \/ \E fr \in Elems(frames) : fr.node = n /\ f \in fr.fns,
           \A fr \in Elems(frames) : fr.node \in ASTNode /\ fr.at \subseteq supsets[fr.node]
    PROVE  Covered'
<1>1. GraphOK /\ SearchType /\ SearchOK
  BY DEF Inv
<1>2. PICK m \in ASTNode, k \in ASTNode :
          /\ m = dagmapping'[from] /\ k = dagmapping'[to]
          /\ m = k => NoEdge(frames)
          /\ m # k => NewEdge(frames, m, k)
  BY <1>1, EdgeAdded
<1>3. CASE m = k
  <2>1. stack' = frames /\ UNCHANGED <<supsets, search>>
    BY <1>2, <1>3 DEF NoEdge
  <2> QED BY <2>1 DEF Covered, EdgesCovered, ListsCovered, IteratorsValid, Visits, Asks
<1>4. CASE m # k
  <2>1. /\ Elems(stack') = {Frame(m)} \union Elems(frames)
        /\ \A n \in ASTNode : supsets'[n] = IF n = m THEN supsets[n] \union {k} ELSE supsets[n]
    BY <1>2, <1>4 DEF NewEdge
  <2>2. Frame(m).node = m /\ Frame(m).at = {} /\ Frame(m).fns = Fn
    BY FrameType
  <2>3. \A b : Visits(m, b)'
    BY <2>1, <2>2 DEF Visits
  <2>4. EdgesCovered'
    <3> SUFFICES ASSUME NEW a \in ASTNode, NEW b \in supsets'[a], a # m
                 PROVE  (bitvector[a] \subseteq bitvector[b] \/ Visits(a, b) \/ overtaken)'
      BY <2>3 DEF EdgesCovered
    <3>1. b \in supsets[a]
      BY <2>1
    <3>2. (\E fr \in Elems(frames) : fr.node = a /\ \A x \in fr.at : x < b) => Visits(a, b)'
      BY <2>1 DEF Visits
    <3> QED BY <3>1, <3>2
  <2>5. ListsCovered'
    <3> SUFFICES ASSUME NEW a \in ASTNode, NEW f \in bitvector[a]
                 PROVE  conditionalConstraints[a][f] = << >> \/ Asks(a, f)'
      BY DEF ListsCovered
    <3>1. (\E fr \in Elems(frames) : fr.node = a /\ f \in fr.fns) => Asks(a, f)'
      BY <2>1 DEF Asks
    <3> QED BY <3>1
  <2>6. IteratorsValid'
    <3>1. \A n \in ASTNode : supsets[n] \subseteq supsets'[n]
      BY <2>1
    <3> QED BY <2>1, <2>2, <3>1 DEF IteratorsValid
  <2> QED BY <2>4, <2>5, <2>6 DEF Covered
<1> QED BY <1>3, <1>4

LEMMA addSubseteqConstraintCovered ==
    ASSUME Inv, CoveredInv, NEW r \in Requests, addSubseteqConstraint(r)
    PROVE  CoveredInv'
<1>1. /\ r.from \in ASTNode /\ r.to \in ASTNode
      /\ Take(r, {r.from, r.to}) /\ {r.from, r.to} \in SUBSET ASTNode
      /\ AddEdge(dagmapping', << >>, r.from, r.to)
      /\ UNCHANGED <<bitvector, conditionalConstraints>>
  BY RequestTypes DEF addSubseteqConstraint
<1>2. search.mode = "none" /\ MappingGrows /\ Mapped(r.from)' /\ Mapped(r.to)' /\ UNCHANGED overtaken
  BY <1>1, Taking
<1>3. << >> \in Seq(Frames) /\ Elems(<< >>) = {}
  BY NoElems
<1>4. /\ \A n \in ASTNode : \A m \in supsets[n] : bitvector[n] \subseteq bitvector[m] \/ overtaken
      /\ \A n \in ASTNode : \A f \in bitvector[n] : conditionalConstraints[n][f] = << >>
  BY <1>1, NothingWaits DEF Take
<1>5. Covered'
  BY <1>1, <1>2, <1>3, <1>4, AddedEdgeCovered
<1> QED BY <1>5 DEF CoveredInv

LEMMA activateConditionalConstraintCovered ==
    ASSUME Inv, CoveredInv, activateConditionalConstraint
    PROVE  CoveredInv'
<1>1. PICK from \in ASTNode, to \in ASTNode, f \in Frames, frames \in Seq(Frames) :
              /\ stack # << >> /\ search.mode = "none"
              /\ UNCHANGED <<dagmapping, bitvector, conditionalConstraints, status, history, overtaken>>
              /\ Mapped(from) /\ Mapped(to)
              /\ f.node = frame.node /\ f.fns = frame.fns /\ f.at = frame.at
              /\ Elems(frames) = {f} \union Elems(Tail(stack))
              /\ AddEdge(dagmapping', frames, from, to)
  BY Activation
<1>2. MappingGrows /\ Mapped(from)' /\ Mapped(to)'
  BY <1>1, MappingStays DEF Inv, Mapped
<1>3. Elems(frames) \subseteq Elems(stack')
  <2>1. GraphOK /\ SearchType /\ SearchOK
    BY DEF Inv
  <2>2. PICK m \in ASTNode, k \in ASTNode :
            (m = k => NoEdge(frames)) /\ (m # k => NewEdge(frames, m, k))
    BY <1>1, <1>2, <2>1, EdgeAdded
  <2> QED BY <2>2 DEF NoEdge, NewEdge
<1>4. Doomed => Doomed'
  <2>1. \A x : Live(x)' <=> Live(x)
    BY <1>1 DEF Live
  <2> QED BY <1>1, <1>3, <2>1, TopFrame DEF Doomed
<1>5. ASSUME status = "defined", ~Doomed
      PROVE  Covered'
  <2>1. EdgesCovered /\ ListsCovered /\ IteratorsValid
    BY <1>5 DEF CoveredInv, Covered
  <2>2. \A n \in ASTNode : \A m \in supsets[n] :
               \/ bitvector[n] \subseteq bitvector[m]
               \/ \E fr \in Elems(frames) : fr.node = n /\ \A a \in fr.at : a < m
               \/ overtaken
    <3> SUFFICES ASSUME NEW n \in ASTNode, NEW m \in supsets[n], Visits(n, m)
                 PROVE  \E fr \in Elems(frames) : fr.node = n /\ \A a \in fr.at : a < m
      BY <1>1, <2>1 DEF EdgesCovered, Source
    <3>1. PICK fr \in Elems(stack) : fr.node = n /\ \A a \in fr.at : a < m
      BY DEF Visits
    <3> QED BY <1>1, <3>1, TopFrame
  <2>3. \A n \in ASTNode : \A e \in bitvector[n] :
               \/ conditionalConstraints[n][e] = << >>
               \/ \E fr \in Elems(frames) : fr.node = n /\ e \in fr.fns
    BY <1>1, <2>1, TopFrame DEF ListsCovered, Asks, Source
  <2>4. \A fr \in Elems(frames) : fr.node \in ASTNode /\ fr.at \subseteq supsets[fr.node]
    BY <1>1, <2>1, TopFrame, FramesTyped DEF IteratorsValid
  <2> QED BY <1>1, <1>2, <2>2, <2>3, <2>4, AddedEdgeCovered
<1> QED BY <1>1, <1>4, <1>5 DEF CoveredInv
LEMMA NextFunctionCovered ==
    ASSUME Inv, CoveredInv, NextFunction
    PROVE  CoveredInv'
<1>1. PICK n \in ASTNode, f \in Fn, rest \in Frames :
              /\ n = frame.node /\ f \in frame.fns /\ Live(n)
              /\ stack # << >> /\ search.mode = "none" /\ frame.todo = << >>
              /\ rest.node = n /\ rest.fns = frame.fns \ {f} /\ rest.at = frame.at
              /\ rest.todo = IF f \in bitvector[n] THEN conditionalConstraints[n][f] ELSE << >>
              /\ StackType' /\ Elems(stack') = {rest} \union Elems(Tail(stack))
              /\ conditionalConstraints' \in [ASTNode -> [Fn -> Seq(ASTNode \X ASTNode)]]
              /\ \A k \in ASTNode : k # n => conditionalConstraints'[k] = conditionalConstraints[k]
              /\ \A k \in ASTNode, e \in Fn :
                    conditionalConstraints'[k][e] =
                        IF k = n /\ e = f /\ f \in bitvector[n] THEN << >>
                        ELSE conditionalConstraints[k][e]
              /\ UNCHANGED <<dagmapping, supsets, subsets, bitvector, search, status, history, overtaken>>
  BY FunctionTaken
<1>2. Elems(stack) = {frame} \union Elems(Tail(stack))
  BY <1>1, TopFrame
<1>3. Doomed => Doomed'
  <2>1. \A x : Live(x)' <=> Live(x)
    BY <1>1 DEF Live
  <2> QED BY <1>1, <1>2, <2>1 DEF Doomed
<1>4. ASSUME EdgesCovered, ListsCovered, IteratorsValid
      PROVE  Covered'
  <2>1. ASSUME NEW k \in ASTNode, NEW m \in supsets[k], Visits(k, m)
        PROVE  Visits(k, m)'
    <3>1. PICK fr \in Elems(stack) : fr.node = k /\ \A a \in fr.at : a < m
      BY <2>1 DEF Visits
    <3>2. CASE fr = frame
      BY <1>1, <3>1, <3>2 DEF Visits
    <3>3. CASE fr # frame
      BY <1>1, <1>2, <3>1, <3>3 DEF Visits
    <3> QED BY <3>2, <3>3
  <2>2. EdgesCovered'
    BY <1>1, <1>4, <2>1 DEF EdgesCovered, Source
  <2>3. ListsCovered'
    <3> SUFFICES ASSUME NEW k \in ASTNode, NEW e \in bitvector[k]
                 PROVE  (conditionalConstraints[k][e] = << >> \/ Asks(k, e))'
      BY <1>1 DEF ListsCovered
    <3>1. e \in Fn
      BY DEF Inv, GraphOK, GraphType
    <3>2. CASE k = n /\ e = f
      BY <1>1, <3>1, <3>2
    <3>3. CASE ~(k = n /\ e = f)
      <4>1. conditionalConstraints'[k][e] = conditionalConstraints[k][e]
        BY <1>1, <3>1, <3>3
      <4>2. Asks(k, e) => Asks(k, e)'
        <5> SUFFICES ASSUME Asks(k, e) PROVE Asks(k, e)'
          OBVIOUS
        <5>1. PICK fr \in Elems(stack) : fr.node = k /\ e \in fr.fns
          BY DEF Asks
        <5>2. CASE fr = frame
          BY <1>1, <3>3, <5>1, <5>2 DEF Asks
        <5>3. CASE fr # frame
          BY <1>1, <1>2, <5>1, <5>3 DEF Asks
        <5> QED BY <5>2, <5>3
      <4> QED BY <1>1, <1>4, <4>1, <4>2 DEF ListsCovered, Source
    <3> QED BY <3>2, <3>3
  <2>4. IteratorsValid'
    BY <1>1, <1>2, <1>4 DEF IteratorsValid
  <2> QED BY <2>2, <2>3, <2>4 DEF Covered
<1> QED BY <1>1, <1>3, <1>4 DEF CoveredInv, Covered

LEMMA NextSupersetCovered ==
    ASSUME Inv, CoveredInv, NextSuperset
    PROVE  CoveredInv'
<1>1. PICK n \in ASTNode, s \in ASTNode, f \in Frames :
              /\ n = frame.node /\ Live(n) /\ s \in supsets[n] /\ Live(s) /\ s # n
              /\ s \in First(Remaining) /\ frame.fns = {} /\ frame.todo = << >>
              /\ f = [node |-> n, fns |-> {}, todo |-> << >>, at |-> {s}]
              /\ stack # << >> /\ search.mode = "none"
              /\ bitvector' \in [ASTNode -> SUBSET Fn]
              /\ \A k \in ASTNode :
                    bitvector'[k] = IF k = s THEN bitvector[s] \union bitvector[n] ELSE bitvector[k]
              /\ StackType' /\ Elems(stack') = {Frame(s), f} \union Elems(Tail(stack))
              /\ UNCHANGED <<dagmapping, supsets, subsets, conditionalConstraints, search>>
              /\ UNCHANGED <<status, history, overtaken>>
  BY SupersetTaken
<1>2. Elems(stack) = {frame} \union Elems(Tail(stack))
  BY <1>1, TopFrame
<1>3. /\ f.node = n /\ f.at = {s}
      /\ Frame(s).node = s /\ Frame(s).fns = Fn /\ Frame(s).at = {}
  BY <1>1, FrameType
<1>4. frame.at \subseteq supsets[n]
  BY <1>1 DEF NextSuperset, Looping
<1>5. Doomed => Doomed'
  <2>1. \A x : Live(x)' <=> Live(x)
    BY <1>1 DEF Live
  <2>2. \A a \in frame.at : Live(a)
    BY <1>4 DEF Inv, GraphOK, NodesAreLive
  <2> QED BY <1>1, <1>2, <2>1, <2>2 DEF Doomed
<1>6. ASSUME EdgesCovered, ListsCovered, IteratorsValid
      PROVE  Covered'
  <2>1. (\A m \in ASTNode : Visits(s, m)') /\ (\A e \in Fn : Asks(s, e)')
    BY <1>1, <1>3 DEF Visits, Asks
  <2>2. \A k \in ASTNode : bitvector[k] \subseteq bitvector'[k]
    BY <1>1
  <2>3. EdgesCovered'
    <3> SUFFICES ASSUME NEW k \in ASTNode, NEW m \in supsets[k]
                 PROVE  (bitvector[k] \subseteq bitvector[m] \/ Visits(k, m) \/ overtaken)'
      BY <1>1 DEF EdgesCovered
    <3>1. m \in ASTNode
      BY DEF Inv, GraphOK, GraphType
    <3>2. CASE k = s
      BY <2>1, <3>1, <3>2
    <3>3. CASE k = n /\ m = s
      BY <1>1, <3>3
    <3>4. CASE k # s /\ ~(k = n /\ m = s)
      <4>1. bitvector'[k] = bitvector[k]
        BY <1>1, <3>4
      <4>2. CASE bitvector[k] \subseteq bitvector[m]
        BY <2>2, <3>1, <4>1, <4>2
      <4>3. CASE Visits(k, m)
        <5>1. PICK fr \in Elems(stack) : fr.node = k /\ \A a \in fr.at : a < m
          BY <4>3 DEF Visits
        <5>2. CASE fr = frame
          <6>1. k = n /\ m # s /\ m \in Remaining
            BY <1>1, <3>4, <5>1, <5>2 DEF Remaining, After
          <6>2. s <= m /\ s \in Nat /\ m \in Nat
            BY <1>1, <3>1, <6>1, ASTNodeAssumption DEF First
          <6>3. s < m
            BY <6>1, <6>2
          <6> QED BY <1>1, <1>3, <6>1, <6>3 DEF Visits
        <5>3. CASE fr # frame
          BY <1>1, <1>2, <5>1, <5>3 DEF Visits
        <5> QED BY <5>2, <5>3
      <4>4. CASE overtaken
        BY <1>1, <4>4
      <4> QED BY <1>1, <1>6, <4>2, <4>3, <4>4 DEF EdgesCovered, Source
    <3> QED BY <3>2, <3>3, <3>4
  <2>4. ListsCovered'
    <3> SUFFICES ASSUME NEW k \in ASTNode, NEW e \in bitvector'[k]
                 PROVE  (conditionalConstraints[k][e] = << >> \/ Asks(k, e))'
      BY DEF ListsCovered
    <3>1. e \in Fn
      BY <1>1
    <3>2. CASE k = s
      BY <2>1, <3>1, <3>2
    <3>3. CASE k # s
      <4>1. e \in bitvector[k]
        BY <1>1, <3>3
      <4>2. Asks(k, e) => Asks(k, e)'
        BY <1>1, <1>2 DEF Asks
      <4> QED BY <1>1, <1>6, <4>1, <4>2 DEF ListsCovered, Source
    <3> QED BY <3>2, <3>3
  <2>5. IteratorsValid'
    BY <1>1, <1>2, <1>3, <1>6 DEF IteratorsValid
  <2> QED BY <2>3, <2>4, <2>5 DEF Covered
<1> QED BY <1>1, <1>5, <1>6 DEF CoveredInv, Covered

LEMMA ReturnCovered ==
    ASSUME Inv, CoveredInv, Return
    PROVE  CoveredInv'
<1>1. /\ stack # << >> /\ search.mode = "none" /\ stack' = Tail(stack)
      /\ Live(frame.node) /\ frame.fns = {} /\ frame.at \subseteq supsets[frame.node]
      /\ Remaining = {}
      /\ UNCHANGED <<dagmapping, graph, search, status, overtaken>>
  BY DEF Return, Looping, Running, Searching, Busy
<1>2. Elems(stack) = {frame} \union Elems(stack')
  BY <1>1, TopFrame
<1>3. Doomed => Doomed'
  <2>1. \A x : Live(x)' <=> Live(x)
    BY <1>1 DEF Live
  <2>2. \A a \in frame.at : Live(a)
    BY <1>1, TopFrame DEF Inv, GraphOK, NodesAreLive
  <2> QED BY <1>1, <1>2, <2>1, <2>2 DEF Doomed
<1>4. ASSUME EdgesCovered, ListsCovered, IteratorsValid
      PROVE  Covered'
  <2>1. ASSUME NEW k \in ASTNode, NEW m \in supsets[k], Visits(k, m)
        PROVE  Visits(k, m)'
    <3>1. PICK fr \in Elems(stack) : fr.node = k /\ \A a \in fr.at : a < m
      BY <2>1 DEF Visits
    <3>2. CASE fr = frame
      BY <1>1, <3>1, <3>2 DEF Remaining, After
    <3>3. CASE fr # frame
      BY <1>2, <3>1, <3>3 DEF Visits
    <3> QED BY <3>2, <3>3
  <2>2. \A k, e : Asks(k, e) => Asks(k, e)'
    BY <1>1, <1>2 DEF Asks
  <2> QED BY <1>1, <1>2, <1>4, <2>1, <2>2
          DEF Covered, EdgesCovered, ListsCovered, IteratorsValid, Source, graph
<1> QED BY <1>1, <1>3, <1>4 DEF CoveredInv, Covered

LEMMA SearchCovered ==
    ASSUME Inv, CoveredInv, UNCHANGED <<dagmapping, graph, stack, overtaken>>,
           status' # "defined" \/ (UNCHANGED status /\ \A n : Source(n) => Source(n)')
    PROVE  CoveredInv'
<1>1. Doomed' <=> Doomed
  BY DEF Doomed, Live
<1>2. ASSUME Covered, \A n : Source(n) => Source(n)'
      PROVE  Covered'
  BY <1>2 DEF Covered, EdgesCovered, ListsCovered, IteratorsValid, Visits, Asks, graph
<1> QED BY <1>1, <1>2 DEF CoveredInv
LEMMA MergeNextCovered ==
    ASSUME Inv, CoveredInv, MergeNext
    PROVE  CoveredInv'
<1>1. PICK n1 \in ASTNode, n2 \in ASTNode :
              /\ n1 # n2 /\ Live(n1) /\ Live(n2) /\ mergeNodes(n1, n2)
              /\ search.path \in Seq(ASTNode) /\ n1 = search.path[1] /\ n2 = search.path[2]
              /\ Len(search.path) >= 2
              /\ search.at = {n1} /\ n1 \in supsets[frame.node]
              /\ overtaken' = (overtaken \/ Overtakes(n1, n2))
              /\ UNCHANGED <<status, history>>
              /\ search.mode = "walk" /\ stack # << >> /\ frame = Frame(frame.node)
              /\ frame.node \in ASTNode /\ Live(frame.node)
              /\ \/ /\ n2 = frame.node /\ stack' = Replace(Frame(n1)) /\ search' = NewSearch
                    /\ Len(search.path) = 2
                 \/ /\ n2 # frame.node /\ UNCHANGED stack /\ Len(search.path) > 2
                    /\ search' = [search EXCEPT !.path = <<n1>> \o Tail(Tail(search.path))]
  BY Merging
<1>2. n1 # n2 /\ Live(n1) /\ Live(n2) /\ mergeNodes(n1, n2) /\ GraphOK
  BY <1>1 DEF Inv
<1>3. /\ \A n \in ASTNode : Live(n)' <=> Live(n) /\ n # n2
      /\ GraphOK'
  BY <1>2, MergeGraph
<1>4. \A m, k \in ASTNode :
          k \in supsets'[m] <=>
              /\ m # n2 /\ k # n2 /\ m # k
              /\ \/ k \in supsets[m]
                 \/ m = n1 /\ k \in supsets[n2]
                 \/ k = n1 /\ n2 \in supsets[m]
  BY <1>2, MergeGraph
<1>5. \A n \in ASTNode :
          bitvector'[n] = IF n = n2 THEN {}
                          ELSE IF n = n1 THEN bitvector[n1] \union bitvector[n2]
                          ELSE bitvector[n]
  BY <1>2, MergedBits
<1>6. \A n \in ASTNode, f \in Fn :
          conditionalConstraints'[n][f] =
              IF n = n2 THEN << >>
              ELSE IF n = n1 THEN conditionalConstraints[n1][f] \o conditionalConstraints[n2][f]
              ELSE conditionalConstraints[n][f]
  BY <1>2, MergedLists
<1>7. Elems(stack) = {frame} \union Elems(Tail(stack)) /\ frame.at = {}
  BY <1>1, TopFrame, FrameType
<1>8. \/ /\ n2 = frame.node /\ Elems(stack') = {Frame(n1)} \union Elems(Tail(stack))
         /\ search'.mode # "walk"
      \/ /\ n2 # frame.node /\ stack' = stack /\ Source(n1)'
  <2>1. CASE n2 = frame.node
    <3>1. stack' = Replace(Frame(n1)) /\ search'.mode # "walk"
      BY <1>1, <2>1 DEF NewSearch, Search
    <3>2. Frame(n1) \in Frames
      BY FrameType
    <3> QED BY <1>1, <2>1, <3>1, <3>2, Replaced
  <2>2. CASE n2 # frame.node
    <3>1. stack' = stack /\ search' = [search EXCEPT !.path = <<n1>> \o Tail(Tail(search.path))]
      BY <1>1, <2>2
    <3>2. search = [mode |-> search.mode, at |-> search.at, dist |-> search.dist,
                    queue |-> search.queue, path |-> search.path]
      BY DEF Inv, SearchType, Search
    <3>3. /\ search'.mode = "walk" /\ search'.at = {n1}
          /\ search'.path = <<n1>> \o Tail(Tail(search.path))
      BY <1>1, <3>1, <3>2
    <3>4. search'.path # << >> /\ Head(search'.path) = n1
      <4>1. PICK p \in Seq(ASTNode) : p = search.path /\ Len(p) >= 2 /\ p[1] = n1
        BY <1>1
      <4>2. PICK t \in Seq(ASTNode) :
                t = <<p[1]>> \o Tail(Tail(p)) /\ Len(t) = Len(p) - 1 /\ t[1] = p[1]
        BY <4>1, DropSecond
      <4>3. t = search'.path /\ t[1] = n1
        BY <3>3, <4>1, <4>2
      <4>4. Len(t) \in Nat /\ Len(t) >= 1
        BY <4>1, <4>2
      <4> QED BY <4>3, <4>4
    <3> QED BY <2>2, <3>1, <3>3, <3>4 DEF Source
  <2> QED BY <2>1, <2>2
<1>9. Doomed => Doomed'
  <2>1. \A fr \in Elems(stack) : fr.node \in ASTNode /\ fr.at \subseteq ASTNode
    BY FramesTyped
  <2>2. CASE n2 = frame.node
    <3>1. \A fr \in Elems(Tail(stack)) : fr \in Elems(stack')
      BY <1>8, <2>2
    <3> QED BY <1>1, <1>3, <1>7, <2>1, <3>1 DEF Doomed
  <2>3. CASE n2 # frame.node
    BY <1>3, <1>8, <2>1, <2>3 DEF Doomed
  <2> QED BY <2>2, <2>3
<1>10. ASSUME EdgesCovered, ListsCovered, IteratorsValid, ~Doomed'
       PROVE  Covered'
  <2>1. /\ \A m \in ASTNode : Visits(n1, m)' \/ Source(n1)'
        /\ \A f \in Fn : Asks(n1, f)' \/ Source(n1)'
    <3>1. CASE n2 = frame.node
      <4>1. Frame(n1) \in Elems(stack')
        BY <1>8, <3>1
      <4> QED BY <4>1, FrameType DEF Visits, Asks
    <3>2. CASE n2 # frame.node
      BY <1>8, <3>2
    <3> QED BY <3>1, <3>2
  <2>2. ASSUME NEW fr \in Elems(stack), fr.node # n2
        PROVE  fr \in Elems(stack')
    BY <1>7, <1>8, <2>2
  <2>3. \A n : n # n1 => ~Source(n)
    BY <1>1 DEF Source
  <2>4. \A n \in ASTNode : n # n2 => bitvector[n] \subseteq bitvector'[n]
    BY <1>1, <1>5
  <2>5. EdgesCovered'
    <3> SUFFICES ASSUME NEW m \in ASTNode, NEW k \in supsets'[m], m # n1
                 PROVE  (bitvector[m] \subseteq bitvector[k] \/ Visits(m, k) \/ overtaken)'
      <4>1. \A k \in supsets'[n1] : k \in ASTNode
        BY <1>3 DEF GraphOK, GraphType
      <4> QED BY <2>1, <4>1 DEF EdgesCovered
    <3>1. k \in ASTNode
      BY <1>3 DEF GraphOK, GraphType
    <3>2. m # n2 /\ k # n2 /\ m # k /\ (k \in supsets[m] \/ (k = n1 /\ n2 \in supsets[m]))
      BY <1>4, <3>1
    <3>3. bitvector'[m] = bitvector[m]
      BY <1>5, <3>2
    <3>4. CASE k \in supsets[m]
      <4>1. bitvector[k] \subseteq bitvector'[k]
        BY <2>4, <3>1, <3>2
      <4>2. Visits(m, k) => Visits(m, k)'
        BY <2>2, <3>2 DEF Visits
      <4> QED BY <1>1, <1>10, <2>3, <3>3, <3>4, <4>1, <4>2 DEF EdgesCovered
    <3>5. CASE k = n1 /\ n2 \in supsets[m] /\ n1 \notin supsets[m]
      <4>1. CASE bitvector[m] \subseteq bitvector[n2]
        BY <1>1, <1>5, <3>3, <3>5, <4>1
      <4>2. CASE Visits(m, n2)
        <5>1. PICK fr \in Elems(stack) : fr.node = m /\ \A a \in fr.at : a < n2
          BY <4>2 DEF Visits
        <5>2. CASE \A a \in fr.at : a < n1
          BY <2>2, <3>2, <3>5, <5>1, <5>2 DEF Visits
        <5>3. CASE ~(\A a \in fr.at : a < n1)
          <6>1. PICK a \in fr.at : ~(a < n1)
            BY <5>3
          <6>2. a \in ASTNode /\ a \in supsets[m] /\ a # n1
            BY <1>10, <3>5, <5>1, <6>1, FramesTyped DEF IteratorsValid
          <6>3. a \in Nat /\ n1 \in Nat
            BY <6>2, ASTNodeAssumption
          <6>4. n1 < a
            BY <6>1, <6>2, <6>3
          <6>5. PICK i \in DOMAIN stack : fr = stack[i]
            BY DEF Elems
          <6>6. Overtakes(n1, n2)
            BY <3>2, <3>5, <5>1, <6>4, <6>5 DEF Overtakes
          <6> QED BY <1>1, <6>6
        <5> QED BY <5>2, <5>3
      <4> QED BY <1>1, <1>10, <2>3, <3>5, <4>1, <4>2 DEF EdgesCovered
    <3> QED BY <3>2, <3>4, <3>5
  <2>6. ListsCovered'
    <3> SUFFICES ASSUME NEW m \in ASTNode, NEW f \in bitvector'[m], m # n1
                 PROVE  (conditionalConstraints[m][f] = << >> \/ Asks(m, f))'
      <4>1. \A f \in bitvector'[n1] : f \in Fn
        BY <1>3 DEF GraphOK, GraphType
      <4> QED BY <2>1, <4>1 DEF ListsCovered
    <3>1. f \in Fn
      BY <1>3 DEF GraphOK, GraphType
    <3>2. m # n2 /\ f \in bitvector[m]
      BY <1>5
    <3>3. conditionalConstraints'[m][f] = conditionalConstraints[m][f]
      BY <1>6, <3>1, <3>2
    <3>4. Asks(m, f) => Asks(m, f)'
      BY <2>2, <3>2 DEF Asks
    <3> QED BY <1>10, <2>3, <3>2, <3>3, <3>4 DEF ListsCovered
  <2>7. IteratorsValid'
    <3> SUFFICES ASSUME NEW fr \in Elems(stack'), NEW a \in fr.at PROVE a \in supsets'[fr.node]
      BY DEF IteratorsValid
    <3>1. fr \in Elems(stack)
      BY <1>7, <1>8, FrameType
    <3>2. fr.node \in ASTNode /\ a \in ASTNode /\ a \in supsets[fr.node] /\ a # fr.node
      BY <1>2, <1>10, <3>1, FramesTyped DEF IteratorsValid, GraphOK, NodesAreLive
    <3>3. Live(fr.node)' /\ Live(a)'
      BY <1>10 DEF Doomed, Live
    <3>4. fr.node # n2 /\ a # n2
      BY <1>3, <3>2, <3>3
    <3> QED BY <1>4, <3>2, <3>4
  <2> QED BY <2>5, <2>6, <2>7 DEF Covered
<1> QED BY <1>1, <1>9, <1>10 DEF CoveredInv, Covered
LEMMA InitCovered == Init => CoveredInv
<1> SUFFICES ASSUME Init PROVE Covered
  BY DEF CoveredInv
<1>1. Elems(stack) = {}
  BY NoElems DEF Init
<1> QED BY <1>1 DEF Init, Covered, EdgesCovered, ListsCovered, IteratorsValid

LEMMA NextCovered == Inv /\ CoveredInv /\ [Next]_vars => CoveredInv'
<1> SUFFICES ASSUME Inv, CoveredInv, [Next]_vars PROVE CoveredInv'
  OBVIOUS
<1>1. ASSUME NEW r \in Requests,
             addElementofConstraint(r) \/ addConditionalConstraint(r) \/ addSubseteqConstraint(r)
      PROVE  CoveredInv'
  BY <1>1, addElementofConstraintCovered, addConditionalConstraintCovered, addSubseteqConstraintCovered
<1>2. CASE NextCandidate \/ Measure \/ NoPath \/ NoCycleLeft \/ StepBack
  <2>1. UNCHANGED <<dagmapping, graph, stack, status, overtaken>>
    BY <1>2 DEF NextCandidate, Measure, NoPath, NoCycleLeft, StepBack
  <2>2. \A n : ~Source(n)
    BY <1>2 DEF NextCandidate, Measure, NoPath, NoCycleLeft, StepBack, Walking, Searching, Source
  <2> QED BY <2>1, <2>2, SearchCovered
<1>3. CASE SearchForEver \/ UseDeleted
  <2>1. UNCHANGED <<dagmapping, graph, stack, overtaken>> /\ status' # "defined"
    BY <1>3 DEF SearchForEver, UseDeleted
  <2> QED BY <2>1, SearchCovered
<1>4. CASE UNCHANGED vars
  BY <1>4, SearchCovered DEF vars, Source
<1>5. CASE MergeNext \/ activateConditionalConstraint \/ NextFunction \/ NextSuperset \/ Return
  BY <1>5, MergeNextCovered, activateConditionalConstraintCovered, NextFunctionCovered,
     NextSupersetCovered, ReturnCovered
<1> QED BY <1>1, <1>2, <1>3, <1>4, <1>5 DEF Next, Propagate
-----------------------------------------------------------------------------
(* What is left of a constraint once it was added.                       *)
Linked(p, q) == dagmapping[p] = dagmapping[q] \/ dagmapping[q] \in supsets[dagmapping[p]]

Waits(x) == \E fr \in Elems(stack) : x \in Elems(fr.todo)

Represented(r) ==
    /\ r.op = "element" => r.fn \in bitvector[dagmapping[r.in]]
    /\ r.op = "subset" => Linked(r.from, r.to)
    /\ r.op = "conditional" =>
          \/ Linked(r.from, r.to)
          \/ <<r.from, r.to>> \in Elems(conditionalConstraints[dagmapping[r.in]][r.fn])
          \/ Waits(<<r.from, r.to>>)

RepresentedInv == \A r \in added : Represented(r)

LEMMA AddedTypes ==
    ASSUME Inv, NEW r \in added
    PROVE  /\ r.op = "element" => r.fn \in Fn /\ r.in \in ASTNode /\ Mapped(r.in)
           /\ r.op = "subset" => r.from \in ASTNode /\ r.to \in ASTNode /\ Mapped(r.from) /\ Mapped(r.to)
           /\ r.op = "conditional" =>
                 /\ r.fn \in Fn /\ r.in \in ASTNode /\ r.from \in ASTNode /\ r.to \in ASTNode
                 /\ Mapped(r.in) /\ Mapped(r.from) /\ Mapped(r.to)
           /\ r.op \in {"element", "subset", "conditional"}
<1>1. r \in Requests
  BY DEF Inv, OtherTypes
<1> QED BY <1>1, RequestTypes DEF Inv, Points

(* Where the mapping, the bits and the edges only grow, what is represented *)
(* by them stays so; a list or a frame must hand a constraint on.           *)
LEMMA StaysRepresented ==
    ASSUME Inv, NEW r \in added, Represented(r), MappingGrows,
           \A n \in ASTNode : bitvector[n] \subseteq bitvector'[n] /\ supsets[n] \subseteq supsets'[n],
           \A from, to \in ASTNode : Waits(<<from, to>>) => Linked(from, to)' \/ Waits(<<from, to>>)',
           \A n \in ASTNode, f \in Fn, from, to \in ASTNode :
               <<from, to>> \in Elems(conditionalConstraints[n][f]) =>
                   <<from, to>> \in Elems(conditionalConstraints'[n][f]) \/ Waits(<<from, to>>)'
    PROVE  Represented(r)'
<1>1. \A p \in ASTNode : Mapped(p) => dagmapping'[p] = dagmapping[p] /\ dagmapping[p] \in ASTNode
  BY DEF MappingGrows, Inv, GraphOK, GraphType, Mapped
<1>2. ASSUME NEW p \in ASTNode, NEW q \in ASTNode, Mapped(p), Mapped(q), Linked(p, q)
      PROVE  Linked(p, q)'
  BY <1>1, <1>2 DEF Linked
<1>3. CASE r.op = "element"
  BY <1>1, <1>3, AddedTypes DEF Represented
<1>4. CASE r.op = "subset"
  BY <1>2, <1>4, AddedTypes DEF Represented
<1>5. CASE r.op = "conditional"
  <2>1. /\ r.fn \in Fn /\ r.in \in ASTNode /\ r.from \in ASTNode /\ r.to \in ASTNode
        /\ Mapped(r.in) /\ Mapped(r.from) /\ Mapped(r.to)
    BY <1>5, AddedTypes
  <2>2. CASE Linked(r.from, r.to)
    BY <1>2, <1>5, <2>1, <2>2 DEF Represented
  <2>3. CASE <<r.from, r.to>> \in Elems(conditionalConstraints[dagmapping[r.in]][r.fn])
    <3>1. PICK n \in ASTNode : n = dagmapping[r.in] /\ n = dagmapping'[r.in]
      BY <1>1, <2>1
    <3>2. \/ <<r.from, r.to>> \in Elems(conditionalConstraints'[n][r.fn])
          \/ Waits(<<r.from, r.to>>)'
      BY <2>1, <2>3, <3>1
    <3> QED BY <1>5, <3>1, <3>2 DEF Represented
  <2>4. CASE Waits(<<r.from, r.to>>)
    BY <1>5, <2>1, <2>4 DEF Represented
  <2> QED BY <1>5, <2>2, <2>3, <2>4 DEF Represented
<1> QED BY <1>3, <1>4, <1>5, AddedTypes

LEMMA NothingWaiting ==
    ASSUME stack = << >>
    PROVE  \A x : ~Waits(x)
BY NoElems DEF Waits

LEMMA addElementofConstraintRepresented ==
    ASSUME Inv, RepresentedInv, NEW r \in Requests, addElementofConstraint(r)
    PROVE  RepresentedInv'
<1>1. /\ r.in \in ASTNode /\ r.fn \in Fn /\ r.op = "element"
      /\ Take(r, {r.in}) /\ {r.in} \in SUBSET ASTNode
      /\ UNCHANGED <<supsets, subsets, conditionalConstraints, search>>
      /\ bitvector' = [bitvector EXCEPT ![dagmapping'[r.in]] = @ \union {r.fn}]
  BY RequestTypes DEF addElementofConstraint
<1>2. Mapped(r.in)' /\ MappingGrows /\ stack = << >> /\ added' = added \union {r}
  BY <1>1, Taking
<1>3. PICK n \in ASTNode : n = dagmapping'[r.in]
  BY <1>1, <1>2 DEF MappingGrows, Mapped
<1>4. \A k \in ASTNode : bitvector[k] \subseteq bitvector'[k] /\ supsets[k] \subseteq supsets'[k]
  BY <1>1, <1>3 DEF Inv, GraphOK, GraphType
<1>5. r.fn \in bitvector'[n]
  BY <1>1, <1>3 DEF Inv, GraphOK, GraphType
<1>6. Represented(r)'
  BY <1>1, <1>3, <1>5 DEF Represented
<1>7. ASSUME NEW q \in added PROVE Represented(q)'
  BY <1>1, <1>2, <1>4, NothingWaiting, StaysRepresented DEF RepresentedInv
<1> QED BY <1>2, <1>6, <1>7 DEF RepresentedInv

LEMMA addConditionalConstraintRepresented ==
    ASSUME Inv, RepresentedInv, NEW r \in Requests, addConditionalConstraint(r)
    PROVE  RepresentedInv'
<1>1. /\ r.in \in ASTNode /\ r.fn \in Fn /\ r.from \in ASTNode /\ r.to \in ASTNode
      /\ r.op = "conditional"
      /\ Take(r, {r.in, r.from, r.to}) /\ {r.in, r.from, r.to} \in SUBSET ASTNode
      /\ UNCHANGED <<supsets, subsets, bitvector, search>>
      /\ conditionalConstraints' =
            [conditionalConstraints EXCEPT ![dagmapping'[r.in]][r.fn] = Append(@, <<r.from, r.to>>)]
  BY RequestTypes DEF addConditionalConstraint
<1>2. Mapped(r.in)' /\ MappingGrows /\ stack = << >> /\ added' = added \union {r}
  BY <1>1, Taking
<1>3. PICK n \in ASTNode : n = dagmapping'[r.in]
  BY <1>1, <1>2 DEF MappingGrows, Mapped
<1>4. \A k \in ASTNode, f \in Fn : \A y :
          y \in Elems(conditionalConstraints'[k][f]) <=>
              y \in Elems(conditionalConstraints[k][f]) \/ (k = n /\ f = r.fn /\ y = <<r.from, r.to>>)
  <2>1. PICK e \in Fn, x \in ASTNode \X ASTNode : e = r.fn /\ x = <<r.from, r.to>>
    BY <1>1
  <2>2. conditionalConstraints' = Extended(n, e, x)
    BY <1>1, <1>3, <2>1 DEF Inv, GraphOK, GraphType, Extended
  <2>3. \A k \in ASTNode, f \in Fn : \A y :
            y \in Elems(conditionalConstraints'[k][f]) <=>
                y \in Elems(conditionalConstraints[k][f]) \/ (k = n /\ f = e /\ y = x)
    BY <2>2, ElemsExtended, Zenon
  <2>4. \A y : y = x <=> y = <<r.from, r.to>>
    BY <2>1
  <2>5. ASSUME NEW k \in ASTNode, NEW f \in Fn, NEW y
        PROVE  y \in Elems(conditionalConstraints'[k][f]) <=>
                   y \in Elems(conditionalConstraints[k][f]) \/ (k = n /\ f = r.fn /\ y = <<r.from, r.to>>)
    <3>1. y \in Elems(conditionalConstraints'[k][f]) <=>
              y \in Elems(conditionalConstraints[k][f]) \/ (k = n /\ f = e /\ y = x)
      BY <2>3
    <3>2. y = x <=> y = <<r.from, r.to>>
      BY <2>4, Zenon
    <3> QED BY <2>1, <3>1, <3>2
  <2> QED BY <2>5, Zenon
<1>5. Represented(r)'
  BY <1>1, <1>3, <1>4 DEF Represented
<1>6. ASSUME NEW q \in added PROVE Represented(q)'
  <2>1. Represented(q)
    BY DEF RepresentedInv
  <2>2. \A k \in ASTNode : bitvector[k] \subseteq bitvector'[k] /\ supsets[k] \subseteq supsets'[k]
    BY <1>1
  <2>3. \A k \in ASTNode, f \in Fn, from, to \in ASTNode :
            <<from, to>> \in Elems(conditionalConstraints[k][f]) =>
                <<from, to>> \in Elems(conditionalConstraints'[k][f])
    BY <1>4
  <2>4. \A x : ~Waits(x)
    BY <1>2, NothingWaiting
  <2> QED BY <1>2, <2>1, <2>2, <2>3, <2>4, StaysRepresented
<1> QED BY <1>2, <1>5, <1>6 DEF RepresentedInv

LEMMA AddedEdgeRepresented ==
    ASSUME Inv, search.mode = "none", MappingGrows, RepresentedInv,
           NEW frames \in Seq(Frames), NEW from \in ASTNode, NEW to \in ASTNode,
           Mapped(from)', Mapped(to)',
           AddEdge(dagmapping', frames, from, to),
           UNCHANGED <<bitvector, conditionalConstraints>>,
           \A x : Waits(x) => x = <<from, to>> \/ \E fr \in Elems(frames) : x \in Elems(fr.todo)
    PROVE  Linked(from, to)' /\ \A r \in added : Represented(r)'
<1>1. GraphOK /\ SearchType /\ SearchOK
  BY DEF Inv
<1>2. PICK m \in ASTNode, k \in ASTNode :
          /\ m = dagmapping'[from] /\ k = dagmapping'[to]
          /\ m = k => NoEdge(frames)
          /\ m # k => NewEdge(frames, m, k)
  BY <1>1, EdgeAdded
<1>3. /\ Elems(frames) \subseteq Elems(stack')
      /\ \A n \in ASTNode : supsets[n] \subseteq supsets'[n]
      /\ m # k => k \in supsets'[m]
  BY <1>2 DEF NoEdge, NewEdge
<1>4. Linked(from, to)'
  BY <1>2, <1>3 DEF Linked
<1>5. \A a, b \in ASTNode : Waits(<<a, b>>) => Linked(a, b)' \/ Waits(<<a, b>>)'
  <2> SUFFICES ASSUME NEW a \in ASTNode, NEW b \in ASTNode, Waits(<<a, b>>)
               PROVE  Linked(a, b)' \/ Waits(<<a, b>>)'
    OBVIOUS
  <2>1. CASE a = from /\ b = to
    BY <1>4, <2>1
  <2>2. CASE ~(a = from /\ b = to)
    <3>1. <<a, b>> # <<from, to>>
      BY <2>2
    <3>2. PICK fr \in Elems(frames) : <<a, b>> \in Elems(fr.todo)
      BY <3>1
    <3> QED BY <1>3, <3>2 DEF Waits
  <2> QED BY <2>1, <2>2
<1>6. ASSUME NEW r \in added PROVE Represented(r)'
  BY <1>3, <1>5, StaysRepresented DEF RepresentedInv
<1> QED BY <1>4, <1>6

LEMMA addSubseteqConstraintRepresented ==
    ASSUME Inv, RepresentedInv, NEW r \in Requests, addSubseteqConstraint(r)
    PROVE  RepresentedInv'
<1>1. /\ r.from \in ASTNode /\ r.to \in ASTNode /\ r.op = "subset"
      /\ Take(r, {r.from, r.to}) /\ {r.from, r.to} \in SUBSET ASTNode
      /\ AddEdge(dagmapping', << >>, r.from, r.to)
      /\ UNCHANGED <<bitvector, conditionalConstraints>>
  BY RequestTypes DEF addSubseteqConstraint
<1>2. /\ search.mode = "none" /\ MappingGrows /\ Mapped(r.from)' /\ Mapped(r.to)'
      /\ stack = << >> /\ added' = added \union {r}
  BY <1>1, Taking
<1>3. << >> \in Seq(Frames) /\ \A x : ~Waits(x)
  BY <1>2, NothingWaiting
<1>4. PICK a \in ASTNode, b \in ASTNode : a = r.from /\ b = r.to
  BY <1>1
<1>5. Linked(a, b)' /\ \A q \in added : Represented(q)'
  BY <1>1, <1>2, <1>3, <1>4, AddedEdgeRepresented
<1>6. Represented(r)'
  BY <1>1, <1>4, <1>5 DEF Represented
<1> QED BY <1>2, <1>5, <1>6 DEF RepresentedInv

LEMMA activateConditionalConstraintRepresented ==
    ASSUME Inv, RepresentedInv, activateConditionalConstraint
    PROVE  RepresentedInv'
<1>1. PICK from \in ASTNode, to \in ASTNode, f \in Frames, frames \in Seq(Frames) :
              /\ stack # << >> /\ search.mode = "none"
              /\ UNCHANGED <<dagmapping, bitvector, conditionalConstraints, status, history, overtaken>>
              /\ Mapped(from) /\ Mapped(to)
              /\ Elems(frame.todo) = {<<from, to>>} \union Elems(f.todo)
              /\ Elems(frames) = {f} \union Elems(Tail(stack))
              /\ AddEdge(dagmapping', frames, from, to)
  BY Activation
<1>2. MappingGrows /\ Mapped(from)' /\ Mapped(to)'
  BY <1>1, MappingStays DEF Inv, Mapped
<1>3. \A x : Waits(x) => x = <<from, to>> \/ \E fr \in Elems(frames) : x \in Elems(fr.todo)
  <2> SUFFICES ASSUME NEW x, NEW fr \in Elems(stack), x \in Elems(fr.todo)
               PROVE  x = <<from, to>> \/ \E e \in Elems(frames) : x \in Elems(e.todo)
    BY DEF Waits
  <2>1. fr = frame \/ fr \in Elems(Tail(stack))
    BY <1>1, TopFrame
  <2> QED BY <1>1, <2>1
<1>4. \A r \in added : Represented(r)'
  BY <1>1, <1>2, <1>3, AddedEdgeRepresented
<1> QED BY <1>1, <1>4 DEF RepresentedInv, history
(* Steps that hand constraints from a list to a frame, or from no frame. *)
LEMMA KeptRepresented ==
    ASSUME Inv, RepresentedInv, UNCHANGED <<dagmapping, supsets, added>>,
           \A n \in ASTNode : bitvector[n] \subseteq bitvector'[n],
           \A x : Waits(x) => Waits(x)',
           \A n \in ASTNode, f \in Fn, from, to \in ASTNode :
               <<from, to>> \in Elems(conditionalConstraints[n][f]) =>
                   <<from, to>> \in Elems(conditionalConstraints'[n][f]) \/ Waits(<<from, to>>)'
    PROVE  RepresentedInv'
<1>1. MappingGrows
  BY MappingStays DEF Inv
<1>2. ASSUME NEW r \in added PROVE Represented(r)'
  BY <1>1, StaysRepresented DEF RepresentedInv
<1> QED BY <1>2 DEF RepresentedInv

LEMMA NextFunctionRepresented ==
    ASSUME Inv, RepresentedInv, NextFunction
    PROVE  RepresentedInv'
<1>1. PICK n \in ASTNode, f \in Fn, rest \in Frames :
              /\ n = frame.node /\ f \in frame.fns /\ Live(n)
              /\ stack # << >> /\ search.mode = "none" /\ frame.todo = << >>
              /\ rest.node = n /\ rest.fns = frame.fns \ {f} /\ rest.at = frame.at
              /\ rest.todo = IF f \in bitvector[n] THEN conditionalConstraints[n][f] ELSE << >>
              /\ StackType' /\ Elems(stack') = {rest} \union Elems(Tail(stack))
              /\ conditionalConstraints' \in [ASTNode -> [Fn -> Seq(ASTNode \X ASTNode)]]
              /\ \A k \in ASTNode : k # n => conditionalConstraints'[k] = conditionalConstraints[k]
              /\ \A k \in ASTNode, e \in Fn :
                    conditionalConstraints'[k][e] =
                        IF k = n /\ e = f /\ f \in bitvector[n] THEN << >>
                        ELSE conditionalConstraints[k][e]
              /\ UNCHANGED <<dagmapping, supsets, subsets, bitvector, search, status, history, overtaken>>
  BY FunctionTaken
<1>2. \A x : Waits(x) => Waits(x)'
  <2>1. Elems(stack) = {frame} \union Elems(Tail(stack)) /\ Elems(frame.todo) = {}
    BY <1>1, TopFrame, NoElems
  <2> QED BY <1>1, <2>1 DEF Waits
<1>3. ASSUME NEW k \in ASTNode, NEW e \in Fn, NEW x \in Elems(conditionalConstraints[k][e])
      PROVE  x \in Elems(conditionalConstraints'[k][e]) \/ Waits(x)'
  <2>1. CASE k = n /\ e = f /\ f \in bitvector[n]
    <3>1. x \in Elems(rest.todo) /\ rest \in Elems(stack')
      BY <1>1, <1>3, <2>1
    <3> QED BY <3>1 DEF Waits
  <2>2. CASE ~(k = n /\ e = f /\ f \in bitvector[n])
    BY <1>1, <1>3, <2>2
  <2> QED BY <2>1, <2>2
<1>4. UNCHANGED <<dagmapping, supsets, added, bitvector>>
  BY <1>1 DEF history
<1> QED BY <1>2, <1>3, <1>4, KeptRepresented

LEMMA NextSupersetRepresented ==
    ASSUME Inv, RepresentedInv, NextSuperset
    PROVE  RepresentedInv'
<1>1. PICK n \in ASTNode, s \in ASTNode, f \in Frames :
              /\ n = frame.node /\ Live(n) /\ s \in supsets[n] /\ Live(s) /\ s # n
              /\ s \in First(Remaining) /\ frame.fns = {} /\ frame.todo = << >>
              /\ f = [node |-> n, fns |-> {}, todo |-> << >>, at |-> {s}]
              /\ stack # << >> /\ search.mode = "none"
              /\ bitvector' \in [ASTNode -> SUBSET Fn]
              /\ \A k \in ASTNode :
                    bitvector'[k] = IF k = s THEN bitvector[s] \union bitvector[n] ELSE bitvector[k]
              /\ StackType' /\ Elems(stack') = {Frame(s), f} \union Elems(Tail(stack))
              /\ UNCHANGED <<dagmapping, supsets, subsets, conditionalConstraints, search>>
              /\ UNCHANGED <<status, history, overtaken>>
  BY SupersetTaken
<1>2. \A x : Waits(x) => Waits(x)'
  <2>1. Elems(stack) = {frame} \union Elems(Tail(stack)) /\ Elems(frame.todo) = {}
    BY <1>1, TopFrame, NoElems
  <2> QED BY <1>1, <2>1 DEF Waits
<1>3. /\ UNCHANGED <<dagmapping, supsets, added, conditionalConstraints>>
      /\ \A k \in ASTNode : bitvector[k] \subseteq bitvector'[k]
  BY <1>1 DEF history
<1> QED BY <1>2, <1>3, KeptRepresented

LEMMA ReturnRepresented ==
    ASSUME Inv, RepresentedInv, Return
    PROVE  RepresentedInv'
<1>1. /\ stack # << >> /\ stack' = Tail(stack) /\ frame.todo = << >>
      /\ UNCHANGED <<dagmapping, supsets, added, bitvector, conditionalConstraints>>
  BY DEF Return, Looping, Running, Searching, Busy, graph, history
<1>2. \A x : Waits(x) => Waits(x)'
  <2>1. Elems(stack) = {frame} \union Elems(stack') /\ Elems(frame.todo) = {}
    BY <1>1, TopFrame, NoElems
  <2> QED BY <2>1 DEF Waits
<1> QED BY <1>1, <1>2, KeptRepresented

LEMMA SearchRepresented ==
    ASSUME Inv, RepresentedInv, UNCHANGED <<dagmapping, graph, stack, added>>
    PROVE  RepresentedInv'
<1>1. \A x : Waits(x) => Waits(x)'
  BY DEF Waits
<1> QED BY <1>1, KeptRepresented DEF graph

LEMMA MergeNextRepresented ==
    ASSUME Inv, RepresentedInv, MergeNext
    PROVE  RepresentedInv'
<1>1. PICK n1 \in ASTNode, n2 \in ASTNode :
              /\ n1 # n2 /\ Live(n1) /\ Live(n2) /\ mergeNodes(n1, n2)
              /\ UNCHANGED <<status, history>>
              /\ stack # << >> /\ frame = Frame(frame.node) /\ frame.node \in ASTNode
              /\ \/ n2 = frame.node /\ stack' = Replace(Frame(n1))
                 \/ n2 # frame.node /\ UNCHANGED stack
  BY Merging
<1>2. n1 # n2 /\ Live(n1) /\ Live(n2) /\ mergeNodes(n1, n2) /\ GraphOK
  BY <1>1 DEF Inv
<1>3. \A p \in ASTNode :
          dagmapping'[p] = IF dagmapping[p] = n2 THEN n1 ELSE dagmapping[p]
  BY <1>2, MergeGraph
<1>4. \A m, k \in ASTNode :
          k \in supsets'[m] <=>
              /\ m # n2 /\ k # n2 /\ m # k
              /\ \/ k \in supsets[m]
                 \/ m = n1 /\ k \in supsets[n2]
                 \/ k = n1 /\ n2 \in supsets[m]
  BY <1>2, MergeGraph
<1>5. \A n \in ASTNode :
          bitvector'[n] = IF n = n2 THEN {}
                          ELSE IF n = n1 THEN bitvector[n1] \union bitvector[n2]
                          ELSE bitvector[n]
  BY <1>2, MergedBits
<1>6. \A n \in ASTNode, f \in Fn :
          conditionalConstraints'[n][f] =
              IF n = n2 THEN << >>
              ELSE IF n = n1 THEN conditionalConstraints[n1][f] \o conditionalConstraints[n2][f]
              ELSE conditionalConstraints[n][f]
  BY <1>2, MergedLists
<1>7. \A x : Waits(x) => Waits(x)'
  <2>1. Elems(stack) = {frame} \union Elems(Tail(stack)) /\ Elems(frame.todo) = {}
    <3>1. frame.todo = << >>
      BY <1>1, FrameType
    <3> QED BY <1>1, <3>1, TopFrame, NoElems
  <2>2. CASE n2 = frame.node
    <3>1. stack' = Replace(Frame(n1)) /\ Frame(n1) \in Frames
      BY <1>1, <2>2, FrameType
    <3>2. Elems(stack') = {Frame(n1)} \union Elems(Tail(stack))
      BY <1>1, <3>1, Replaced
    <3> QED BY <2>1, <3>2 DEF Waits
  <2>3. CASE n2 # frame.node
    BY <1>1, <2>3 DEF Waits
  <2> QED BY <2>2, <2>3
<1>8. \A p \in ASTNode : Mapped(p) => dagmapping[p] \in ASTNode
  BY DEF Inv, GraphOK, GraphType, Mapped
<1>9. ASSUME NEW p \in ASTNode, NEW q \in ASTNode, Mapped(p), Mapped(q), Linked(p, q)
      PROVE  Linked(p, q)'
  <2>1. PICK m \in ASTNode, k \in ASTNode : m = dagmapping[p] /\ k = dagmapping[q]
    BY <1>8, <1>9
  <2>2. m = k \/ k \in supsets[m]
    BY <1>9, <2>1 DEF Linked
  <2>3. PICK a \in ASTNode, b \in ASTNode :
            /\ a = (IF m = n2 THEN n1 ELSE m) /\ b = (IF k = n2 THEN n1 ELSE k)
            /\ a = dagmapping'[p] /\ b = dagmapping'[q]
    BY <1>3, <2>1
  <2>4. a # n2 /\ b # n2
    BY <1>1, <2>3
  <2>5. a = b \/ b \in supsets'[a]
    BY <1>4, <2>2, <2>3, <2>4
  <2> QED BY <2>3, <2>5 DEF Linked
<1>10. ASSUME NEW r \in added PROVE Represented(r)'
  <2>1. Represented(r)
    BY DEF RepresentedInv
  <2>2. CASE r.op = "element"
    <3>1. r.in \in ASTNode /\ dagmapping[r.in] \in ASTNode /\ r.fn \in bitvector[dagmapping[r.in]]
      BY <1>8, <2>1, <2>2, AddedTypes DEF Represented
    <3>2. r.fn \in bitvector'[dagmapping'[r.in]]
      BY <1>1, <1>3, <1>5, <3>1
    <3> QED BY <2>2, <3>2 DEF Represented
  <2>3. CASE r.op = "subset"
    BY <1>9, <2>1, <2>3, AddedTypes DEF Represented
  <2>4. CASE r.op = "conditional"
    <3>1. /\ r.fn \in Fn /\ r.in \in ASTNode /\ r.from \in ASTNode /\ r.to \in ASTNode
          /\ Mapped(r.in) /\ Mapped(r.from) /\ Mapped(r.to)
      BY <2>4, AddedTypes
    <3>2. CASE Linked(r.from, r.to)
      BY <1>9, <2>4, <3>1, <3>2 DEF Represented
    <3>3. CASE <<r.from, r.to>> \in Elems(conditionalConstraints[dagmapping[r.in]][r.fn])
      <4>1. PICK n \in ASTNode, n0 \in ASTNode :
                /\ n = dagmapping[r.in] /\ n0 = (IF n = n2 THEN n1 ELSE n) /\ n0 = dagmapping'[r.in]
        BY <1>3, <1>8, <3>1
      <4>2. PICK f \in Fn, x \in ASTNode \X ASTNode : f = r.fn /\ x = <<r.from, r.to>>
        BY <3>1
      <4>3. x \in Elems(conditionalConstraints[n][f])
        BY <3>3, <4>1, <4>2
      <4>4. /\ conditionalConstraints[n1][f] \in Seq(ASTNode \X ASTNode)
            /\ conditionalConstraints[n2][f] \in Seq(ASTNode \X ASTNode)
        BY WaitingTypes
      <4>5. Elems(conditionalConstraints[n1][f] \o conditionalConstraints[n2][f])
                = Elems(conditionalConstraints[n1][f]) \union Elems(conditionalConstraints[n2][f])
        BY <4>4, ElemsConcat
      <4>6. x \in Elems(conditionalConstraints'[n0][f])
        BY <1>1, <1>6, <4>1, <4>3, <4>5
      <4> QED BY <2>4, <4>1, <4>2, <4>6 DEF Represented
    <3>4. CASE Waits(<<r.from, r.to>>)
      BY <1>7, <2>4, <3>4 DEF Represented
    <3> QED BY <2>1, <2>4, <3>2, <3>3, <3>4 DEF Represented
  <2> QED BY <2>2, <2>3, <2>4, AddedTypes
<1> QED BY <1>1, <1>10 DEF RepresentedInv, history

LEMMA NextRepresented == Inv /\ RepresentedInv /\ [Next]_vars => RepresentedInv'
<1> SUFFICES ASSUME Inv, RepresentedInv, [Next]_vars PROVE RepresentedInv'
  OBVIOUS
<1>1. ASSUME NEW r \in Requests,
             addElementofConstraint(r) \/ addConditionalConstraint(r) \/ addSubseteqConstraint(r)
      PROVE  RepresentedInv'
  BY <1>1, addElementofConstraintRepresented, addConditionalConstraintRepresented,
     addSubseteqConstraintRepresented
<1>2. CASE \/ NextCandidate \/ Measure \/ NoPath \/ NoCycleLeft \/ StepBack
           \/ SearchForEver \/ UseDeleted \/ UNCHANGED vars
  <2>1. UNCHANGED <<dagmapping, graph, stack, added>>
    BY <1>2 DEF NextCandidate, Measure, NoPath, NoCycleLeft, StepBack, SearchForEver, UseDeleted,
       vars, history
  <2> QED BY <2>1, SearchRepresented
<1>3. CASE MergeNext \/ activateConditionalConstraint \/ NextFunction \/ NextSuperset \/ Return
  BY <1>3, MergeNextRepresented, activateConditionalConstraintRepresented, NextFunctionRepresented,
     NextSupersetRepresented, ReturnRepresented
<1> QED BY <1>1, <1>2, <1>3 DEF Next, Propagate
-----------------------------------------------------------------------------
(* With no frame left, covered edges and lists are satisfied ones.       *)
LEMMA CoveredMeaning ==
    ASSUME Inv, CoveredInv, RepresentedInv, Ready, ~overtaken
    PROVE  Solution([n \in ASTNode |-> Possible(n)])
<1> DEFINE S == [n \in ASTNode |-> Possible(n)]
<1>1. \A p \in ASTNode : S[p] = Possible(p)
  OBVIOUS
<1> HIDE DEF S
<1>2. /\ \A n \in ASTNode : \A m \in supsets[n] : bitvector[n] \subseteq bitvector[m]
      /\ \A n \in ASTNode : \A f \in bitvector[n] : conditionalConstraints[n][f] = << >>
  BY NothingWaits
<1>3. \A p \in ASTNode : Mapped(p) => dagmapping[p] \in ASTNode /\ S[p] = bitvector[dagmapping[p]]
  BY <1>1 DEF Inv, GraphOK, GraphType, Mapped, Possible
<1>4. ASSUME NEW p \in ASTNode, NEW q \in ASTNode, Mapped(p), Mapped(q), Linked(p, q)
      PROVE  S[p] \subseteq S[q]
  BY <1>2, <1>3, <1>4 DEF Linked
<1>5. \A x : ~Waits(x)
  BY NothingWaiting DEF Ready
<1>6. ASSUME NEW r \in added PROVE Holds(S, r)
  <2>1. Represented(r)
    BY DEF RepresentedInv
  <2>2. CASE r.op = "element"
    BY <1>3, <2>1, <2>2, AddedTypes DEF Represented, Holds
  <2>3. CASE r.op = "subset"
    BY <1>4, <2>1, <2>3, AddedTypes DEF Represented, Holds
  <2>4. CASE r.op = "conditional"
    <3>1. /\ r.fn \in Fn /\ r.in \in ASTNode /\ r.from \in ASTNode /\ r.to \in ASTNode
          /\ Mapped(r.in) /\ Mapped(r.from) /\ Mapped(r.to)
      BY <2>4, AddedTypes
    <3>2. CASE Linked(r.from, r.to)
      BY <1>4, <2>4, <3>1, <3>2 DEF Holds
    <3>3. CASE <<r.from, r.to>> \in Elems(conditionalConstraints[dagmapping[r.in]][r.fn])
      <4>1. conditionalConstraints[dagmapping[r.in]][r.fn] # << >>
        BY <3>3, NoElems
      <4>2. r.fn \notin S[r.in]
        BY <1>2, <1>3, <3>1, <4>1
      <4> QED BY <2>4, <4>2 DEF Holds
    <3> QED BY <1>5, <2>1, <2>4, <3>2, <3>3 DEF Represented
  <2> QED BY <2>2, <2>3, <2>4, AddedTypes
<1>7. Solution(S)
  BY <1>6 DEF Solution
<1> QED BY <1>7 DEF S

(* When a call of the solver returns and no merge overtook a loop, what it *)
(* reports satisfies every constraint added so far, for every order of the *)
(* constraints and of the addresses; and when a call has ended in any way *)
(* nothing is reported that is not forced.                               *)
THEOREM LeastSolution == Spec => []ReportsLeastSolution
<1>1. Init => Inv /\ SoundInv /\ CoveredInv /\ RepresentedInv
  <2>1. Init => RepresentedInv
    BY DEF Init, RepresentedInv
  <2> QED BY <2>1, InitInv, InitSound, InitCovered
<1>2. (Inv /\ SoundInv /\ CoveredInv /\ RepresentedInv) /\ [Next]_vars
          => (Inv /\ SoundInv /\ CoveredInv /\ RepresentedInv)'
  BY NextInv, NextSound, NextCovered, NextRepresented
<1>3. Inv /\ SoundInv /\ CoveredInv /\ RepresentedInv => ReportsLeastSolution
  BY SoundMeaning, CoveredMeaning DEF ReportsLeastSolution
<1> QED BY <1>1, <1>2, <1>3, PTL DEF Spec
=============================================================================
