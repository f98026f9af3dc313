------------------------- MODULE CubicSolverProofs -------------------------
(*************************************************************************)
(* What the cubic solver keeps true of its graph, whatever constraints it *)
(* is given and however long the propagation of one of them runs.  Inv is *)
(* inductive: it adds to the type invariant that the two directions of the *)
(* edges mirror each other, that the points of every constraint have nodes *)
(* by the time an edge is drawn between them, and that killCyclesAt searches *)
(* for the innermost frame before that frame has begun, along live nodes, *)
(* each of them nearer to the source than the next.  CycleInv adds what is *)
(* left of the cycles while killCyclesAt runs.                           *)
(*************************************************************************)
EXTENDS CubicSolver, SequenceTheorems, FiniteSetTheorems, TLAPS

(* The elements of a sequence.  Where only they matter the proofs speak of *)
(* them and not of positions.                                              *)
Elems(s) == {s[i] : i \in DOMAIN s}

LEMMA ElemsType ==
    ASSUME NEW S, NEW s \in Seq(S)
    PROVE  Elems(s) \subseteq S
BY DEF Elems

LEMMA NoElems == Elems(<< >>) = {}
BY DEF Elems

LEMMA ElemsCons ==
    ASSUME NEW S, NEW s \in Seq(S), NEW e \in S
    PROVE  /\ <<e>> \o s \in Seq(S) /\ <<e>> \o s # << >>
           /\ Head(<<e>> \o s) = e /\ Tail(<<e>> \o s) = s
           /\ Elems(<<e>> \o s) = {e} \union Elems(s)
<1> DEFINE t == <<e>> \o s
<1>1. /\ t \in Seq(S) /\ Len(t) = Len(s) + 1 /\ t[1] = e
      /\ \A i \in 1..Len(s) : t[i + 1] = s[i]
  OBVIOUS
<1>2. Len(s) \in Nat /\ DOMAIN s = 1..Len(s) /\ DOMAIN t = 1..Len(t)
  BY <1>1
<1>3. t # << >> /\ Head(t) = e
  BY <1>1, <1>2
<1>4. Tail(t) = s
  <2>1. Tail(t) \in Seq(S) /\ Len(Tail(t)) = Len(s)
    BY <1>1, <1>2, <1>3
  <2>2. \A i \in 1..Len(s) : Tail(t)[i] = s[i]
    BY <1>1, <1>2, <1>3
  <2> QED BY <2>1, <2>2, SeqEqual
<1>5. Elems(t) \subseteq {e} \union Elems(s)
  <2> SUFFICES ASSUME NEW i \in DOMAIN t PROVE t[i] \in {e} \union Elems(s)
    BY DEF Elems
  <2>1. CASE i = 1
    BY <1>1, <2>1
  <2>2. CASE i # 1
    <3>1. PICK k \in 1..Len(s) : i = k + 1
      <4>1. i - 1 \in 1..Len(s) /\ i = (i - 1) + 1
        BY <1>1, <1>2, <2>2
      <4> QED BY <4>1
    <3> QED BY <1>1, <1>2, <3>1 DEF Elems
  <2> QED BY <2>1, <2>2
<1>6. e \in Elems(t)
  <2>1. 1 \in DOMAIN t
    BY <1>1, <1>2
  <2> QED BY <1>1, <2>1 DEF Elems
<1>7. Elems(s) \subseteq Elems(t)
  <2> SUFFICES ASSUME NEW i \in DOMAIN s PROVE s[i] \in Elems(t)
    BY DEF Elems
  <2>1. i + 1 \in DOMAIN t /\ t[i + 1] = s[i]
    BY <1>1, <1>2
  <2> QED BY <2>1 DEF Elems
<1> QED BY <1>1, <1>3, <1>4, <1>5, <1>6, <1>7

LEMMA ElemsTail ==
    ASSUME NEW S, NEW s \in Seq(S), s # << >>
    PROVE  /\ Head(s) \in S /\ Tail(s) \in Seq(S)
           /\ Elems(s) = {Head(s)} \union Elems(Tail(s))
<1>1. Head(s) \in S /\ Tail(s) \in Seq(S)
  OBVIOUS
<1>2. s = <<Head(s)>> \o Tail(s)
  <2>1. <<Head(s)>> \o Tail(s) \in Seq(S) /\ Len(<<Head(s)>> \o Tail(s)) = Len(s)
    BY <1>1
  <2>2. \A i \in 1..Len(s) : (<<Head(s)>> \o Tail(s))[i] = s[i]
    BY <1>1
  <2> QED BY <2>1, <2>2, SeqEqual
<1> QED BY <1>1, <1>2, ElemsCons

LEMMA ElemsConcat ==
    ASSUME NEW S, NEW s \in Seq(S), NEW t \in Seq(S)
    PROVE  s \o t \in Seq(S) /\ Elems(s \o t) = Elems(s) \union Elems(t)
<1>1. /\ s \o t \in Seq(S) /\ Len(s \o t) = Len(s) + Len(t)
      /\ \A i \in 1..Len(s) : (s \o t)[i] = s[i]
      /\ \A i \in 1..Len(t) : (s \o t)[i + Len(s)] = t[i]
      /\ \A i \in 1..(Len(s) + Len(t)) : i > Len(s) => i - Len(s) \in 1..Len(t) /\ (s \o t)[i] = t[i - Len(s)]
  OBVIOUS
<1>2. DOMAIN s = 1..Len(s) /\ DOMAIN t = 1..Len(t) /\ DOMAIN (s \o t) = 1..(Len(s) + Len(t))
  BY <1>1
<1>3. Elems(s \o t) \subseteq Elems(s) \union Elems(t)
  <2> SUFFICES ASSUME NEW i \in DOMAIN (s \o t) PROVE (s \o t)[i] \in Elems(s) \union Elems(t)
    BY DEF Elems
  <2>1. CASE i \in 1..Len(s)
    BY <1>1, <1>2, <2>1 DEF Elems
  <2>2. CASE i > Len(s)
    BY <1>1, <1>2, <2>2 DEF Elems
  <2> QED BY <1>2, <2>1, <2>2
<1>4. Elems(s) \subseteq Elems(s \o t)
  <2> SUFFICES ASSUME NEW i \in DOMAIN s PROVE s[i] \in Elems(s \o t)
    BY DEF Elems
  <2>1. i \in DOMAIN (s \o t) /\ (s \o t)[i] = s[i]
    BY <1>1, <1>2
  <2> QED BY <2>1 DEF Elems
<1>5. Elems(t) \subseteq Elems(s \o t)
  <2> SUFFICES ASSUME NEW i \in DOMAIN t PROVE t[i] \in Elems(s \o t)
    BY DEF Elems
  <2>1. i + Len(s) \in DOMAIN (s \o t) /\ (s \o t)[i + Len(s)] = t[i]
    BY <1>1, <1>2
  <2> QED BY <2>1 DEF Elems
<1> QED BY <1>1, <1>3, <1>4, <1>5

LEMMA ElemsAppend ==
    ASSUME NEW S, NEW s \in Seq(S), NEW e \in S
    PROVE  Append(s, e) \in Seq(S) /\ Elems(Append(s, e)) = Elems(s) \union {e}
<1>1. Append(s, e) = s \o <<e>> /\ <<e>> \in Seq(S)
  OBVIOUS
<1>2. Elems(<<e>>) = {e}
  BY DEF Elems
<1>3. s \o <<e>> \in Seq(S) /\ Elems(s \o <<e>>) = Elems(s) \union Elems(<<e>>)
  BY <1>1, ElemsConcat
<1> QED BY <1>1, <1>2, <1>3
-----------------------------------------------------------------------------
(* The graph: what the constructor, an added edge and a merge leave of it. *)
Mapped(p) == dagmapping[p] # Unmapped
MappedPair(x) == Mapped(x[1]) /\ Mapped(x[2])

GraphType ==
    /\ dagmapping \in [ASTNode -> ASTNode \union {Unmapped}]
    /\ supsets \in [ASTNode -> SUBSET ASTNode]
    /\ subsets \in [ASTNode -> SUBSET ASTNode]
    /\ bitvector \in [ASTNode -> SUBSET Fn]
    /\ conditionalConstraints \in [ASTNode -> [Fn -> Seq(ASTNode \X ASTNode)]]

GraphOK == GraphType /\ NodesAreLive /\ Mirrored

(* The edges of a merged graph, in both directions.                      *)
LEMMA MergedEdges ==
    ASSUME GraphOK,
           NEW n1 \in ASTNode, NEW n2 \in ASTNode, n1 # n2,
           NEW m \in ASTNode, NEW k \in ASTNode
    PROVE  /\ k \in Merged(supsets, subsets, n1, n2)[m] <=>
                 /\ m # n2 /\ k # n2 /\ m # k
                 /\ \/ k \in supsets[m]
                    \/ m = n1 /\ k \in supsets[n2]
                    \/ k = n1 /\ n2 \in supsets[m]
           /\ k \in Merged(subsets, supsets, n1, n2)[m] <=>
                 /\ m # n2 /\ k # n2 /\ m # k
                 /\ \/ m \in supsets[k]
                    \/ m = n1 /\ n2 \in supsets[k]
                    \/ k = n1 /\ m \in supsets[n2]
<1>1. /\ m \in subsets[n2] <=> n2 \in supsets[m]
      /\ k \in subsets[m] <=> m \in supsets[k]
      /\ k \in subsets[n2] <=> n2 \in supsets[k]
      /\ m \notin supsets[m] /\ n2 \notin supsets[n2]
  BY DEF GraphOK, Mirrored, NodesAreLive
<1>2. CASE m = n2
  BY <1>2 DEF Merged
<1>3. CASE m = n1
  BY <1>1, <1>3 DEF Merged
<1>4. CASE m # n1 /\ m # n2
  BY <1>1, <1>4 DEF Merged
<1> QED BY <1>2, <1>3, <1>4

(* What mergeNodes does to the graph, field by field.                    *)
LEMMA MergeGraph ==
    ASSUME GraphOK,
           NEW n1 \in ASTNode, NEW n2 \in ASTNode, n1 # n2, Live(n1), Live(n2),
           mergeNodes(n1, n2)
    PROVE  /\ GraphOK'
           /\ \A n \in ASTNode : Live(n)' <=> Live(n) /\ n # n2
           /\ \A p \in ASTNode :
                 /\ Mapped(p)' <=> Mapped(p)
                 /\ dagmapping'[p] = IF dagmapping[p] = n2 THEN n1 ELSE dagmapping[p]
           /\ \A m, k \in ASTNode :
                 k \in supsets'[m] <=>
                     /\ m # n2 /\ k # n2 /\ m # k
                     /\ \/ k \in supsets[m]
                        \/ m = n1 /\ k \in supsets[n2]
                        \/ k = n1 /\ n2 \in supsets[m]
           /\ \A n \in ASTNode :
                 bitvector'[n] = IF n = n2 THEN {}
                                 ELSE IF n = n1 THEN bitvector[n1] \union bitvector[n2]
                                 ELSE bitvector[n]
           /\ \A n \in ASTNode, f \in Fn :
                 conditionalConstraints'[n][f] =
                     IF n = n2 THEN << >>
                     ELSE IF n = n1 THEN conditionalConstraints[n1][f] \o conditionalConstraints[n2][f]
                     ELSE conditionalConstraints[n][f]
<1>1. /\ dagmapping' \in [ASTNode -> ASTNode \union {Unmapped}]
      /\ \A p \in ASTNode :
            /\ Mapped(p)' <=> Mapped(p)
            /\ dagmapping'[p] = IF dagmapping[p] = n2 THEN n1 ELSE dagmapping[p]
      /\ \A n \in ASTNode : Live(n)' <=> Live(n) /\ n # n2
  BY UnmappedAssumption DEF GraphOK, GraphType, mergeNodes, Mapped, Live
<1>2. /\ supsets' = Merged(supsets, subsets, n1, n2)
      /\ subsets' = Merged(subsets, supsets, n1, n2)
  BY DEF mergeNodes
<1>3. /\ supsets' \in [ASTNode -> SUBSET ASTNode]
      /\ subsets' \in [ASTNode -> SUBSET ASTNode]
  BY <1>2 DEF Merged, GraphOK, GraphType
<1>4. \A m, k \in ASTNode :
          /\ k \in supsets'[m] <=>
                 /\ m # n2 /\ k # n2 /\ m # k
                 /\ \/ k \in supsets[m]
                    \/ m = n1 /\ k \in supsets[n2]
                    \/ k = n1 /\ n2 \in supsets[m]
          /\ k \in subsets'[m] <=>
                 /\ m # n2 /\ k # n2 /\ m # k
                 /\ \/ m \in supsets[k]
                    \/ m = n1 /\ n2 \in supsets[k]
                    \/ k = n1 /\ m \in supsets[n2]
  BY <1>2, MergedEdges
<1>5. /\ bitvector' \in [ASTNode -> SUBSET Fn]
      /\ \A n \in ASTNode :
            bitvector'[n] = IF n = n2 THEN {}
                            ELSE IF n = n1 THEN bitvector[n1] \union bitvector[n2]
                            ELSE bitvector[n]
  BY DEF mergeNodes, GraphOK, GraphType
<1>6. \A f \in Fn : conditionalConstraints[n1][f] \o conditionalConstraints[n2][f]
                        \in Seq(ASTNode \X ASTNode)
  BY DEF GraphOK, GraphType
<1>7. /\ NoConstraints \in [Fn -> Seq(ASTNode \X ASTNode)]
      /\ [f \in Fn |-> conditionalConstraints[n1][f] \o conditionalConstraints[n2][f]]
            \in [Fn -> Seq(ASTNode \X ASTNode)]
  BY <1>6 DEF NoConstraints
<1>8. conditionalConstraints' =
          [conditionalConstraints EXCEPT
              ![n1] = [f \in Fn |-> conditionalConstraints[n1][f] \o conditionalConstraints[n2][f]],
              ![n2] = NoConstraints]
  BY DEF mergeNodes, GraphOK, GraphType
<1>9. /\ conditionalConstraints' \in [ASTNode -> [Fn -> Seq(ASTNode \X ASTNode)]]
      /\ conditionalConstraints'[n2] = NoConstraints
      /\ conditionalConstraints'[n1]
            = [f \in Fn |-> conditionalConstraints[n1][f] \o conditionalConstraints[n2][f]]
      /\ \A n \in ASTNode : n # n1 /\ n # n2 => conditionalConstraints'[n] = conditionalConstraints[n]
  BY <1>7, <1>8 DEF GraphOK, GraphType
<1>10. \A n \in ASTNode, f \in Fn :
           conditionalConstraints'[n][f] =
               IF n = n2 THEN << >>
               ELSE IF n = n1 THEN conditionalConstraints[n1][f] \o conditionalConstraints[n2][f]
               ELSE conditionalConstraints[n][f]
  BY <1>9 DEF NoConstraints
<1>11. Mirrored'
  BY <1>4 DEF Mirrored
<1>12. NodesAreLive'
  <2>1. \A p \in ASTNode :
            dagmapping[p] # Unmapped => dagmapping[dagmapping[p]] = dagmapping[p]
    BY DEF GraphOK, NodesAreLive, Live
  <2>2. \A p \in ASTNode :
            dagmapping'[p] # Unmapped => dagmapping'[dagmapping'[p]] = dagmapping'[p]
    <3> TAKE p \in ASTNode
    <3>1. dagmapping[n1] = n1 /\ dagmapping[p] \in ASTNode \union {Unmapped}
      BY DEF GraphOK, GraphType, Live
    <3>2. dagmapping'[n1] = n1
      BY <1>1, <3>1
    <3>3. CASE dagmapping[p] = n2
      BY <1>1, <3>2, <3>3
    <3>4. CASE dagmapping[p] # n2
      BY <1>1, <2>1, <3>1, <3>4
    <3> QED BY <3>3, <3>4
  <2>3. ASSUME NEW n \in ASTNode, ~Live(n)'
        PROVE  /\ supsets'[n] = {} /\ subsets'[n] = {} /\ bitvector'[n] = {}
               /\ conditionalConstraints'[n] = NoConstraints
    <3>1. CASE n = n2
      BY <1>3, <1>4, <1>5, <1>9, <3>1
    <3>2. CASE n # n2
      <4>1. ~Live(n) /\ n # n1
        BY <1>1, <2>3, <3>2
      <4>2. /\ supsets[n] = {} /\ subsets[n] = {} /\ bitvector[n] = {}
            /\ conditionalConstraints[n] = NoConstraints
        BY <4>1 DEF GraphOK, NodesAreLive
      <4>3. \A k \in ASTNode : n \notin supsets[k]
        BY <4>1 DEF GraphOK, NodesAreLive
      <4> QED BY <1>3, <1>4, <1>5, <1>9, <3>2, <4>1, <4>2, <4>3
    <3> QED BY <3>1, <3>2
  <2>4. \A m, k \in ASTNode : k \in supsets[m] => Live(k) /\ Live(m)
    BY DEF GraphOK, NodesAreLive
  <2>5. \A m, k \in ASTNode : k \in supsets'[m] => Live(k)' /\ Live(m)' /\ m # k
    BY <1>1, <1>4, <2>4
  <2>6. \A m, k \in ASTNode : k \in subsets'[m] => Live(k)'
    BY <1>11, <2>5 DEF Mirrored
  <2>7. \A m \in ASTNode : supsets'[m] \subseteq ASTNode /\ subsets'[m] \subseteq ASTNode
    BY <1>3
  <2>8. \A m \in ASTNode :
            m \notin supsets'[m] /\ \A n \in supsets'[m] \union subsets'[m] : Live(n)'
    BY <2>5, <2>6, <2>7
  <2> QED BY <2>2, <2>3, <2>8 DEF NodesAreLive, Live
<1> QED BY <1>1, <1>3, <1>4, <1>5, <1>9, <1>10, <1>11, <1>12 DEF GraphOK, GraphType

(* The fields that most proofs need, on their own.                       *)
LEMMA MergedPoints ==
    ASSUME GraphOK,
           NEW n1 \in ASTNode, NEW n2 \in ASTNode, n1 # n2, Live(n1), Live(n2),
           mergeNodes(n1, n2)
    PROVE  \A p \in ASTNode :
               /\ Mapped(p)' <=> Mapped(p)
               /\ dagmapping'[p] = IF dagmapping[p] = n2 THEN n1 ELSE dagmapping[p]
BY UnmappedAssumption DEF GraphOK, GraphType, mergeNodes, Mapped

LEMMA MergedBits ==
    ASSUME GraphOK,
           NEW n1 \in ASTNode, NEW n2 \in ASTNode, n1 # n2, Live(n1), Live(n2),
           mergeNodes(n1, n2)
    PROVE  \A n \in ASTNode :
               bitvector'[n] = IF n = n2 THEN {}
                               ELSE IF n = n1 THEN bitvector[n1] \union bitvector[n2]
                               ELSE bitvector[n]
BY DEF mergeNodes, GraphOK, GraphType

LEMMA MergedLists ==
    ASSUME GraphOK,
           NEW n1 \in ASTNode, NEW n2 \in ASTNode, n1 # n2, Live(n1), Live(n2),
           mergeNodes(n1, n2)
    PROVE  \A n \in ASTNode, f \in Fn :
               conditionalConstraints'[n][f] =
                   IF n = n2 THEN << >>
                   ELSE IF n = n1 THEN conditionalConstraints[n1][f] \o conditionalConstraints[n2][f]
                   ELSE conditionalConstraints[n][f]
<1>1. conditionalConstraints' =
          [conditionalConstraints EXCEPT
              ![n1] = [f \in Fn |-> conditionalConstraints[n1][f] \o conditionalConstraints[n2][f]],
              ![n2] = NoConstraints]
  BY DEF mergeNodes, GraphOK, GraphType
<1>2. /\ conditionalConstraints'[n2] = NoConstraints
      /\ conditionalConstraints'[n1]
            = [f \in Fn |-> conditionalConstraints[n1][f] \o conditionalConstraints[n2][f]]
      /\ \A n \in ASTNode : n # n1 /\ n # n2 => conditionalConstraints'[n] = conditionalConstraints[n]
  BY <1>1 DEF GraphOK, GraphType
<1> QED BY <1>2 DEF NoConstraints
-----------------------------------------------------------------------------
(* The invariant.                                                        *)
StackType == stack \in Seq(Frames)

SearchType ==
    /\ search = Search(search.mode, search.at, search.dist, search.queue, search.path)
    /\ search.mode \in {"none", "choose", "measure", "walk"}
    /\ search.at \subseteq ASTNode
    /\ DOMAIN search.dist \subseteq ASTNode
    /\ search.dist \in [DOMAIN search.dist -> Nat]
    /\ search.queue \in Seq(ASTNode) /\ search.path \in Seq(ASTNode)

OtherTypes ==
    /\ status \in {"defined", "undefined", "looping"}
    /\ added \subseteq Requests
    /\ count \in 0..MaxRequests
    /\ overtaken \in BOOLEAN

(* The points of a request that was added, and of a pair that waits, have nodes. *)
Points ==
    /\ \A r \in added :
          /\ r.op = "element" => Mapped(r.in)
          /\ r.op = "subset" => Mapped(r.from) /\ Mapped(r.to)
          /\ r.op = "conditional" => Mapped(r.in) /\ Mapped(r.from) /\ Mapped(r.to)
    /\ \A n \in ASTNode, f \in Fn :
          \A x \in Elems(conditionalConstraints[n][f]) : MappedPair(x)
    /\ \A fr \in Elems(stack) : \A x \in Elems(fr.todo) : MappedPair(x)

(* A search is for the innermost frame, which has not begun. *)
SearchOfFrame ==
    search.mode # "none" =>
        stack # << >> /\ frame.node \in ASTNode /\ frame = Frame(frame.node) /\ Live(frame.node)

SearchFrom ==
    search.mode \in {"measure", "walk"} =>
        \E t \in supsets[frame.node] : search.at = {t} /\ t \in DOMAIN search.dist

Queued ==
    search.mode = "measure" =>
        Elems(search.queue) \subseteq DOMAIN search.dist

(* The walk goes over live nodes, each closer to the source. *)
Walked ==
    search.mode = "walk" =>
        LET p == search.path
        IN  /\ Len(p) >= 1 /\ p[Len(p)] = frame.node
            /\ \A i \in 1..Len(p) : Live(p[i]) /\ p[i] \in DOMAIN search.dist
            /\ \A i, j \in 1..Len(p) : i < j => search.dist[p[i]] < search.dist[p[j]]

SearchOK == SearchOfFrame /\ SearchFrom /\ Queued /\ Walked

Inv ==
    /\ GraphOK /\ StackType /\ SearchType /\ OtherTypes
    /\ Points /\ SearchOK

LEMMA InvMeaning == Inv => TypeOK /\ Mirrored
BY DEF Inv, GraphOK, GraphType, StackType, SearchType, OtherTypes, TypeOK

-----------------------------------------------------------------------------
(* What a request is, and what taking it does.                           *)
LEMMA RequestTypes ==
    ASSUME NEW r \in Requests
    PROVE  /\ r.op = "element" => r.fn \in Fn /\ r.in \in ASTNode
           /\ r.op = "subset" => r.from \in ASTNode /\ r.to \in ASTNode
           /\ r.op = "conditional" =>
                 r.fn \in Fn /\ r.in \in ASTNode /\ r.from \in ASTNode /\ r.to \in ASTNode
           /\ r.op \in {"element", "subset", "conditional"}
BY RequestsAssumption DEF ElementOf, Subset, Conditional

(* What the calls of addEmptyVariableIfNecessary leave of the mapping. *)
MappingGrows ==
    /\ dagmapping' \in [ASTNode -> ASTNode \union {Unmapped}]
    /\ \A p \in ASTNode : dagmapping'[p] # Unmapped => dagmapping'[dagmapping'[p]] = dagmapping'[p]
    /\ \A p \in ASTNode : Mapped(p) => Mapped(p)' /\ dagmapping'[p] = dagmapping[p]
    /\ \A n \in ASTNode : Live(n) => Live(n)'

LEMMA EmptyVariables ==
    ASSUME GraphOK, NEW points \in SUBSET ASTNode,
           dagmapping' = addEmptyVariableIfNecessary(points)
    PROVE  MappingGrows /\ \A p \in points : Mapped(p)' /\ Live(dagmapping[p])'
<1>1. /\ dagmapping' \in [ASTNode -> ASTNode \union {Unmapped}]
      /\ \A p \in ASTNode : dagmapping'[p] =
            IF p \in points /\ dagmapping[p] = Unmapped THEN p ELSE dagmapping[p]
  BY DEF GraphOK, GraphType, addEmptyVariableIfNecessary
<1>2. \A p \in ASTNode :
          dagmapping[p] # Unmapped => dagmapping[p] \in ASTNode /\ dagmapping[dagmapping[p]] = dagmapping[p]
  BY DEF GraphOK, GraphType, NodesAreLive, Live
<1>3. \A p \in ASTNode : dagmapping'[p] # Unmapped => dagmapping'[dagmapping'[p]] = dagmapping'[p]
  <2> TAKE p \in ASTNode
  <2>1. CASE p \in points /\ dagmapping[p] = Unmapped
    BY <1>1, <2>1
  <2>2. CASE ~(p \in points /\ dagmapping[p] = Unmapped)
    <3>1. dagmapping'[p] = dagmapping[p]
      BY <1>1, <2>2
    <3>2. dagmapping[p] # Unmapped =>
              dagmapping'[dagmapping[p]] = dagmapping[dagmapping[p]]
      BY <1>1, <1>2
    <3> QED BY <1>2, <3>1, <3>2
  <2> QED BY <2>1, <2>2
<1>4. \A p \in ASTNode : Mapped(p) => Mapped(p)' /\ dagmapping'[p] = dagmapping[p]
  BY <1>1 DEF Mapped
<1>5. \A n \in ASTNode : Live(n) => Live(n)'
  BY <1>1, UnmappedAssumption DEF Live
<1>6. \A p \in points : Mapped(p)'
  BY <1>1, UnmappedAssumption DEF Mapped
<1> QED BY <1>1, <1>3, <1>4, <1>5, <1>6 DEF MappingGrows, Live, Mapped

LEMMA MappingStays ==
    ASSUME GraphOK, UNCHANGED dagmapping
    PROVE  MappingGrows
BY DEF GraphOK, GraphType, NodesAreLive, Live, MappingGrows, Mapped

(* Steps that change the fields of live nodes but no edge. *)
LEMMA FieldsGraph ==
    ASSUME GraphOK, MappingGrows, UNCHANGED <<supsets, subsets>>,
           bitvector' \in [ASTNode -> SUBSET Fn],
           conditionalConstraints' \in [ASTNode -> [Fn -> Seq(ASTNode \X ASTNode)]],
           \A n \in ASTNode : ~Live(n)' =>
               /\ bitvector'[n] = bitvector[n]
               /\ conditionalConstraints'[n] = conditionalConstraints[n]
    PROVE  GraphOK'
<1>1. GraphType' /\ Mirrored'
  BY DEF GraphOK, GraphType, Mirrored, MappingGrows
<1>2. \A n \in ASTNode : ~Live(n)' => ~Live(n)
  BY DEF MappingGrows
<1>3. NodesAreLive'
  BY <1>2 DEF GraphOK, NodesAreLive, Live, MappingGrows, GraphType
<1> QED BY <1>1, <1>3 DEF GraphOK

(* An edge between two live nodes.                                       *)
LEMMA LinkGraph ==
    ASSUME GraphOK, MappingGrows, NEW m \in ASTNode, NEW k \in ASTNode, m # k,
           Live(m)', Live(k)', Link(m, k),
           UNCHANGED <<bitvector, conditionalConstraints>>
    PROVE  /\ GraphOK'
           /\ \A n \in ASTNode : supsets'[n] = IF n = m THEN supsets[n] \union {k} ELSE supsets[n]
<1>1. /\ GraphType'
      /\ \A n \in ASTNode : supsets'[n] = IF n = m THEN supsets[n] \union {k} ELSE supsets[n]
      /\ \A n \in ASTNode : subsets'[n] = IF n = k THEN subsets[n] \union {m} ELSE subsets[n]
  BY DEF GraphOK, GraphType, MappingGrows, Link
<1>2. Mirrored'
  <2>1. \A a, b \in ASTNode : b \in supsets'[a] <=> b \in supsets[a] \/ (a = m /\ b = k)
    BY <1>1
  <2>2. \A a, b \in ASTNode : a \in subsets'[b] <=> a \in subsets[b] \/ (a = m /\ b = k)
    BY <1>1
  <2>3. \A a, b \in ASTNode : b \in supsets[a] <=> a \in subsets[b]
    BY DEF GraphOK, Mirrored
  <2>4. \A a, b \in ASTNode : b \in supsets'[a] <=> a \in subsets'[b]
    BY <2>1, <2>2, <2>3
  <2> QED BY <2>4 DEF Mirrored
<1>3. \A n \in ASTNode : ~Live(n)' => ~Live(n) /\ n # m /\ n # k
  BY DEF MappingGrows
<1>4. NodesAreLive'
  <2>1. \A p \in ASTNode : dagmapping'[p] # Unmapped => dagmapping'[dagmapping'[p]] = dagmapping'[p]
    BY DEF MappingGrows
  <2>2. \A n \in ASTNode : ~Live(n)' =>
          /\ supsets'[n] = {} /\ subsets'[n] = {} /\ bitvector'[n] = {}
          /\ conditionalConstraints'[n] = NoConstraints
    BY <1>1, <1>3 DEF GraphOK, NodesAreLive
  <2>3. \A n \in ASTNode : n \notin supsets'[n]
    BY <1>1 DEF GraphOK, NodesAreLive
  <2>4. \A n \in ASTNode : \A e \in supsets'[n] \union subsets'[n] : Live(e)'
    <3> SUFFICES ASSUME NEW n \in ASTNode, NEW e \in supsets'[n] \union subsets'[n]
                 PROVE  Live(e)'
      OBVIOUS
    <3>1. e \in ASTNode /\ (Live(e) => Live(e)')
      BY <1>1 DEF GraphType, MappingGrows
    <3>2. e \in supsets[n] \union subsets[n] \/ e = k \/ e = m
      BY <1>1
    <3>3. e \in supsets[n] \union subsets[n] => Live(e)
      BY DEF GraphOK, NodesAreLive
    <3> QED BY <3>1, <3>2, <3>3
  <2> QED BY <2>1, <2>2, <2>3, <2>4 DEF NodesAreLive, Live
<1> QED BY <1>1, <1>2, <1>4 DEF GraphOK
-----------------------------------------------------------------------------
LEMMA FrameType ==
    ASSUME NEW n \in ASTNode
    PROVE  Frame(n) \in Frames /\ Frame(n).node = n /\ Frame(n).todo = << >>
           /\ Frame(n).fns = Fn /\ Frame(n).at = {}
BY DEF Frame, Frames

LEMMA ConsIndex ==
    ASSUME NEW S, NEW s \in Seq(S), NEW e \in S
    PROVE  /\ Len(<<e>> \o s) = Len(s) + 1 /\ Len(s) \in Nat
           /\ (<<e>> \o s)[1] = e
           /\ \A i \in 1..Len(s) : (<<e>> \o s)[i + 1] = s[i]
           /\ \A j \in 1..Len(s) + 1 : j # 1 =>
                 j - 1 \in 1..Len(s) /\ (<<e>> \o s)[j] = s[j - 1]
OBVIOUS

(* findPath queues what it has just measured.                            *)
LEMMA AscendingType ==
    ASSUME NEW S \in SUBSET ASTNode, NEW q \in Ascending(S)
    PROVE  q \in Seq(ASTNode) /\ Elems(q) = S
<1>1. Cardinality(S) \in Nat
  BY ASTNodeAssumption, FS_Subset, FS_CardinalityType
<1>2. q \in [1..Cardinality(S) -> S] /\ \A s \in S : \E i \in DOMAIN q : q[i] = s
  BY DEF Ascending
<1>3. q \in Seq(S)
  BY <1>1, <1>2
<1>4. Elems(q) = S
  BY <1>2 DEF Elems
<1> QED BY <1>2, <1>3, <1>4

LEMMA DistancesType ==
    ASSUME GraphOK, NEW D \in SUBSET ASTNode, NEW dist \in [D -> Nat], NEW n \in D
    PROVE  /\ DOMAIN populateDistances(dist, n) = D \union supsets[n]
           /\ D \union supsets[n] \subseteq ASTNode
           /\ populateDistances(dist, n) \in [D \union supsets[n] -> Nat]
           /\ Fresh(dist, n) \in SUBSET ASTNode
           /\ Fresh(dist, n) \subseteq D \union supsets[n]
           /\ D \union supsets[n] = D \union Fresh(dist, n)
BY DEF GraphOK, GraphType, populateDistances, Fresh

(* Steps of killCyclesAt and findPath leave everything but the search alone. *)
LEMMA SearchStep ==
    ASSUME Inv, UNCHANGED <<dagmapping, graph, stack, history, overtaken>>,
           status' \in {"defined", "undefined", "looping"}, SearchType', SearchOK'
    PROVE  Inv'
BY DEF Inv, GraphOK, GraphType, NodesAreLive, Mirrored, Live, graph, history,
       StackType, OtherTypes, Points, Mapped, MappedPair

LEMMA NextCandidateInv ==
    ASSUME Inv, NextCandidate
    PROVE  Inv'
<1>1. /\ frame.node \in ASTNode /\ stack # << >> /\ frame = Frame(frame.node) /\ Live(frame.node)
      /\ GraphOK
  BY DEF NextCandidate, Searching, Inv, SearchOK, SearchOfFrame
<1>2. supsets[frame.node] \subseteq ASTNode
  BY <1>1 DEF GraphOK, GraphType
<1>3. PICK t \in supsets[frame.node] :
          \E q \in Ascending(Fresh([m \in {t} |-> 0], t)) :
              search' = Search("measure", {t}, populateDistances([m \in {t} |-> 0], t), q, << >>)
  BY DEF NextCandidate, First, After
<1> DEFINE dist == populateDistances([m \in {t} |-> 0], t)
<1>4. /\ DOMAIN dist = {t} \union supsets[t] /\ DOMAIN dist \subseteq ASTNode
      /\ dist \in [DOMAIN dist -> Nat]
      /\ Fresh([m \in {t} |-> 0], t) \in SUBSET ASTNode
      /\ Fresh([m \in {t} |-> 0], t) \subseteq DOMAIN dist
  <2>1. {t} \in SUBSET ASTNode /\ [m \in {t} |-> 0] \in [{t} -> Nat] /\ t \in {t}
    BY <1>2
  <2>2. /\ DOMAIN dist = {t} \union supsets[t] /\ {t} \union supsets[t] \subseteq ASTNode
        /\ dist \in [{t} \union supsets[t] -> Nat]
        /\ Fresh([m \in {t} |-> 0], t) \in SUBSET ASTNode
        /\ Fresh([m \in {t} |-> 0], t) \subseteq {t} \union supsets[t]
    BY <1>1, <2>1, DistancesType
  <2> HIDE DEF dist
  <2> QED BY <2>2
<1>5. PICK q \in Ascending(Fresh([m \in {t} |-> 0], t)) :
          search' = Search("measure", {t}, dist, q, << >>)
  BY <1>3
<1>6. q \in Seq(ASTNode) /\ Elems(q) \subseteq DOMAIN dist
  BY <1>4, AscendingType
<1> HIDE DEF dist
<1>7. /\ search'.mode = "measure" /\ search'.at = {t} /\ search'.dist = dist
      /\ search'.queue = q /\ search'.path = << >>
      /\ search' = Search(search'.mode, search'.at, search'.dist, search'.queue, search'.path)
  BY <1>5 DEF Search
<1>8. UNCHANGED <<dagmapping, graph, stack, status, history, overtaken>>
  BY DEF NextCandidate
<1>9. SearchType'
  BY <1>2, <1>4, <1>6, <1>7 DEF SearchType
<1>10. frame' = frame /\ Live(frame.node)' /\ supsets' = supsets
  BY <1>1, <1>8 DEF frame, Live, graph
<1>11. SearchOK'
  BY <1>1, <1>4, <1>6, <1>7, <1>8, <1>10 DEF SearchOK, SearchOfFrame, SearchFrom, Queued, Walked
<1> QED BY <1>8, <1>9, <1>11, SearchStep DEF Inv, OtherTypes

LEMMA MeasureInv ==
    ASSUME Inv, Measure
    PROVE  Inv'
<1>1. /\ frame.node \in ASTNode /\ stack # << >> /\ frame = Frame(frame.node) /\ Live(frame.node)
      /\ GraphOK /\ search.mode = "measure" /\ search.queue # << >>
  BY DEF Measure, Searching, Inv, SearchOK, SearchOfFrame
<1> DEFINE D == DOMAIN search.dist
           old == search.dist
<1>2. D \in SUBSET ASTNode /\ old \in [D -> Nat]
  BY DEF Inv, SearchType
<1>3. /\ Head(search.queue) \in D /\ Tail(search.queue) \in Seq(ASTNode)
      /\ Elems(Tail(search.queue)) \subseteq D
  BY <1>1, <1>2, ElemsTail DEF Inv, SearchType, SearchOK, Queued
<1> DEFINE dist == populateDistances(old, Head(search.queue))
<1>4. /\ DOMAIN dist \subseteq ASTNode /\ dist \in [DOMAIN dist -> Nat] /\ D \subseteq DOMAIN dist
      /\ Fresh(old, Head(search.queue)) \in SUBSET ASTNode
      /\ Fresh(old, Head(search.queue)) \subseteq DOMAIN dist
  <2>1. /\ DOMAIN dist = D \union supsets[Head(search.queue)]
        /\ D \union supsets[Head(search.queue)] \subseteq ASTNode
        /\ dist \in [D \union supsets[Head(search.queue)] -> Nat]
        /\ Fresh(old, Head(search.queue)) \in SUBSET ASTNode
        /\ Fresh(old, Head(search.queue)) \subseteq D \union supsets[Head(search.queue)]
    <3>1. PICK n \in D : n = Head(search.queue)
      BY <1>3
    <3> HIDE DEF D, old
    <3>2. /\ DOMAIN populateDistances(old, n) = D \union supsets[n]
          /\ D \union supsets[n] \subseteq ASTNode
          /\ populateDistances(old, n) \in [D \union supsets[n] -> Nat]
          /\ Fresh(old, n) \in SUBSET ASTNode
          /\ Fresh(old, n) \subseteq D \union supsets[n]
      BY <1>1, <1>2, DistancesType
    <3> QED BY <3>1, <3>2
  <2> HIDE DEF dist
  <2> QED BY <2>1
<1>5. PICK q \in Ascending(Fresh(old, Head(search.queue))) :
          search' =
             IF frame.node \in DOMAIN dist
             THEN Search("walk", search.at, dist, << >>, <<frame.node>>)
             ELSE Search("measure", search.at, dist, Tail(search.queue) \o q, << >>)
  BY <1>2 DEF Measure
<1>6. q \in Seq(ASTNode) /\ Elems(q) \subseteq DOMAIN dist
  <2>1. PICK F \in SUBSET ASTNode : F = Fresh(old, Head(search.queue))
    BY <1>4
  <2>2. q \in Ascending(F)
    BY <2>1
  <2>3. q \in Seq(ASTNode) /\ Elems(q) = F
    BY <2>2, AscendingType
  <2> QED BY <1>4, <2>1, <2>3
<1>7. /\ Tail(search.queue) \o q \in Seq(ASTNode)
      /\ Elems(Tail(search.queue) \o q) \subseteq DOMAIN dist
  <2>1. PICK s \in Seq(ASTNode) : s = Tail(search.queue) /\ Elems(s) \subseteq D
    BY <1>3
  <2>2. s \o q \in Seq(ASTNode) /\ Elems(s \o q) = Elems(s) \union Elems(q)
    BY <1>6, ElemsConcat
  <2> QED BY <1>4, <1>6, <2>1, <2>2
<1>8. UNCHANGED <<dagmapping, graph, stack, status, history, overtaken>>
  BY DEF Measure
<1>9. frame' = frame /\ Live(frame.node)' /\ supsets' = supsets
  BY <1>1, <1>8 DEF frame, Live, graph
<1>10. PICK t \in supsets[frame.node] : search.at = {t} /\ t \in DOMAIN dist
  BY <1>1, <1>2, <1>4 DEF Inv, SearchOK, SearchFrom
<1> HIDE DEF dist
<1>11. search.at \subseteq ASTNode
  BY DEF Inv, SearchType
<1>12. CASE frame.node \in DOMAIN dist
  <2>1. /\ search'.mode = "walk" /\ search'.at = search.at /\ search'.dist = dist
        /\ search'.queue = << >> /\ search'.path = <<frame.node>>
        /\ search' = Search(search'.mode, search'.at, search'.dist, search'.queue, search'.path)
    BY <1>5, <1>12 DEF Search
  <2>2. SearchType'
    BY <1>1, <1>4, <1>11, <2>1 DEF SearchType
  <2>3. Walked'
    BY <1>1, <1>9, <1>12, <2>1 DEF Walked
  <2>4. SearchOK'
    BY <1>1, <1>8, <1>9, <1>10, <2>1, <2>3 DEF SearchOK, SearchOfFrame, SearchFrom, Queued
  <2> QED BY <1>8, <2>2, <2>4, SearchStep DEF Inv, OtherTypes
<1>13. CASE frame.node \notin DOMAIN dist
  <2>1. /\ search'.mode = "measure" /\ search'.at = search.at /\ search'.dist = dist
        /\ search'.queue = Tail(search.queue) \o q /\ search'.path = << >>
        /\ search' = Search(search'.mode, search'.at, search'.dist, search'.queue, search'.path)
    BY <1>5, <1>13 DEF Search
  <2>2. SearchType'
    BY <1>1, <1>4, <1>7, <1>11, <2>1 DEF SearchType
  <2>4. SearchOK'
    BY <1>1, <1>7, <1>8, <1>9, <1>10, <2>1 DEF SearchOK, SearchOfFrame, SearchFrom, Queued, Walked
  <2> QED BY <1>8, <2>2, <2>4, SearchStep DEF Inv, OtherTypes
<1> QED BY <1>12, <1>13

LEMMA NoPathInv ==
    ASSUME Inv, NoPath
    PROVE  Inv'
<1>1. /\ frame.node \in ASTNode /\ stack # << >> /\ frame = Frame(frame.node) /\ Live(frame.node)
      /\ search.at \subseteq ASTNode
  BY DEF NoPath, Searching, Inv, SearchOK, SearchOfFrame, SearchType
<1>2. /\ search'.mode = "choose" /\ search'.at = search.at /\ search'.dist = << >>
      /\ search'.queue = << >> /\ search'.path = << >>
      /\ search' = Search(search'.mode, search'.at, search'.dist, search'.queue, search'.path)
      /\ UNCHANGED <<dagmapping, graph, stack, status, history, overtaken>>
  BY DEF NoPath, Search
<1>3. SearchType'
  BY <1>1, <1>2 DEF SearchType
<1>4. SearchOK'
  BY <1>1, <1>2 DEF SearchOK, SearchOfFrame, SearchFrom, Queued, Walked, frame, Live
<1> QED BY <1>2, <1>3, <1>4, SearchStep DEF Inv, OtherTypes

LEMMA NoCycleLeftInv ==
    ASSUME Inv, NoCycleLeft
    PROVE  Inv'
<1>1. /\ search'.mode = "none" /\ search'.at = {} /\ search'.dist = << >>
      /\ search'.queue = << >> /\ search'.path = << >>
      /\ search' = Search(search'.mode, search'.at, search'.dist, search'.queue, search'.path)
      /\ UNCHANGED <<dagmapping, graph, stack, status, history, overtaken>>
  BY DEF NoCycleLeft, Search, NoSearch
<1>2. SearchType' /\ SearchOK'
  BY <1>1 DEF SearchType, SearchOK, SearchOfFrame, SearchFrom, Queued, Walked
<1> QED BY <1>1, <1>2, SearchStep DEF Inv, OtherTypes

LEMMA StepBackInv ==
    ASSUME Inv, StepBack
    PROVE  Inv'
<1>1. /\ frame.node \in ASTNode /\ stack # << >> /\ frame = Frame(frame.node) /\ Live(frame.node)
      /\ GraphOK /\ SearchType /\ search.mode = "walk"
  BY DEF StepBack, Walking, Searching, Inv, SearchOK, SearchOfFrame
<1> DEFINE p == search.path
<1>2. /\ p \in Seq(ASTNode) /\ Len(p) >= 1 /\ p[Len(p)] = frame.node
      /\ \A i \in 1..Len(p) : Live(p[i]) /\ p[i] \in DOMAIN search.dist
      /\ \A i, j \in 1..Len(p) : i < j => search.dist[p[i]] < search.dist[p[j]]
  BY <1>1 DEF Inv, SearchOK, Walked, SearchType
<1>3. PICK n \in Closer : search' = [search EXCEPT !.path = <<n>> \o p]
  BY DEF StepBack
<1>4. Head(p) = p[1] /\ Len(p) \in Nat /\ p[1] \in ASTNode
  BY <1>2
<1>5. /\ n \in subsets[p[1]] /\ n \in DOMAIN search.dist
      /\ search.dist[n] + 1 = search.dist[p[1]]
  BY <1>4 DEF Closer, First
<1>6. n \in ASTNode /\ Live(n)
  BY <1>1, <1>4, <1>5 DEF GraphOK, GraphType, NodesAreLive
<1>a. <<n>> \o p \in Seq(ASTNode)
  BY <1>2, <1>6, ElemsCons
<1>b. PICK w \in Seq(ASTNode) : w = <<n>> \o p
  BY <1>a
<1>7. /\ w \in Seq(ASTNode) /\ Len(w) = Len(p) + 1 /\ w[1] = n
      /\ \A i \in 1..Len(p) : w[i + 1] = p[i]
      /\ \A j \in 1..Len(w) : j # 1 => j - 1 \in 1..Len(p) /\ w[j] = p[j - 1]
  BY <1>2, <1>6, <1>b, ConsIndex
<1>8. /\ search'.mode = search.mode /\ search'.at = search.at /\ search'.dist = search.dist
      /\ search'.queue = search.queue /\ search'.path = w
  <2>1. search' = [mode |-> search.mode, at |-> search.at, dist |-> search.dist,
                   queue |-> search.queue, path |-> w]
    BY <1>1, <1>3, <1>b DEF SearchType, Search
  <2> QED BY <2>1
<1>9. UNCHANGED <<dagmapping, graph, stack, status, history, overtaken>>
  BY DEF StepBack
<1>10. \A i \in 1..Len(p) : search.dist[p[i]] \in Nat
  BY <1>1, <1>2 DEF SearchType
<1>11. \A i, j \in 1..Len(w) : i < j => search.dist[w[i]] < search.dist[w[j]]
  <2> SUFFICES ASSUME NEW i \in 1..Len(w), NEW j \in 1..Len(w), i < j
               PROVE  search.dist[w[i]] < search.dist[w[j]]
    OBVIOUS
  <2>1. j - 1 \in 1..Len(p) /\ w[j] = p[j - 1]
    BY <1>4, <1>7
  <2>2. search.dist[n] \in Nat
    BY <1>1, <1>5 DEF SearchType
  <2>3. search.dist[p[1]] <= search.dist[p[j - 1]]
    <3>1. 1 \in 1..Len(p) /\ j - 1 \in 1..Len(p)
      BY <1>4, <2>1
    <3>2. CASE j - 1 = 1
      BY <1>10, <3>1, <3>2
    <3>3. CASE j - 1 # 1
      <4>1. \A k, m \in 1..Len(p) : k < m => search.dist[p[k]] < search.dist[p[m]]
        BY <1>2
      <4>2. 1 < j - 1
        BY <3>1, <3>3
      <4>3. search.dist[p[1]] < search.dist[p[j - 1]]
        BY <3>1, <4>1, <4>2
      <4>4. search.dist[p[1]] \in Nat /\ search.dist[p[j - 1]] \in Nat
        BY <1>10, <3>1
      <4> QED BY <4>3, <4>4
    <3> QED BY <3>2, <3>3
  <2>4. CASE i = 1
    <3>1. w[i] = n /\ 1 \in 1..Len(p)
      BY <1>2, <1>4, <1>7, <2>4
    <3>2. search.dist[p[1]] \in Nat /\ search.dist[p[j - 1]] \in Nat
      BY <1>10, <2>1, <3>1
    <3> QED BY <1>5, <2>1, <2>2, <2>3, <3>1, <3>2
  <2>5. CASE i # 1
    <3>1. i - 1 \in 1..Len(p) /\ w[i] = p[i - 1] /\ i - 1 < j - 1
      BY <1>4, <1>7, <2>1, <2>5
    <3> QED BY <1>2, <2>1, <3>1
  <2> QED BY <2>4, <2>5
<1>12. \A i \in 1..Len(w) : Live(w[i]) /\ w[i] \in DOMAIN search.dist
  BY <1>2, <1>5, <1>6, <1>7
<1>13. Len(w) >= 1 /\ w[Len(w)] = frame.node
  BY <1>2, <1>4, <1>7
<1>14. frame' = frame /\ supsets' = supsets /\ \A i \in 1..Len(w) : Live(w[i])'
  BY <1>9, <1>12 DEF frame, Live, graph
<1>15. Walked'
  BY <1>8, <1>11, <1>12, <1>13, <1>14 DEF Walked
<1>16. SearchType'
  <2>1. search' = Search(search'.mode, search'.at, search'.dist, search'.queue, search'.path)
    BY <1>1, <1>3, <1>8 DEF SearchType, Search
  <2> QED BY <1>1, <1>8, <2>1 DEF SearchType
<1>17. SearchOK'
  BY <1>1, <1>8, <1>9, <1>14, <1>15
     DEF Inv, SearchOK, SearchOfFrame, SearchFrom, Queued, Live
<1> QED BY <1>9, <1>16, <1>17, SearchStep DEF Inv, OtherTypes

LEMMA SearchForEverInv ==
    ASSUME Inv, SearchForEver
    PROVE  Inv'
<1>1. UNCHANGED <<dagmapping, graph, stack, search, history, overtaken>> /\ status' = "looping"
  BY DEF SearchForEver
<1>2. SearchType' /\ SearchOK'
  BY <1>1 DEF Inv, SearchType, SearchOK, SearchOfFrame, SearchFrom, Queued, Walked, frame, Live, graph
<1> QED BY <1>1, <1>2, SearchStep

LEMMA UseDeletedInv ==
    ASSUME Inv, UseDeleted
    PROVE  Inv'
<1>1. UNCHANGED <<dagmapping, graph, stack, search, history, overtaken>> /\ status' = "undefined"
  BY DEF UseDeleted
<1>2. SearchType' /\ SearchOK'
  BY <1>1 DEF Inv, SearchType, SearchOK, SearchOfFrame, SearchFrom, Queued, Walked, frame, Live, graph
<1> QED BY <1>1, <1>2, SearchStep
-----------------------------------------------------------------------------
(* What AddEdge does, as the prover is to see it. *)
NoEdge(frames) == stack' = frames /\ UNCHANGED <<supsets, subsets, search>>

NewEdge(frames, m, k) ==
    /\ stack' = <<Frame(m)>> \o frames
    /\ Elems(stack') = {Frame(m)} \union Elems(frames)
    /\ search' = NewSearch
    /\ \A n \in ASTNode : supsets'[n] = IF n = m THEN supsets[n] \union {k} ELSE supsets[n]

LEMMA EdgeAdded ==
    ASSUME GraphOK, MappingGrows, SearchType, SearchOK, search.mode = "none",
           NEW frames \in Seq(Frames), NEW from \in ASTNode, NEW to \in ASTNode,
           Mapped(from)', Mapped(to)',
           AddEdge(dagmapping', frames, from, to),
           UNCHANGED <<bitvector, conditionalConstraints>>
    PROVE  /\ GraphOK' /\ StackType' /\ SearchType' /\ SearchOK'
           /\ \E m, k \in ASTNode :
                 /\ m = dagmapping'[from] /\ k = dagmapping'[to] /\ Live(m)' /\ Live(k)'
                 /\ m = k => NoEdge(frames)
                 /\ m # k => NewEdge(frames, m, k)
<1>1. PICK m \in ASTNode, k \in ASTNode :
          m = dagmapping'[from] /\ k = dagmapping'[to] /\ Live(m)' /\ Live(k)'
  BY DEF MappingGrows, Mapped, Live
<1>2. CASE m = k
  <2>1. stack' = frames /\ UNCHANGED <<supsets, subsets, search>>
    BY <1>1, <1>2 DEF AddEdge
  <2>2. GraphOK'
    BY <2>1, FieldsGraph DEF GraphOK, GraphType
  <2>3. SearchType' /\ SearchOK'
    BY <2>1 DEF SearchType, SearchOK, SearchOfFrame, SearchFrom, Queued, Walked
  <2>4. NoEdge(frames)
    BY <2>1 DEF NoEdge
  <2>5. StackType'
    BY <2>1 DEF StackType
  <2> QED BY <1>1, <1>2, <2>2, <2>3, <2>4, <2>5
<1>3. CASE m # k
  <2>1. Link(m, k) /\ stack' = <<Frame(m)>> \o frames /\ search' = NewSearch
    BY <1>1, <1>3 DEF AddEdge
  <2>2. /\ GraphOK'
        /\ \A n \in ASTNode : supsets'[n] = IF n = m THEN supsets[n] \union {k} ELSE supsets[n]
    BY <1>1, <1>3, <2>1, LinkGraph
  <2>3. /\ Frame(m) \in Frames /\ Frame(m).node = m
        /\ StackType' /\ stack' # << >> /\ Head(stack') = Frame(m)
        /\ Elems(stack') = {Frame(m)} \union Elems(frames)
    BY <2>1, FrameType, ElemsCons DEF StackType
  <2>4. /\ search'.mode = "choose" /\ search'.at = {} /\ search'.dist = << >>
        /\ search'.queue = << >> /\ search'.path = << >>
        /\ search' = Search(search'.mode, search'.at, search'.dist, search'.queue, search'.path)
    BY <2>1 DEF NewSearch, Search
  <2>5. SearchType'
    BY <2>4 DEF SearchType
  <2>6. SearchOK'
    BY <1>1, <2>3, <2>4 DEF SearchOK, SearchOfFrame, SearchFrom, Queued, Walked, frame, Live
  <2>7. NewEdge(frames, m, k)
    BY <2>1, <2>2, <2>3 DEF NewEdge
  <2> QED BY <1>1, <1>3, <2>2, <2>3, <2>5, <2>6, <2>7
<1> QED BY <1>2, <1>3

LEMMA WaitingTypes ==
    ASSUME Inv
    PROVE  /\ \A n \in ASTNode, f \in Fn : conditionalConstraints[n][f] \in Seq(ASTNode \X ASTNode)
           /\ \A n \in ASTNode, f \in Fn :
                 \A x \in Elems(conditionalConstraints[n][f]) : x[1] \in ASTNode /\ x[2] \in ASTNode
           /\ \A fr \in Elems(stack) :
                 /\ fr \in Frames
                 /\ \A x \in Elems(fr.todo) : x[1] \in ASTNode /\ x[2] \in ASTNode
<1>1. \A n \in ASTNode, f \in Fn : conditionalConstraints[n][f] \in Seq(ASTNode \X ASTNode)
  BY DEF Inv, GraphOK, GraphType
<1>2. \A s \in Seq(ASTNode \X ASTNode) : Elems(s) \subseteq ASTNode \X ASTNode
  BY ElemsType
<1>3. Elems(stack) \subseteq Frames
  BY ElemsType DEF Inv, StackType
<1>4. \A fr \in Frames : fr.todo \in Seq(ASTNode \X ASTNode)
  BY DEF Frames
<1>5. \A x \in ASTNode \X ASTNode : x[1] \in ASTNode /\ x[2] \in ASTNode
  OBVIOUS
<1> QED BY <1>1, <1>2, <1>3, <1>4, <1>5

LEMMA PointsKept ==
    ASSUME Inv, MappingGrows
    PROVE  /\ \A r \in added :
                 /\ r.op = "element" => Mapped(r.in)'
                 /\ r.op = "subset" => Mapped(r.from)' /\ Mapped(r.to)'
                 /\ r.op = "conditional" => Mapped(r.in)' /\ Mapped(r.from)' /\ Mapped(r.to)'
           /\ \A n \in ASTNode, f \in Fn :
                 \A x \in Elems(conditionalConstraints[n][f]) : MappedPair(x)'
           /\ \A fr \in Elems(stack) : \A x \in Elems(fr.todo) : MappedPair(x)'
<1>1. \A p \in ASTNode : Mapped(p) => Mapped(p)'
  BY DEF MappingGrows
<1>2. \A r \in added : r \in Requests
  BY DEF Inv, OtherTypes
<1>3. ASSUME NEW r \in added
      PROVE  /\ r.op = "element" => Mapped(r.in)'
             /\ r.op = "subset" => Mapped(r.from)' /\ Mapped(r.to)'
             /\ r.op = "conditional" => Mapped(r.in)' /\ Mapped(r.from)' /\ Mapped(r.to)'
  BY <1>1, <1>2, RequestTypes DEF Inv, Points
<1>4. ASSUME NEW n \in ASTNode, NEW f \in Fn, NEW x \in Elems(conditionalConstraints[n][f])
      PROVE  MappedPair(x)'
  <2>1. x[1] \in ASTNode /\ x[2] \in ASTNode /\ Mapped(x[1]) /\ Mapped(x[2])
    BY WaitingTypes DEF Inv, Points, MappedPair
  <2> QED BY <1>1, <2>1 DEF MappedPair
<1>5. ASSUME NEW fr \in Elems(stack), NEW x \in Elems(fr.todo)
      PROVE  MappedPair(x)'
  <2>1. x[1] \in ASTNode /\ x[2] \in ASTNode /\ Mapped(x[1]) /\ Mapped(x[2])
    BY WaitingTypes DEF Inv, Points, MappedPair
  <2> QED BY <1>1, <2>1 DEF MappedPair
<1> QED BY <1>3, <1>4, <1>5

LEMMA Taking ==
    ASSUME Inv, NEW r \in Requests, NEW points \in SUBSET ASTNode, Take(r, points)
    PROVE  /\ GraphOK /\ SearchType /\ SearchOK /\ search.mode = "none"
           /\ MappingGrows
           /\ \A p \in points : Mapped(p)' /\ Live(dagmapping[p])'
           /\ OtherTypes' /\ added' = added \union {r}
           /\ stack = << >> /\ status = "defined" /\ status' = status /\ overtaken' = overtaken
<1>1. stack = << >> /\ status = "defined" /\ GraphOK /\ SearchType /\ SearchOK
  BY DEF Take, Ready, Inv
<1>2. search.mode = "none"
  BY <1>1 DEF SearchOK, SearchOfFrame
<1>3. dagmapping' = addEmptyVariableIfNecessary(points)
  BY DEF Take
<1>4. MappingGrows /\ \A p \in points : Mapped(p)' /\ Live(dagmapping[p])'
  BY <1>1, <1>3, EmptyVariables
<1>5. OtherTypes' /\ added' = added \union {r} /\ status' = status /\ overtaken' = overtaken
  BY MaxRequestsAssumption DEF Take, Inv, OtherTypes
<1> QED BY <1>1, <1>2, <1>4, <1>5

LEMMA SingleFrame ==
    ASSUME NEW n \in ASTNode, stack' = <<Frame(n)>>
    PROVE  StackType' /\ stack' # << >> /\ Head(stack') = Frame(n) /\ Elems(stack') = {Frame(n)}
<1>1. Frame(n) \in Frames
  BY FrameType
<1> QED BY <1>1 DEF StackType, Elems

LEMMA addElementofConstraintInv ==
    ASSUME Inv, NEW r \in Requests, addElementofConstraint(r)
    PROVE  Inv'
<1>1. /\ r.op = "element" /\ r.in \in ASTNode /\ r.fn \in Fn /\ Take(r, {r.in})
      /\ UNCHANGED <<supsets, subsets, conditionalConstraints, search>>
  BY RequestTypes DEF addElementofConstraint
<1>2. /\ GraphOK /\ SearchType /\ SearchOK /\ search.mode = "none" /\ MappingGrows
      /\ Mapped(r.in)' /\ OtherTypes' /\ added' = added \union {r}
  <2>1. {r.in} \in SUBSET ASTNode /\ r.in \in {r.in}
    BY <1>1
  <2> QED BY <1>1, <2>1, Taking
<1>3. PICK n \in ASTNode : n = dagmapping'[r.in] /\ Live(n)'
  BY <1>1, <1>2 DEF MappingGrows, Mapped, Live
<1>4. /\ bitvector' = [bitvector EXCEPT ![n] = @ \union {r.fn}] /\ stack' = <<Frame(n)>>
  BY <1>3 DEF addElementofConstraint
<1>5. StackType' /\ Elems(stack') = {Frame(n)}
  BY <1>4, SingleFrame
<1>6. GraphOK'
  <2>1. /\ bitvector' \in [ASTNode -> SUBSET Fn]
        /\ \A k \in ASTNode : k # n => bitvector'[k] = bitvector[k]
    BY <1>1, <1>2, <1>4 DEF GraphOK, GraphType
  <2>2. \A k \in ASTNode : ~Live(k)' => k # n
    BY <1>3
  <2> QED BY <1>1, <1>2, <2>1, <2>2, FieldsGraph DEF GraphOK, GraphType
<1>7. SearchType' /\ SearchOK'
  BY <1>1, <1>2 DEF SearchType, SearchOK, SearchOfFrame, SearchFrom, Queued, Walked
<1>8. Points'
  <2>1. Elems(Frame(n).todo) = {}
    BY FrameType, NoElems
  <2>2. \A fr \in Elems(stack') : \A x \in Elems(fr.todo) : MappedPair(x)'
    BY <1>5, <2>1
  <2>3. \A m \in ASTNode, f \in Fn : \A x \in Elems(conditionalConstraints'[m][f]) : MappedPair(x)'
    BY <1>1, <1>2, PointsKept
  <2>4. \A q \in added' :
            /\ q.op = "element" => Mapped(q.in)'
            /\ q.op = "subset" => Mapped(q.from)' /\ Mapped(q.to)'
            /\ q.op = "conditional" => Mapped(q.in)' /\ Mapped(q.from)' /\ Mapped(q.to)'
    BY <1>1, <1>2, PointsKept
  <2> QED BY <2>2, <2>3, <2>4 DEF Points
<1> QED BY <1>2, <1>5, <1>6, <1>7, <1>8 DEF Inv

(* The list of a node for a function, extended.                          *)
Extended(n, e, x) ==
    [conditionalConstraints EXCEPT
        ![n] = [conditionalConstraints[n] EXCEPT ![e] = Append(conditionalConstraints[n][e], x)]]

(* What the constraint a list is extended by changes. *)
LEMMA ListUpdated ==
    ASSUME Inv, NEW n \in ASTNode, NEW e \in Fn, NEW x \in ASTNode \X ASTNode,
           conditionalConstraints' = Extended(n, e, x)
    PROVE  \E s \in Seq(ASTNode \X ASTNode) :
               /\ Elems(s) = Elems(conditionalConstraints[n][e]) \union {x}
               /\ \A k \in ASTNode, f \in Fn :
                     conditionalConstraints'[k][f] = IF k = n /\ f = e THEN s ELSE conditionalConstraints[k][f]
               /\ conditionalConstraints' \in [ASTNode -> [Fn -> Seq(ASTNode \X ASTNode)]]
               /\ \A k \in ASTNode : k # n => conditionalConstraints'[k] = conditionalConstraints[k]
<1>1. conditionalConstraints \in [ASTNode -> [Fn -> Seq(ASTNode \X ASTNode)]]
  BY DEF Inv, GraphOK, GraphType
<1>2. conditionalConstraints[n][e] \in Seq(ASTNode \X ASTNode)
  BY <1>1
<1>a. /\ Append(conditionalConstraints[n][e], x) \in Seq(ASTNode \X ASTNode)
      /\ Elems(Append(conditionalConstraints[n][e], x))
            = Elems(conditionalConstraints[n][e]) \union {x}
  <2>2. PICK s \in Seq(ASTNode \X ASTNode) : s = conditionalConstraints[n][e]
    BY <1>2
  <2>3. Append(s, x) \in Seq(ASTNode \X ASTNode) /\ Elems(Append(s, x)) = Elems(s) \union {x}
    BY ElemsAppend
  <2> QED BY <2>2, <2>3
<1>3. PICK s \in Seq(ASTNode \X ASTNode) :
          /\ s = Append(conditionalConstraints[n][e], x)
          /\ Elems(s) = Elems(conditionalConstraints[n][e]) \union {x}
  BY <1>a
<1>4. conditionalConstraints' = [conditionalConstraints EXCEPT ![n][e] = s]
  BY <1>1, <1>3 DEF Extended
<1>5. /\ conditionalConstraints' \in [ASTNode -> [Fn -> Seq(ASTNode \X ASTNode)]]
      /\ \A k \in ASTNode : k # n => conditionalConstraints'[k] = conditionalConstraints[k]
      /\ conditionalConstraints'[n] = [conditionalConstraints[n] EXCEPT ![e] = s]
  <2>1. [conditionalConstraints[n] EXCEPT ![e] = s] \in [Fn -> Seq(ASTNode \X ASTNode)]
    BY <1>1
  <2> QED BY <1>1, <1>4, <2>1
<1>6. \A k \in ASTNode, f \in Fn :
          conditionalConstraints'[k][f] = IF k = n /\ f = e THEN s ELSE conditionalConstraints[k][f]
  BY <1>1, <1>5
<1> QED BY <1>3, <1>5, <1>6

LEMMA ListExtended ==
    ASSUME Inv, NEW n \in ASTNode, NEW e \in Fn, NEW x \in ASTNode \X ASTNode,
           conditionalConstraints' = Extended(n, e, x)
    PROVE  /\ conditionalConstraints' \in [ASTNode -> [Fn -> Seq(ASTNode \X ASTNode)]]
           /\ \A k \in ASTNode : k # n => conditionalConstraints'[k] = conditionalConstraints[k]
<1>1. \E s \in Seq(ASTNode \X ASTNode) :
          /\ Elems(s) = Elems(conditionalConstraints[n][e]) \union {x}
          /\ \A k \in ASTNode, f \in Fn :
                conditionalConstraints'[k][f] = IF k = n /\ f = e THEN s ELSE conditionalConstraints[k][f]
          /\ conditionalConstraints' \in [ASTNode -> [Fn -> Seq(ASTNode \X ASTNode)]]
          /\ \A k \in ASTNode : k # n => conditionalConstraints'[k] = conditionalConstraints[k]
  BY ListUpdated, Zenon
<1> QED BY <1>1, Zenon

LEMMA ElemsExtended ==
    ASSUME Inv, NEW n \in ASTNode, NEW e \in Fn, NEW x \in ASTNode \X ASTNode,
           conditionalConstraints' = Extended(n, e, x)
    PROVE  \A k \in ASTNode, f \in Fn : \A y :
               y \in Elems(conditionalConstraints'[k][f]) <=>
                   y \in Elems(conditionalConstraints[k][f]) \/ (k = n /\ f = e /\ y = x)
<1>1. \E s \in Seq(ASTNode \X ASTNode) :
          /\ Elems(s) = Elems(conditionalConstraints[n][e]) \union {x}
          /\ \A k \in ASTNode, f \in Fn :
                conditionalConstraints'[k][f] = IF k = n /\ f = e THEN s ELSE conditionalConstraints[k][f]
          /\ conditionalConstraints' \in [ASTNode -> [Fn -> Seq(ASTNode \X ASTNode)]]
          /\ \A k \in ASTNode : k # n => conditionalConstraints'[k] = conditionalConstraints[k]
  BY ListUpdated, Zenon
<1>3. PICK s \in Seq(ASTNode \X ASTNode) :
          /\ Elems(s) = Elems(conditionalConstraints[n][e]) \union {x}
          /\ \A k \in ASTNode, f \in Fn :
                conditionalConstraints'[k][f] = IF k = n /\ f = e THEN s ELSE conditionalConstraints[k][f]
  BY <1>1, Zenon
<1>7. ASSUME NEW k \in ASTNode, NEW f \in Fn, NEW y
      PROVE  y \in Elems(conditionalConstraints'[k][f]) <=>
                 y \in Elems(conditionalConstraints[k][f]) \/ (k = n /\ f = e /\ y = x)
  <2>1. CASE k = n /\ f = e
    <3>1. conditionalConstraints'[k][f] = s
      BY <1>3, <2>1
    <3>2. Elems(conditionalConstraints'[k][f]) = Elems(s)
      BY <3>1, Zenon
    <3>3. Elems(s) = Elems(conditionalConstraints[k][f]) \union {x}
      BY <1>3, <2>1, Zenon
    <3> QED BY <2>1, <3>2, <3>3
  <2>2. CASE ~(k = n /\ f = e)
    <3>1. conditionalConstraints'[k][f] = conditionalConstraints[k][f]
      BY <1>3, <2>2
    <3>2. Elems(conditionalConstraints'[k][f]) = Elems(conditionalConstraints[k][f])
      BY <3>1, Zenon
    <3> QED BY <2>2, <3>2
  <2> QED BY <2>1, <2>2
<1> QED BY <1>7

LEMMA addConditionalConstraintInv ==
    ASSUME Inv, NEW r \in Requests, addConditionalConstraint(r)
    PROVE  Inv'
<1>1. /\ r.op = "conditional" /\ r.in \in ASTNode /\ r.fn \in Fn
      /\ r.from \in ASTNode /\ r.to \in ASTNode
      /\ Take(r, {r.in, r.from, r.to})
      /\ UNCHANGED <<supsets, subsets, bitvector, search>>
  BY RequestTypes DEF addConditionalConstraint
<1>2. /\ GraphOK /\ SearchType /\ SearchOK /\ search.mode = "none" /\ MappingGrows
      /\ Mapped(r.in)' /\ Mapped(r.from)' /\ Mapped(r.to)'
      /\ OtherTypes' /\ added' = added \union {r}
  <2>1. {r.in, r.from, r.to} \in SUBSET ASTNode
    BY <1>1
  <2> QED BY <1>1, <2>1, Taking
<1>3. PICK n \in ASTNode : n = dagmapping'[r.in] /\ Live(n)'
  BY <1>1, <1>2 DEF MappingGrows, Mapped, Live
<1>4. /\ conditionalConstraints' =
            [conditionalConstraints EXCEPT ![n][r.fn] = Append(@, <<r.from, r.to>>)]
      /\ stack' = <<Frame(n)>>
  BY <1>3 DEF addConditionalConstraint
<1>5. StackType' /\ Elems(stack') = {Frame(n)}
  BY <1>4, SingleFrame
<1>6. /\ conditionalConstraints' \in [ASTNode -> [Fn -> Seq(ASTNode \X ASTNode)]]
      /\ \A k \in ASTNode : k # n => conditionalConstraints'[k] = conditionalConstraints[k]
      /\ \A k \in ASTNode, f \in Fn : \A y :
            y \in Elems(conditionalConstraints'[k][f]) <=>
                y \in Elems(conditionalConstraints[k][f]) \/ (k = n /\ f = r.fn /\ y = <<r.from, r.to>>)
  <2>1. PICK e \in Fn, x \in ASTNode \X ASTNode : e = r.fn /\ x = <<r.from, r.to>>
    BY <1>1
  <2>2. conditionalConstraints' = Extended(n, e, x)
    BY <1>1, <1>2, <1>4, <2>1 DEF GraphOK, GraphType, Extended
  <2>3. \A k \in ASTNode, f \in Fn : \A y :
            y \in Elems(conditionalConstraints'[k][f]) <=>
                y \in Elems(conditionalConstraints[k][f]) \/ (k = n /\ f = e /\ y = x)
    BY <2>2, ElemsExtended, Zenon
  <2>6. /\ conditionalConstraints' \in [ASTNode -> [Fn -> Seq(ASTNode \X ASTNode)]]
        /\ \A k \in ASTNode : k # n => conditionalConstraints'[k] = conditionalConstraints[k]
    BY <2>2, ListExtended
  <2>4. \A y : y = x <=> y = <<r.from, r.to>>
    BY <2>1
  <2>5. ASSUME NEW k \in ASTNode, NEW f \in Fn, NEW y
        PROVE  y \in Elems(conditionalConstraints'[k][f]) <=>
                   y \in Elems(conditionalConstraints[k][f]) \/ (k = n /\ f = r.fn /\ y = <<r.from, r.to>>)
    <3>1. y \in Elems(conditionalConstraints'[k][f]) <=>
              y \in Elems(conditionalConstraints[k][f]) \/ (k = n /\ f = e /\ y = x)
      BY <2>3
    <3>2. y = x <=> y = <<r.from, r.to>>
      BY <2>4, Zenon
    <3> QED BY <2>1, <3>1, <3>2
  <2> QED BY <2>5, <2>6, Zenon
<1>7. GraphOK'
  <2>1. \A k \in ASTNode : ~Live(k)' => k # n
    BY <1>3
  <2> QED BY <1>1, <1>2, <1>6, <2>1, FieldsGraph DEF GraphOK, GraphType
<1>8. SearchType' /\ SearchOK'
  BY <1>1, <1>2 DEF SearchType, SearchOK, SearchOfFrame, SearchFrom, Queued, Walked
<1>9. Points'
  <2>1. Elems(Frame(n).todo) = {}
    BY FrameType, NoElems
  <2>2. \A fr \in Elems(stack') : \A x \in Elems(fr.todo) : MappedPair(x)'
    BY <1>5, <2>1
  <2>3. MappedPair(<<r.from, r.to>>)'
    BY <1>2 DEF MappedPair
  <2>4. ASSUME NEW m \in ASTNode, NEW f \in Fn, NEW x \in Elems(conditionalConstraints'[m][f])
        PROVE  MappedPair(x)'
    <3>1. x \in Elems(conditionalConstraints[m][f]) \/ x = <<r.from, r.to>>
      BY <1>6
    <3>2. x \in Elems(conditionalConstraints[m][f]) => MappedPair(x)'
      BY <1>2, PointsKept
    <3> QED BY <2>3, <3>1, <3>2
  <2>5. \A q \in added' :
            /\ q.op = "element" => Mapped(q.in)'
            /\ q.op = "subset" => Mapped(q.from)' /\ Mapped(q.to)'
            /\ q.op = "conditional" => Mapped(q.in)' /\ Mapped(q.from)' /\ Mapped(q.to)'
    BY <1>1, <1>2, PointsKept
  <2> QED BY <2>2, <2>4, <2>5 DEF Points
<1> QED BY <1>2, <1>5, <1>7, <1>8, <1>9 DEF Inv

LEMMA addSubseteqConstraintInv ==
    ASSUME Inv, NEW r \in Requests, addSubseteqConstraint(r)
    PROVE  Inv'
<1>1. /\ r.op = "subset" /\ r.from \in ASTNode /\ r.to \in ASTNode
      /\ Take(r, {r.from, r.to})
      /\ AddEdge(dagmapping', << >>, r.from, r.to)
      /\ UNCHANGED <<bitvector, conditionalConstraints>>
  BY RequestTypes DEF addSubseteqConstraint
<1>2. /\ GraphOK /\ SearchType /\ SearchOK /\ search.mode = "none" /\ MappingGrows
      /\ Mapped(r.from)' /\ Mapped(r.to)'
      /\ OtherTypes' /\ added' = added \union {r}
  <2>1. {r.from, r.to} \in SUBSET ASTNode
    BY <1>1
  <2> QED BY <1>1, <2>1, Taking
<1>3. << >> \in Seq(Frames)
  OBVIOUS
<1>4. /\ GraphOK' /\ StackType' /\ SearchType' /\ SearchOK'
  BY <1>1, <1>2, <1>3, EdgeAdded
<1>a. PICK m \in ASTNode : stack' = << >> \/ Elems(stack') = {Frame(m)} \union Elems(<< >>)
  <2>1. PICK frames \in Seq(Frames) : frames = << >>
    BY <1>3
  <2>2. AddEdge(dagmapping', frames, r.from, r.to)
    BY <1>1, <2>1
  <2>3. \E m, k \in ASTNode :
            /\ m = dagmapping'[r.from] /\ k = dagmapping'[r.to] /\ Live(m)' /\ Live(k)'
            /\ m = k => NoEdge(frames)
            /\ m # k => NewEdge(frames, m, k)
    BY <1>1, <1>2, <2>2, EdgeAdded
  <2> QED BY <2>1, <2>3 DEF NoEdge, NewEdge
<1>5. Points'
  <2>1. Elems(Frame(m).todo) = {}
    BY FrameType, NoElems
  <2>2. \A fr \in Elems(stack') : \A x \in Elems(fr.todo) : MappedPair(x)'
    BY <1>a, <2>1, NoElems
  <2>3. \A k \in ASTNode, f \in Fn : \A x \in Elems(conditionalConstraints'[k][f]) : MappedPair(x)'
    BY <1>1, <1>2, PointsKept
  <2>4. \A q \in added' :
            /\ q.op = "element" => Mapped(q.in)'
            /\ q.op = "subset" => Mapped(q.from)' /\ Mapped(q.to)'
            /\ q.op = "conditional" => Mapped(q.in)' /\ Mapped(q.from)' /\ Mapped(q.to)'
    BY <1>1, <1>2, PointsKept
  <2> QED BY <2>2, <2>3, <2>4 DEF Points
<1> QED BY <1>2, <1>4, <1>5 DEF Inv
-----------------------------------------------------------------------------
LEMMA FrameExcept ==
    ASSUME NEW fr \in Frames
    PROVE  /\ \A n \in ASTNode :
                 LET f == [fr EXCEPT !.node = n]
                 IN  f \in Frames /\ f = [node |-> n, fns |-> fr.fns, todo |-> fr.todo, at |-> fr.at]
           /\ \A F \in SUBSET Fn :
                 LET f == [fr EXCEPT !.fns = F]
                 IN  f \in Frames /\ f = [node |-> fr.node, fns |-> F, todo |-> fr.todo, at |-> fr.at]
           /\ \A t \in Seq(ASTNode \X ASTNode) :
                 LET f == [fr EXCEPT !.todo = t]
                 IN  f \in Frames /\ f = [node |-> fr.node, fns |-> fr.fns, todo |-> t, at |-> fr.at]
           /\ \A A \in SUBSET ASTNode :
                 LET f == [fr EXCEPT !.at = A]
                 IN  f \in Frames /\ f = [node |-> fr.node, fns |-> fr.fns, todo |-> fr.todo, at |-> A]
BY DEF Frames

(* The innermost frame of a propagation. *)
LEMMA TopFrame ==
    ASSUME Inv, stack # << >>
    PROVE  /\ frame \in Frames /\ Tail(stack) \in Seq(Frames)
           /\ frame.node \in ASTNode /\ frame.fns \subseteq Fn /\ frame.at \subseteq ASTNode
           /\ frame.todo \in Seq(ASTNode \X ASTNode)
           /\ frame \in Elems(stack)
           /\ Elems(stack) = {frame} \union Elems(Tail(stack))
           /\ frame = [node |-> frame.node, fns |-> frame.fns, todo |-> frame.todo, at |-> frame.at]
<1>1. frame \in Frames /\ Tail(stack) \in Seq(Frames) /\ Elems(stack) = {frame} \union Elems(Tail(stack))
  BY ElemsTail DEF Inv, StackType, frame
<1> QED BY <1>1 DEF Frames

LEMMA Replaced ==
    ASSUME Inv, stack # << >>, NEW f \in Frames, stack' = Replace(f)
    PROVE  /\ StackType' /\ stack' # << >> /\ Head(stack') = f /\ Tail(stack') = Tail(stack)
           /\ Elems(stack') = {f} \union Elems(Tail(stack))
BY TopFrame, ElemsCons DEF Replace, StackType

LEMMA Pushed ==
    ASSUME Inv, stack # << >>, NEW e \in Frames, NEW f \in Frames, stack' = <<e>> \o Replace(f)
    PROVE  /\ StackType' /\ stack' # << >> /\ Head(stack') = e
           /\ Elems(stack') = {e, f} \union Elems(Tail(stack))
<1>1. PICK s \in Seq(Frames) : s = Replace(f) /\ Elems(s) = {f} \union Elems(Tail(stack))
  BY TopFrame, ElemsCons DEF Replace
<1>2. stack' = <<e>> \o s
  BY <1>1
<1> QED BY <1>1, <1>2, ElemsCons DEF StackType

LEMMA ReturnInv ==
    ASSUME Inv, Return
    PROVE  Inv'
<1>1. stack # << >> /\ search.mode = "none" /\ stack' = Tail(stack)
      /\ UNCHANGED <<dagmapping, graph, search, status, history, overtaken>>
  BY DEF Return, Looping, Running, Searching, Busy
<1>2. StackType' /\ Elems(stack') \subseteq Elems(stack)
  BY <1>1, TopFrame DEF StackType
<1>3. GraphOK' /\ SearchType' /\ OtherTypes'
  BY <1>1 DEF Inv, GraphOK, GraphType, NodesAreLive, Mirrored, Live, graph, SearchType, OtherTypes, history
<1>4. SearchOK'
  BY <1>1 DEF SearchOK, SearchOfFrame, SearchFrom, Queued, Walked
<1>5. Points'
  BY <1>1, <1>2 DEF Inv, Points, Mapped, MappedPair, graph, history
<1> QED BY <1>2, <1>3, <1>4, <1>5 DEF Inv

(* What the loops of the innermost frame do. *)
(* What a turn of the loop over the supsets does.                        *)
LEMMA SupersetTaken ==
    ASSUME Inv, NextSuperset
    PROVE  \E n, s \in ASTNode, f \in Frames :
              /\ n = frame.node /\ Live(n) /\ s \in supsets[n] /\ Live(s) /\ s # n
              /\ s \in First(Remaining) /\ frame.fns = {} /\ frame.todo = << >>
              /\ f = [node |-> n, fns |-> {}, todo |-> << >>, at |-> {s}]
              /\ stack # << >> /\ search.mode = "none"
              /\ bitvector' \in [ASTNode -> SUBSET Fn]
              /\ \A k \in ASTNode :
                    bitvector'[k] = IF k = s THEN bitvector[s] \union bitvector[n] ELSE bitvector[k]
              /\ StackType' /\ Elems(stack') = {Frame(s), f} \union Elems(Tail(stack))
              /\ UNCHANGED <<dagmapping, supsets, subsets, conditionalConstraints, search>>
              /\ UNCHANGED <<status, history, overtaken>>
<1>1. /\ stack # << >> /\ search.mode = "none" /\ Live(frame.node)
      /\ frame.fns = {} /\ frame.todo = << >>
      /\ UNCHANGED <<dagmapping, supsets, subsets, conditionalConstraints, search>>
      /\ UNCHANGED <<status, history, overtaken>>
  BY DEF NextSuperset, Looping, Running, Searching, Busy
<1>2. PICK s \in First(Remaining) :
          /\ bitvector' = [bitvector EXCEPT ![s] = @ \union bitvector[frame.node]]
          /\ stack' = <<Frame(s)>> \o Replace([frame EXCEPT !.at = {s}])
  BY DEF NextSuperset
<1>3. PICK n \in ASTNode : n = frame.node
  BY <1>1, TopFrame
<1>4. s \in supsets[n] /\ s \in ASTNode /\ Live(s) /\ s # n
  <2>1. s \in supsets[n]
    BY <1>3 DEF First, Remaining, After
  <2> QED BY <2>1 DEF Inv, GraphOK, GraphType, NodesAreLive
<1>5. PICK f \in Frames :
          /\ f = [frame EXCEPT !.at = {s}]
          /\ f = [node |-> n, fns |-> {}, todo |-> << >>, at |-> {s}]
  <2>1. frame \in Frames /\ {s} \in SUBSET ASTNode
    BY <1>1, <1>4, TopFrame
  <2>2. [frame EXCEPT !.at = {s}] \in Frames
    BY <2>1, FrameExcept
  <2>3. [frame EXCEPT !.at = {s}] = [node |-> frame.node, fns |-> frame.fns, todo |-> frame.todo, at |-> {s}]
    BY <2>1, FrameExcept
  <2> QED BY <1>1, <1>3, <2>2, <2>3
<1>6. Frame(s) \in Frames
  BY <1>4, FrameType
<1>7. StackType' /\ Elems(stack') = {Frame(s), f} \union Elems(Tail(stack))
  BY <1>1, <1>2, <1>5, <1>6, Pushed
<1>8. /\ bitvector' \in [ASTNode -> SUBSET Fn]
      /\ \A k \in ASTNode :
            bitvector'[k] = IF k = s THEN bitvector[s] \union bitvector[n] ELSE bitvector[k]
  BY <1>2, <1>3, <1>4 DEF Inv, GraphOK, GraphType
<1> QED BY <1>1, <1>2, <1>3, <1>4, <1>5, <1>7, <1>8

LEMMA NextSupersetInv ==
    ASSUME Inv, NextSuperset
    PROVE  Inv'
<1>1. PICK n \in ASTNode, s \in ASTNode, f \in Frames :
              /\ n = frame.node /\ Live(n) /\ s \in supsets[n] /\ Live(s) /\ s # n
              /\ f = [node |-> n, fns |-> {}, todo |-> << >>, at |-> {s}]
              /\ stack # << >> /\ search.mode = "none"
              /\ bitvector' \in [ASTNode -> SUBSET Fn]
              /\ \A k \in ASTNode :
                    bitvector'[k] = IF k = s THEN bitvector[s] \union bitvector[n] ELSE bitvector[k]
              /\ StackType' /\ Elems(stack') = {Frame(s), f} \union Elems(Tail(stack))
              /\ UNCHANGED <<dagmapping, supsets, subsets, conditionalConstraints, search>>
              /\ UNCHANGED <<status, history, overtaken>>
  BY SupersetTaken
<1>2. GraphOK'
  <2>1. MappingGrows
    BY <1>1, MappingStays DEF Inv
  <2>2. \A k \in ASTNode : ~Live(k)' => bitvector'[k] = bitvector[k]
    BY <1>1 DEF Live
  <2> QED BY <1>1, <2>1, <2>2, FieldsGraph DEF Inv, GraphOK, GraphType
<1>3. SearchType' /\ SearchOK' /\ OtherTypes'
  BY <1>1 DEF Inv, SearchType, SearchOK, SearchOfFrame, SearchFrom, Queued, Walked, OtherTypes, history
<1>4. Points'
  <2>1. Elems(Frame(s).todo) = {} /\ Elems(f.todo) = {}
    BY <1>1, FrameType, NoElems
  <2>2. \A fr \in Elems(stack') : \A x \in Elems(fr.todo) : MappedPair(x)
    BY <1>1, <2>1, TopFrame DEF Inv, Points
  <2> QED BY <1>1, <2>2 DEF Inv, Points, Mapped, MappedPair, history
<1> QED BY <1>1, <1>2, <1>3, <1>4 DEF Inv

(* What a turn of the loop over the functions does.                      *)
LEMMA FunctionTaken ==
    ASSUME Inv, NextFunction
    PROVE  \E n \in ASTNode, f \in Fn, rest \in Frames :
              /\ n = frame.node /\ f \in frame.fns /\ Live(n)
              /\ stack # << >> /\ search.mode = "none" /\ frame.todo = << >>
              /\ rest.node = n /\ rest.fns = frame.fns \ {f} /\ rest.at = frame.at
              /\ rest.todo = IF f \in bitvector[n] THEN conditionalConstraints[n][f] ELSE << >>
              /\ StackType' /\ Elems(stack') = {rest} \union Elems(Tail(stack))
              /\ conditionalConstraints' \in [ASTNode -> [Fn -> Seq(ASTNode \X ASTNode)]]
              /\ \A k \in ASTNode : k # n => conditionalConstraints'[k] = conditionalConstraints[k]
              /\ \A k \in ASTNode, e \in Fn :
                    conditionalConstraints'[k][e] =
                        IF k = n /\ e = f /\ f \in bitvector[n] THEN << >>
                        ELSE conditionalConstraints[k][e]
              /\ UNCHANGED <<dagmapping, supsets, subsets, bitvector, search, status, history, overtaken>>
<1>1. /\ stack # << >> /\ search.mode = "none" /\ Live(frame.node) /\ frame.todo = << >>
      /\ UNCHANGED <<dagmapping, supsets, subsets, bitvector, search, status, history, overtaken>>
  BY DEF NextFunction, Running, Searching, Busy
<1>2. PICK n \in ASTNode, f \in Fn :
          /\ n = frame.node /\ f \in frame.fns
          /\ IF f \in bitvector[n]
             THEN /\ stack' = Replace([[frame EXCEPT !.fns = @ \ {f}]
                                          EXCEPT !.todo = conditionalConstraints[n][f]])
                  /\ conditionalConstraints' = [conditionalConstraints EXCEPT ![n][f] = << >>]
             ELSE /\ stack' = Replace([frame EXCEPT !.fns = @ \ {f}])
                  /\ UNCHANGED conditionalConstraints
  BY <1>1, TopFrame DEF NextFunction, First
<1>3. conditionalConstraints \in [ASTNode -> [Fn -> Seq(ASTNode \X ASTNode)]]
  BY DEF Inv, GraphOK, GraphType
<1>4. PICK rest \in Frames :
          /\ rest.node = n /\ rest.fns = frame.fns \ {f} /\ rest.at = frame.at
          /\ rest.todo = IF f \in bitvector[n] THEN conditionalConstraints[n][f] ELSE << >>
          /\ stack' = Replace(rest)
  <2>1. /\ conditionalConstraints[n][f] \in Seq(ASTNode \X ASTNode)
        /\ frame.fns \ {f} \in SUBSET Fn
    BY <1>1, <1>3, TopFrame
  <2>2. PICK a \in Frames :
            /\ a = [frame EXCEPT !.fns = @ \ {f}]
            /\ a = [node |-> frame.node, fns |-> frame.fns \ {f}, todo |-> frame.todo, at |-> frame.at]
    BY <1>1, <2>1, TopFrame, FrameExcept
  <2>3. PICK b \in Frames :
            /\ b = [a EXCEPT !.todo = conditionalConstraints[n][f]]
            /\ b = [node |-> a.node, fns |-> a.fns, todo |-> conditionalConstraints[n][f], at |-> a.at]
    BY <2>1, FrameExcept
  <2>5. CASE f \in bitvector[n]
    <3>1. stack' = Replace(b)
      BY <1>2, <2>2, <2>3, <2>5
    <3> QED BY <1>2, <2>2, <2>3, <2>5, <3>1
  <2>6. CASE f \notin bitvector[n]
    <3>1. stack' = Replace(a)
      BY <1>2, <2>2, <2>6
    <3> QED BY <1>1, <1>2, <2>2, <2>6, <3>1
  <2> QED BY <2>5, <2>6
<1>5. StackType' /\ Elems(stack') = {rest} \union Elems(Tail(stack))
  BY <1>1, <1>4, Replaced
<1>6. /\ conditionalConstraints' \in [ASTNode -> [Fn -> Seq(ASTNode \X ASTNode)]]
      /\ \A k \in ASTNode : k # n => conditionalConstraints'[k] = conditionalConstraints[k]
      /\ \A k \in ASTNode, e \in Fn :
            conditionalConstraints'[k][e] =
                IF k = n /\ e = f /\ f \in bitvector[n] THEN << >> ELSE conditionalConstraints[k][e]
  <2>1. CASE f \in bitvector[n]
    <3>1. << >> \in Seq(ASTNode \X ASTNode)
      OBVIOUS
    <3>2. conditionalConstraints' = [conditionalConstraints EXCEPT ![n][f] = << >>]
      BY <1>2, <2>1
    <3> QED BY <1>3, <2>1, <3>1, <3>2
  <2>2. CASE f \notin bitvector[n]
    BY <1>2, <1>3, <2>2
  <2> QED BY <2>1, <2>2
<1>7. n = frame.node /\ f \in frame.fns /\ Live(n)
  BY <1>1, <1>2
<1>8.
              /\ n = frame.node /\ f \in frame.fns /\ Live(n)
              /\ stack # << >> /\ search.mode = "none" /\ frame.todo = << >>
              /\ rest.node = n /\ rest.fns = frame.fns \ {f} /\ rest.at = frame.at
              /\ rest.todo = IF f \in bitvector[n] THEN conditionalConstraints[n][f] ELSE << >>
              /\ StackType' /\ Elems(stack') = {rest} \union Elems(Tail(stack))
              /\ conditionalConstraints' \in [ASTNode -> [Fn -> Seq(ASTNode \X ASTNode)]]
              /\ \A k \in ASTNode : k # n => conditionalConstraints'[k] = conditionalConstraints[k]
              /\ \A k \in ASTNode, e \in Fn :
                    conditionalConstraints'[k][e] =
                        IF k = n /\ e = f /\ f \in bitvector[n] THEN << >>
                        ELSE conditionalConstraints[k][e]
              /\ UNCHANGED <<dagmapping, supsets, subsets, bitvector, search, status, history, overtaken>>
  BY <1>1, <1>4, <1>5, <1>6, <1>7
<1> QED BY <1>8

LEMMA NextFunctionInv ==
    ASSUME Inv, NextFunction
    PROVE  Inv'
<1>1. PICK n \in ASTNode, f \in Fn, rest \in Frames :
              /\ n = frame.node /\ f \in frame.fns /\ Live(n)
              /\ stack # << >> /\ search.mode = "none" /\ frame.todo = << >>
              /\ rest.node = n /\ rest.fns = frame.fns \ {f} /\ rest.at = frame.at
              /\ rest.todo = IF f \in bitvector[n] THEN conditionalConstraints[n][f] ELSE << >>
              /\ StackType' /\ Elems(stack') = {rest} \union Elems(Tail(stack))
              /\ conditionalConstraints' \in [ASTNode -> [Fn -> Seq(ASTNode \X ASTNode)]]
              /\ \A k \in ASTNode : k # n => conditionalConstraints'[k] = conditionalConstraints[k]
              /\ \A k \in ASTNode, e \in Fn :
                    conditionalConstraints'[k][e] =
                        IF k = n /\ e = f /\ f \in bitvector[n] THEN << >>
                        ELSE conditionalConstraints[k][e]
              /\ UNCHANGED <<dagmapping, supsets, subsets, bitvector, search, status, history, overtaken>>
  BY FunctionTaken
<1>2. GraphOK'
  <2>1. MappingGrows
    BY <1>1, MappingStays DEF Inv
  <2>2. \A k \in ASTNode : ~Live(k)' => k # n
    BY <1>1 DEF Live
  <2> QED BY <1>1, <2>1, <2>2, FieldsGraph DEF Inv, GraphOK, GraphType
<1>3. SearchType' /\ SearchOK' /\ OtherTypes'
  BY <1>1 DEF Inv, SearchType, SearchOK, SearchOfFrame, SearchFrom, Queued, Walked, OtherTypes, history
<1>4. Points'
  <2>1. \A x \in Elems(rest.todo) : MappedPair(x)
    BY <1>1, NoElems DEF Inv, Points
  <2>2. \A fr \in Elems(stack') : \A x \in Elems(fr.todo) : MappedPair(x)
    BY <1>1, <2>1, TopFrame DEF Inv, Points
  <2>3. \A k \in ASTNode, e \in Fn : \A x \in Elems(conditionalConstraints'[k][e]) : MappedPair(x)
    BY <1>1, NoElems DEF Inv, Points
  <2> QED BY <1>1, <2>2, <2>3 DEF Inv, Points, Mapped, MappedPair, history
<1> QED BY <1>1, <1>2, <1>3, <1>4 DEF Inv

(* What activating the next copied constraint does.                      *)
LEMMA Activation ==
    ASSUME Inv, activateConditionalConstraint
    PROVE  \E from, to \in ASTNode, f \in Frames, frames \in Seq(Frames) :
              /\ stack # << >> /\ search.mode = "none"
              /\ UNCHANGED <<dagmapping, bitvector, conditionalConstraints, status, history, overtaken>>
              /\ Mapped(from) /\ Mapped(to)
              /\ Elems(frame.todo) = {<<from, to>>} \union Elems(f.todo)
              /\ f.node = frame.node /\ f.fns = frame.fns /\ f.at = frame.at
              /\ Elems(frames) = {f} \union Elems(Tail(stack))
              /\ AddEdge(dagmapping', frames, from, to)
<1>1. /\ stack # << >> /\ search.mode = "none" /\ frame.todo # << >>
      /\ UNCHANGED <<dagmapping, bitvector, conditionalConstraints, status, history, overtaken>>
  BY DEF activateConditionalConstraint, Running, Searching, Busy
<1>2. PICK from \in ASTNode, to \in ASTNode :
          /\ from = Head(frame.todo)[1] /\ to = Head(frame.todo)[2]
          /\ Mapped(from) /\ Mapped(to)
          /\ Elems(frame.todo) = {<<from, to>>} \union Elems(Tail(frame.todo))
          /\ Tail(frame.todo) \in Seq(ASTNode \X ASTNode)
  <2>1. /\ frame.todo \in Seq(ASTNode \X ASTNode) /\ frame \in Elems(stack)
    BY <1>1, TopFrame
  <2>2. /\ Head(frame.todo) \in ASTNode \X ASTNode
        /\ Tail(frame.todo) \in Seq(ASTNode \X ASTNode)
        /\ Elems(frame.todo) = {Head(frame.todo)} \union Elems(Tail(frame.todo))
    BY <1>1, <2>1, ElemsTail
  <2>3. MappedPair(Head(frame.todo))
    BY <2>1, <2>2 DEF Inv, Points
  <2>4. PICK a \in ASTNode, b \in ASTNode : Head(frame.todo) = <<a, b>>
    BY <2>2
  <2> QED BY <2>2, <2>3, <2>4 DEF MappedPair
<1>3. PICK f \in Frames :
          /\ f = [frame EXCEPT !.todo = Tail(@)] /\ f.todo = Tail(frame.todo)
          /\ f.node = frame.node /\ f.fns = frame.fns /\ f.at = frame.at
  <2>1. frame \in Frames
    BY <1>1, TopFrame
  <2>2. [frame EXCEPT !.todo = Tail(frame.todo)] \in Frames
    BY <1>2, <2>1, FrameExcept
  <2>3. [frame EXCEPT !.todo = Tail(frame.todo)]
            = [node |-> frame.node, fns |-> frame.fns, todo |-> Tail(frame.todo), at |-> frame.at]
    BY <1>2, <2>1, FrameExcept
  <2> QED BY <2>2, <2>3
<1>4. PICK frames \in Seq(Frames) :
          frames = Replace(f) /\ Elems(frames) = {f} \union Elems(Tail(stack))
  BY <1>1, TopFrame, ElemsCons DEF Replace
<1>5. AddEdge(dagmapping', frames, from, to)
  BY <1>1, <1>2, <1>3, <1>4 DEF activateConditionalConstraint, AddEdge
<1> QED BY <1>1, <1>2, <1>3, <1>4, <1>5

LEMMA activateConditionalConstraintInv ==
    ASSUME Inv, activateConditionalConstraint
    PROVE  Inv'
<1>1. PICK from \in ASTNode, to \in ASTNode, f \in Frames, frames \in Seq(Frames) :
              /\ stack # << >> /\ search.mode = "none"
              /\ UNCHANGED <<dagmapping, bitvector, conditionalConstraints, status, history, overtaken>>
              /\ Mapped(from) /\ Mapped(to)
              /\ Elems(frame.todo) = {<<from, to>>} \union Elems(f.todo)
              /\ Elems(frames) = {f} \union Elems(Tail(stack))
              /\ AddEdge(dagmapping', frames, from, to)
  BY Activation
<1>2. MappingGrows /\ Mapped(from)' /\ Mapped(to)'
  BY <1>1, MappingStays DEF Inv, Mapped
<1>3. /\ GraphOK' /\ StackType' /\ SearchType' /\ SearchOK'
  BY <1>1, <1>2, EdgeAdded DEF Inv
<1>a. PICK m \in ASTNode : Elems(stack') \subseteq {Frame(m)} \union Elems(frames)
  BY <1>1, <1>2, EdgeAdded DEF Inv, NoEdge, NewEdge
<1>4. Points'
  <2>1. Elems(Frame(m).todo) = {}
    BY FrameType, NoElems
  <2>2. \A fr \in Elems(stack') : \A x \in Elems(fr.todo) : MappedPair(x)
    BY <1>1, <1>a, <2>1, TopFrame DEF Inv, Points
  <2> QED BY <1>1, <2>2 DEF Inv, Points, Mapped, MappedPair, history
<1> QED BY <1>1, <1>3, <1>4 DEF Inv, OtherTypes, history
-----------------------------------------------------------------------------
(* The path of mergePath once its second node has been absorbed.         *)
LEMMA DropSecond ==
    ASSUME NEW S, NEW s \in Seq(S), Len(s) >= 2
    PROVE  \E t \in Seq(S) :
              /\ t = <<s[1]>> \o Tail(Tail(s))
              /\ Len(t) = Len(s) - 1 /\ t[1] = s[1]
              /\ \A i \in 2..Len(t) : i + 1 \in 3..Len(s) /\ t[i] = s[i + 1]
<1> DEFINE u == Tail(Tail(s))
<1>1. u \in Seq(S) /\ Len(u) = Len(s) - 2 /\ \A i \in 1..Len(u) : u[i] = s[i + 2]
  <2>1. Tail(s) \in Seq(S) /\ Len(Tail(s)) = Len(s) - 1 /\ \A i \in 1..Len(s) - 1 : Tail(s)[i] = s[i + 1]
    OBVIOUS
  <2>2. Tail(s) # << >>
    <3>1. Len(s) \in Nat /\ Len(Tail(s)) # 0
      BY <2>1
    <3>2. Len(<< >>) = 0
      OBVIOUS
    <3> QED BY <3>1, <3>2
  <2>3. u \in Seq(S) /\ Len(u) = Len(Tail(s)) - 1 /\ \A i \in 1..Len(Tail(s)) - 1 : u[i] = Tail(s)[i + 1]
    BY <2>1, <2>2
  <2> QED BY <2>1, <2>3
<1>2. s[1] \in S /\ Len(s) \in Nat /\ Len(u) \in Nat
  BY <1>1
<1> HIDE DEF u
<1>3. /\ <<s[1]>> \o u \in Seq(S) /\ Len(<<s[1]>> \o u) = Len(u) + 1
      /\ (<<s[1]>> \o u)[1] = s[1]
      /\ \A j \in 1..Len(u) + 1 : j # 1 => j - 1 \in 1..Len(u) /\ (<<s[1]>> \o u)[j] = u[j - 1]
  BY <1>1, <1>2, ConsIndex, ElemsCons
<1>4. ASSUME NEW i \in 2..Len(u) + 1
      PROVE  i + 1 \in 3..Len(s) /\ (<<s[1]>> \o u)[i] = s[i + 1]
  <2>1. i \in 1..Len(u) + 1 /\ i # 1 /\ i - 1 \in 1..Len(u) /\ (i - 1) + 2 = i + 1
    BY <1>2
  <2> QED BY <1>1, <1>2, <1>3, <2>1
<1>5. PICK t \in Seq(S) : t = <<s[1]>> \o u
  BY <1>3
<1>6. Len(t) = Len(u) + 1 /\ Len(t) = Len(s) - 1 /\ t[1] = s[1]
  BY <1>1, <1>2, <1>3, <1>5
<1>7. \A i \in 2..Len(t) : i + 1 \in 3..Len(s) /\ t[i] = s[i + 1]
  BY <1>4, <1>5, <1>6
<1> QED BY <1>5, <1>6, <1>7 DEF u

(* What a turn of mergePath does. *)
LEMMA Merging ==
    ASSUME Inv, MergeNext
    PROVE  \E n1, n2 \in ASTNode :
              /\ n1 # n2 /\ Live(n1) /\ Live(n2) /\ mergeNodes(n1, n2)
              /\ search.path \in Seq(ASTNode) /\ n1 = search.path[1] /\ n2 = search.path[2]
              /\ Len(search.path) >= 2
              /\ search.at = {n1} /\ n1 \in supsets[frame.node]
              /\ overtaken' = (overtaken \/ Overtakes(n1, n2))
              /\ UNCHANGED <<status, history>>
              /\ search.mode = "walk" /\ stack # << >> /\ frame = Frame(frame.node)
              /\ frame.node \in ASTNode /\ Live(frame.node)
              /\ \/ /\ n2 = frame.node /\ stack' = Replace(Frame(n1)) /\ search' = NewSearch
                    /\ Len(search.path) = 2
                 \/ /\ n2 # frame.node /\ UNCHANGED stack /\ Len(search.path) > 2
                    /\ search' = [search EXCEPT !.path = <<n1>> \o Tail(Tail(search.path))]
<1>1. /\ search.mode = "walk" /\ stack # << >> /\ frame = Frame(frame.node) /\ Live(frame.node)
      /\ frame.node \in ASTNode
      /\ Len(search.path) > 1 /\ Head(search.path) \in search.at
      /\ search.path \in Seq(ASTNode)
  BY DEF MergeNext, Searching, Inv, SearchOK, SearchOfFrame, SearchType
<1>2. /\ search.path[Len(search.path)] = frame.node
      /\ \A i \in 1..Len(search.path) : Live(search.path[i]) /\ search.path[i] \in DOMAIN search.dist
      /\ \A i, j \in 1..Len(search.path) :
            i < j => search.dist[search.path[i]] < search.dist[search.path[j]]
      /\ \A i \in 1..Len(search.path) : search.dist[search.path[i]] \in Nat
  BY <1>1 DEF Inv, SearchOK, Walked, SearchType
<1>3. PICK n1 \in ASTNode, n2 \in ASTNode : n1 = search.path[1] /\ n2 = search.path[2]
  BY <1>1
<1>4. Len(search.path) \in Nat /\ 1 \in 1..Len(search.path) /\ 2 \in 1..Len(search.path)
      /\ Len(search.path) \in 1..Len(search.path)
  BY <1>1
<1>5. Live(n1) /\ Live(n2) /\ n1 # n2
  BY <1>2, <1>3, <1>4
<1>6. search.at = {n1} /\ n1 \in supsets[frame.node]
  BY <1>1, <1>3 DEF Inv, SearchOK, SearchFrom
<1>7. /\ mergeNodes(n1, n2)
      /\ overtaken' = (overtaken \/ Overtakes(n1, n2))
      /\ UNCHANGED <<status, history>>
      /\ IF Len(search.path) = 2
         THEN stack' = Replace([frame EXCEPT !.node = n1]) /\ search' = NewSearch
         ELSE /\ search' = [search EXCEPT !.path = <<n1>> \o Tail(Tail(search.path))]
              /\ UNCHANGED stack
  BY <1>3 DEF MergeNext
<1>8. CASE Len(search.path) = 2
  <2>1. [frame EXCEPT !.node = n1] = Frame(n1)
    <3>1. frame \in Frames
      BY <1>1, FrameType
    <3>2. [frame EXCEPT !.node = n1] = [node |-> n1, fns |-> frame.fns, todo |-> frame.todo, at |-> frame.at]
      BY <3>1, FrameExcept
    <3>3. frame.fns = Fn /\ frame.todo = << >> /\ frame.at = {}
      BY <1>1, FrameType
    <3> QED BY <3>2, <3>3 DEF Frame
  <2>2. n2 = frame.node /\ Len(search.path) >= 2
    BY <1>2, <1>3, <1>8
  <2>3. stack' = Replace(Frame(n1)) /\ search' = NewSearch
    BY <1>7, <1>8, <2>1
  <2> QED BY <1>1, <1>3, <1>5, <1>6, <1>7, <1>8, <2>2, <2>3
<1>9. CASE Len(search.path) # 2
  <2>1. Len(search.path) > 2 /\ Len(search.path) >= 2
    <3>1. PICK k \in Nat : k = Len(search.path)
      BY <1>4
    <3>2. k > 1 /\ k # 2
      BY <1>1, <1>9, <3>1
    <3>3. k > 2 /\ k >= 2
      BY <3>2
    <3> QED BY <3>1, <3>3
  <2>2. search.dist[n2] < search.dist[frame.node]
    BY <1>2, <1>3, <1>4, <2>1
  <2>3. n2 # frame.node
    BY <1>2, <1>3, <1>4, <2>2
  <2>4. UNCHANGED stack /\ search' = [search EXCEPT !.path = <<n1>> \o Tail(Tail(search.path))]
    BY <1>7, <1>9
  <2> QED BY <1>1, <1>3, <1>5, <1>6, <1>7, <2>1, <2>3, <2>4
<1> QED BY <1>8, <1>9

LEMMA MergeNextInv ==
    ASSUME Inv, MergeNext
    PROVE  Inv'
<1>1. PICK n1 \in ASTNode, n2 \in ASTNode :
              /\ n1 # n2 /\ Live(n1) /\ Live(n2) /\ mergeNodes(n1, n2)
              /\ search.path \in Seq(ASTNode) /\ n1 = search.path[1] /\ n2 = search.path[2]
              /\ Len(search.path) >= 2
              /\ search.at = {n1} /\ n1 \in supsets[frame.node]
              /\ overtaken' = (overtaken \/ Overtakes(n1, n2))
              /\ UNCHANGED <<status, history>>
              /\ search.mode = "walk" /\ stack # << >> /\ frame = Frame(frame.node)
              /\ frame.node \in ASTNode /\ Live(frame.node)
              /\ \/ /\ n2 = frame.node /\ stack' = Replace(Frame(n1)) /\ search' = NewSearch
                    /\ Len(search.path) = 2
                 \/ /\ n2 # frame.node /\ UNCHANGED stack /\ Len(search.path) > 2
                    /\ search' = [search EXCEPT !.path = <<n1>> \o Tail(Tail(search.path))]
  BY Merging
<1>2. GraphOK
  BY DEF Inv
<1>3. /\ GraphOK'
      /\ \A n \in ASTNode : Live(n)' <=> Live(n) /\ n # n2
      /\ \A p \in ASTNode : Mapped(p)' <=> Mapped(p)
      /\ \A m, k \in ASTNode :
            k \in supsets'[m] <=>
                     /\ m # n2 /\ k # n2 /\ m # k
                     /\ \/ k \in supsets[m]
                        \/ m = n1 /\ k \in supsets[n2]
                        \/ k = n1 /\ n2 \in supsets[m]
      /\ \A n \in ASTNode, f \in Fn :
            conditionalConstraints'[n][f] =
                     IF n = n2 THEN << >>
                     ELSE IF n = n1 THEN conditionalConstraints[n1][f] \o conditionalConstraints[n2][f]
                     ELSE conditionalConstraints[n][f]
  <2>1. n1 # n2 /\ Live(n1) /\ Live(n2) /\ mergeNodes(n1, n2)
    BY <1>1
  <2>2. /\ GraphOK'
        /\ \A n \in ASTNode : Live(n)' <=> Live(n) /\ n # n2
        /\ \A p \in ASTNode :
              /\ Mapped(p)' <=> Mapped(p)
              /\ dagmapping'[p] = IF dagmapping[p] = n2 THEN n1 ELSE dagmapping[p]
    BY <1>2, <2>1, MergeGraph
  <2>3. \A m, k \in ASTNode :
            k \in supsets'[m] <=>
                     /\ m # n2 /\ k # n2 /\ m # k
                     /\ \/ k \in supsets[m]
                        \/ m = n1 /\ k \in supsets[n2]
                        \/ k = n1 /\ n2 \in supsets[m]
    BY <1>2, <2>1, MergeGraph
  <2>4. \A n \in ASTNode, f \in Fn :
            conditionalConstraints'[n][f] =
                     IF n = n2 THEN << >>
                     ELSE IF n = n1 THEN conditionalConstraints[n1][f] \o conditionalConstraints[n2][f]
                     ELSE conditionalConstraints[n][f]
    BY <1>2, <2>1, MergedLists
  <2> QED BY <2>2, <2>3, <2>4
<1>4. OtherTypes'
  BY <1>1 DEF Inv, OtherTypes, history
<1>5. ASSUME NEW n \in ASTNode, NEW f \in Fn, NEW x \in Elems(conditionalConstraints'[n][f])
      PROVE  MappedPair(x)'
  <2>1. \/ x \in Elems(conditionalConstraints[n][f])
        \/ x \in Elems(conditionalConstraints[n1][f])
        \/ x \in Elems(conditionalConstraints[n2][f])
    <3>1. /\ conditionalConstraints[n1][f] \in Seq(ASTNode \X ASTNode)
          /\ conditionalConstraints[n2][f] \in Seq(ASTNode \X ASTNode)
      BY WaitingTypes
    <3>2. Elems(conditionalConstraints[n1][f] \o conditionalConstraints[n2][f])
             = Elems(conditionalConstraints[n1][f]) \union Elems(conditionalConstraints[n2][f])
      BY <3>1, ElemsConcat
    <3> QED BY <1>3, <3>2, NoElems
  <2>2. x[1] \in ASTNode /\ x[2] \in ASTNode /\ Mapped(x[1]) /\ Mapped(x[2])
    BY <2>1, WaitingTypes DEF Inv, Points, MappedPair
  <2> QED BY <1>3, <2>2 DEF MappedPair
<1>6. \A fr \in Elems(stack) : \A x \in Elems(fr.todo) : MappedPair(x)'
  <2> SUFFICES ASSUME NEW fr \in Elems(stack), NEW x \in Elems(fr.todo) PROVE MappedPair(x)'
    OBVIOUS
  <2>1. x[1] \in ASTNode /\ x[2] \in ASTNode /\ Mapped(x[1]) /\ Mapped(x[2])
    BY WaitingTypes DEF Inv, Points, MappedPair
  <2> QED BY <1>3, <2>1 DEF MappedPair
<1>7. \A r \in added' :
            /\ r.op = "element" => Mapped(r.in)'
            /\ r.op = "subset" => Mapped(r.from)' /\ Mapped(r.to)'
            /\ r.op = "conditional" => Mapped(r.in)' /\ Mapped(r.from)' /\ Mapped(r.to)'
  <2> SUFFICES ASSUME NEW r \in added
               PROVE  /\ r.op = "element" => Mapped(r.in)'
                      /\ r.op = "subset" => Mapped(r.from)' /\ Mapped(r.to)'
                      /\ r.op = "conditional" => Mapped(r.in)' /\ Mapped(r.from)' /\ Mapped(r.to)'
    BY <1>1 DEF history
  <2>1. r \in Requests
    BY DEF Inv, OtherTypes
  <2> QED BY <1>3, <2>1, RequestTypes DEF Inv, Points
<1>8. CASE n2 = frame.node
  <2>1. stack' = Replace(Frame(n1)) /\ search' = NewSearch
    BY <1>1, <1>8
  <2>2. Frame(n1) \in Frames /\ Frame(n1).node = n1 /\ Elems(Frame(n1).todo) = {}
    BY FrameType, NoElems
  <2>3. /\ StackType' /\ stack' # << >> /\ Head(stack') = Frame(n1)
        /\ Elems(stack') = {Frame(n1)} \union Elems(Tail(stack))
    BY <1>1, <2>1, <2>2, Replaced
  <2>4. Points'
    <3>1. \A fr \in Elems(stack') : \A x \in Elems(fr.todo) : MappedPair(x)'
      BY <1>1, <1>6, <2>2, <2>3, TopFrame
    <3> QED BY <1>5, <1>7, <3>1 DEF Points
  <2>5. /\ search'.mode = "choose" /\ search'.at = {} /\ search'.dist = << >>
        /\ search'.queue = << >> /\ search'.path = << >>
        /\ search' = Search(search'.mode, search'.at, search'.dist, search'.queue, search'.path)
    BY <2>1 DEF NewSearch, Search
  <2>6. SearchType'
    BY <2>5 DEF SearchType
  <2>7. SearchOK'
    BY <1>1, <1>3, <2>2, <2>3, <2>5 DEF SearchOK, SearchOfFrame, SearchFrom, Queued, Walked, frame
  <2> QED BY <1>3, <1>4, <2>3, <2>4, <2>6, <2>7 DEF Inv
<1>9. CASE n2 # frame.node
  <2>1. UNCHANGED stack /\ search' = [search EXCEPT !.path = <<n1>> \o Tail(Tail(search.path))]
        /\ Len(search.path) > 2
    BY <1>1, <1>9
  <2>2. StackType' /\ Points'
    BY <1>5, <1>6, <1>7, <2>1 DEF Inv, StackType, Points
  <2>c. PICK p \in Seq(ASTNode) : p = search.path
    BY <1>1
  <2>3. PICK w \in Seq(ASTNode) :
           /\ w = <<n1>> \o Tail(Tail(p))
           /\ Len(w) = Len(p) - 1 /\ w[1] = p[1]
           /\ \A i \in 2..Len(w) : i + 1 \in 3..Len(p) /\ w[i] = p[i + 1]
    <3>1. Len(p) >= 2 /\ n1 = p[1]
      BY <1>1, <2>c
    <3> QED BY <3>1, DropSecond
  <2>a. /\ Len(p) \in Nat /\ Len(w) \in Nat /\ Len(w) + 1 = Len(p) /\ Len(w) >= 2
        /\ 1 \in 1..Len(w) /\ 1 \in 1..Len(p)
    <3>1. Len(p) \in Nat /\ Len(w) \in Nat
      OBVIOUS
    <3>2. Len(p) > 2 /\ Len(w) = Len(p) - 1
      BY <2>1, <2>3, <2>c
    <3> QED BY <3>1, <3>2
  <2>b. \A i \in 1..Len(w) :
            i # 1 => /\ i \in 2..Len(w) /\ i + 1 \in 1..Len(p) /\ i + 1 \in 3..Len(p)
                     /\ w[i] = p[i + 1]
    <3> SUFFICES ASSUME NEW i \in 1..Len(w), i # 1
                 PROVE  i \in 2..Len(w) /\ i + 1 \in 1..Len(p) /\ i + 1 \in 3..Len(p) /\ w[i] = p[i + 1]
      OBVIOUS
    <3>1. i \in 2..Len(w) /\ i + 1 \in 1..Len(p)
      BY <2>a
    <3> QED BY <2>3, <3>1
  <2>4. /\ search'.mode = search.mode /\ search'.at = search.at /\ search'.dist = search.dist
        /\ search'.queue = search.queue /\ search'.path = w
        /\ search' = Search(search'.mode, search'.at, search'.dist, search'.queue, search'.path)
    BY <2>1, <2>3, <2>c DEF Inv, SearchType, Search
  <2>5. SearchType'
    BY <2>4 DEF Inv, SearchType
  <2>6. /\ Len(p) \in Nat /\ Len(p) > 2 /\ p[Len(p)] = frame.node
        /\ \A i \in 1..Len(p) : Live(p[i]) /\ p[i] \in DOMAIN search.dist /\ p[i] \in ASTNode
        /\ \A i, j \in 1..Len(p) : i < j => search.dist[p[i]] < search.dist[p[j]]
        /\ \A i \in 1..Len(p) : search.dist[p[i]] \in Nat
        /\ p[2] = n2 /\ p[1] = n1
    BY <1>1, <2>1, <2>c, <2>a DEF Inv, SearchOK, Walked, SearchType
  <2>7. \A i \in 3..Len(p) : p[i] # n2
    <3> SUFFICES ASSUME NEW i \in 3..Len(p) PROVE p[i] # n2
      OBVIOUS
    <3>1. i \in 1..Len(p) /\ 2 \in 1..Len(p) /\ 2 < i
      BY <2>6
    <3>2. search.dist[n2] < search.dist[p[i]] /\ search.dist[n2] \in Nat
      BY <2>6, <3>1
    <3> QED BY <3>2
  <2>8. Len(w) >= 1 /\ w[Len(w)] = frame.node
    <3>1. Len(w) \in 1..Len(w) /\ Len(w) # 1
      BY <2>a
    <3> QED BY <2>6, <2>a, <2>b, <3>1
  <2>9. \A i \in 1..Len(w) : w[i] \in ASTNode /\ Live(w[i]) /\ w[i] # n2 /\ w[i] \in DOMAIN search.dist
    <3> SUFFICES ASSUME NEW i \in 1..Len(w)
                 PROVE  w[i] \in ASTNode /\ Live(w[i]) /\ w[i] # n2 /\ w[i] \in DOMAIN search.dist
      OBVIOUS
    <3>1. CASE i = 1
      <4>1. w[i] = p[1] /\ p[1] = n1
        BY <2>3, <2>6, <3>1
      <4>2. p[1] \in DOMAIN search.dist
        BY <2>6, <2>a
      <4> QED BY <1>1, <4>1, <4>2
    <3>2. CASE i # 1
      <4>1. i + 1 \in 3..Len(p) /\ i + 1 \in 1..Len(p) /\ w[i] = p[i + 1]
        BY <2>b, <3>2
      <4> QED BY <2>6, <2>7, <4>1
    <3> QED BY <3>1, <3>2
  <2>10. \A i, j \in 1..Len(w) : i < j => search.dist[w[i]] < search.dist[w[j]]
    <3> SUFFICES ASSUME NEW i \in 1..Len(w), NEW j \in 1..Len(w), i < j
                 PROVE  search.dist[w[i]] < search.dist[w[j]]
      OBVIOUS
    <3>0. j # 1 /\ 1 < j + 1 /\ i + 1 < j + 1
      BY <2>a
    <3>1. j + 1 \in 1..Len(p) /\ w[j] = p[j + 1]
      BY <2>b, <3>0
    <3>2. CASE i = 1
      <4>1. w[i] = p[1]
        BY <2>3, <3>2
      <4> QED BY <2>6, <2>a, <3>0, <3>1, <4>1
    <3>3. CASE i # 1
      <4>1. i + 1 \in 1..Len(p) /\ w[i] = p[i + 1] /\ i + 1 < j + 1
        BY <2>b, <3>0, <3>3
      <4> QED BY <2>6, <3>1, <4>1
    <3> QED BY <3>2, <3>3
  <2>11. \A i \in 1..Len(w) : Live(w[i])'
    BY <1>3, <2>9
  <2>12. frame' = frame /\ Live(frame.node)' /\ n1 \in supsets'[frame.node] /\ n1 \in DOMAIN search.dist
    <3>1. frame.node # n1
      BY <1>1, <1>2 DEF GraphOK, NodesAreLive
    <3>2. n1 \in DOMAIN search.dist
      BY <2>6, <2>a
    <3> QED BY <1>1, <1>3, <1>9, <2>1, <3>1, <3>2 DEF frame
  <2>13. Walked'
    BY <2>4, <2>8, <2>9, <2>10, <2>11, <2>12 DEF Walked
  <2>14. SearchOK'
    BY <1>1, <2>1, <2>4, <2>12, <2>13 DEF SearchOK, SearchOfFrame, SearchFrom, Queued
  <2> QED BY <1>3, <1>4, <2>2, <2>5, <2>14 DEF Inv
<1> QED BY <1>8, <1>9
-----------------------------------------------------------------------------
LEMMA InitInv == Init => Inv
<1> SUFFICES ASSUME Init PROVE Inv
  OBVIOUS
<1>1. /\ \A n \in ASTNode : dagmapping[n] = Unmapped /\ supsets[n] = {} /\ subsets[n] = {}
            /\ bitvector[n] = {} /\ conditionalConstraints[n] = NoConstraints
      /\ dagmapping \in [ASTNode -> ASTNode \union {Unmapped}]
      /\ supsets \in [ASTNode -> SUBSET ASTNode] /\ subsets \in [ASTNode -> SUBSET ASTNode]
      /\ bitvector \in [ASTNode -> SUBSET Fn]
  BY DEF Init
<1>2. NoConstraints \in [Fn -> Seq(ASTNode \X ASTNode)] /\ \A f \in Fn : NoConstraints[f] = << >>
  BY DEF NoConstraints
<1>3. conditionalConstraints \in [ASTNode -> [Fn -> Seq(ASTNode \X ASTNode)]]
  BY <1>2 DEF Init
<1>4. GraphOK
  BY <1>1, <1>3 DEF GraphOK, GraphType, NodesAreLive, Mirrored
<1>5. StackType /\ Elems(stack) = {}
  BY NoElems DEF Init, StackType
<1>6. /\ search.mode = "none" /\ search.at = {} /\ search.dist = << >>
      /\ search.queue = << >> /\ search.path = << >>
      /\ search = Search(search.mode, search.at, search.dist, search.queue, search.path)
  BY DEF Init, NoSearch, Search
<1>7. SearchType /\ SearchOK
  BY <1>6 DEF SearchType, SearchOK, SearchOfFrame, SearchFrom, Queued, Walked
<1>8. OtherTypes
  <2>1. 0 \in 0..MaxRequests
    BY MaxRequestsAssumption
  <2>2. FALSE \in BOOLEAN
    OBVIOUS
  <2>3. status = "defined" /\ added = {} /\ count = 0 /\ overtaken = FALSE
    BY DEF Init
  <2> QED BY <2>1, <2>2, <2>3 DEF OtherTypes
<1>9. Points
  BY <1>1, <1>2, <1>5, NoElems DEF Init, Points
<1> QED BY <1>4, <1>5, <1>7, <1>8, <1>9 DEF Inv

LEMMA NextInv == Inv /\ [Next]_vars => Inv'
<1> SUFFICES ASSUME Inv, [Next]_vars PROVE Inv'
  OBVIOUS
<1>1. ASSUME NEW r \in Requests, addElementofConstraint(r) PROVE Inv'
  BY <1>1, addElementofConstraintInv
<1>2. ASSUME NEW r \in Requests, addConditionalConstraint(r) PROVE Inv'
  BY <1>2, addConditionalConstraintInv
<1>3. ASSUME NEW r \in Requests, addSubseteqConstraint(r) PROVE Inv'
  BY <1>3, addSubseteqConstraintInv
<1>4. CASE Propagate
  BY <1>4, NextCandidateInv, MeasureInv, NoPathInv, NoCycleLeftInv, StepBackInv, SearchForEverInv,
     MergeNextInv, activateConditionalConstraintInv, NextFunctionInv, NextSupersetInv, ReturnInv,
     UseDeletedInv DEF Propagate
<1>5. CASE UNCHANGED vars
  BY <1>5 DEF vars, graph, history, Inv, GraphOK, GraphType, NodesAreLive, Mirrored, Live, StackType,
     SearchType, OtherTypes, Points, Mapped, MappedPair, SearchOK, SearchOfFrame, SearchFrom, Queued,
     Walked, frame
<1> QED BY <1>1, <1>2, <1>3, <1>4, <1>5 DEF Next

(* However the constraints come and whichever nodes are merged, every    *)
(* variable keeps its type, every program point is mapped to a live node, *)
(* no edge leads to a deleted node or from a node to itself, and a deleted *)
(* node has left nothing behind.                                         *)
THEOREM Typing == Spec => []TypeOK
<1>1. Spec => []Inv
  BY InitInv, NextInv, PTL DEF Spec
<1>2. Inv => TypeOK
  BY InvMeaning
<1> QED BY <1>1, <1>2, PTL
-----------------------------------------------------------------------------
(* Every cycle of the graph runs through D. *)
AcyclicBut(D) ==
    \A S \in SUBSET (ASTNode \ D) :
        S # {} => \E n \in S : supsets[n] \intersect S = {}

(* No path leads from s to n. *)
Unreached(s, n) ==
    \E C \in SUBSET ASTNode : s \in C /\ n \notin C /\ \A m \in C : supsets[m] \subseteq C

(* The nodes a cycle may run through: the one killCyclesAt is called for,   *)
(* those of the path that is being merged, and none once it has returned.   *)
Suspects ==
    IF search.mode = "none" THEN {}
    ELSE IF search.mode = "walk" THEN Elems(search.path)
    ELSE {frame.node}

(* The node cannot be reached from the candidates that have been tried. *)
Tried ==
    search.mode \in {"choose", "measure"} =>
        \A s \in supsets[frame.node], a \in search.at :
            s < a \/ (s = a /\ search.mode = "choose") => Unreached(s, frame.node)

(* The supsets of a node have distances once it has left the queue. *)
Measured ==
    search.mode = "measure" =>
        \A m \in DOMAIN search.dist :
            m \in Elems(search.queue) \/ supsets[m] \subseteq DOMAIN search.dist

CycleInv == AcyclicBut(Suspects) /\ Tried /\ Measured

(* Steps that neither search nor change an edge. *)
LEMMA EdgesKept ==
    ASSUME CycleInv, search.mode = "none", UNCHANGED <<supsets, search>>
    PROVE  CycleInv'
BY DEF CycleInv, Suspects, Tried, Measured, AcyclicBut

(* A new edge can close cycles only through the node it leaves, and the     *)
(* search for them begins.                                                  *)
LEMMA NewEdgeCycles ==
    ASSUME CycleInv, search.mode = "none",
           NEW frames \in Seq(Frames), NEW m \in ASTNode, NEW k \in ASTNode, NewEdge(frames, m, k)
    PROVE  CycleInv'
<1>1. /\ search' = NewSearch /\ stack' = <<Frame(m)>> \o frames
      /\ \A n \in ASTNode : supsets'[n] = IF n = m THEN supsets[n] \union {k} ELSE supsets[n]
  BY DEF NewEdge
<1>2. search'.mode = "choose" /\ search'.at = {}
  BY <1>1 DEF NewSearch, Search
<1>3. frame'.node = m
  BY <1>1, FrameType, ElemsCons DEF frame
<1>4. AcyclicBut({m})'
  BY <1>1 DEF CycleInv, Suspects, AcyclicBut
<1>5. Suspects' = {m}
  BY <1>2, <1>3 DEF Suspects
<1>6. AcyclicBut(Suspects)'
  BY <1>4, <1>5 DEF AcyclicBut
<1> QED BY <1>2, <1>6 DEF CycleInv, Tried, Measured

LEMMA AddedEdgeCycles ==
    ASSUME Inv, CycleInv, search.mode = "none", MappingGrows,
           NEW frames \in Seq(Frames), NEW from \in ASTNode, NEW to \in ASTNode,
           Mapped(from)', Mapped(to)',
           AddEdge(dagmapping', frames, from, to),
           UNCHANGED <<bitvector, conditionalConstraints>>
    PROVE  CycleInv'
<1>1. GraphOK /\ SearchType /\ SearchOK
  BY DEF Inv
<1>2. PICK m \in ASTNode, k \in ASTNode :
          (m = k => NoEdge(frames)) /\ (m # k => NewEdge(frames, m, k))
  BY <1>1, EdgeAdded
<1>3. CASE m = k
  BY <1>2, <1>3, EdgesKept DEF NoEdge
<1>4. CASE m # k
  BY <1>2, <1>4, NewEdgeCycles
<1> QED BY <1>3, <1>4

LEMMA RequestCycles ==
    ASSUME Inv, CycleInv, NEW r \in Requests,
           addElementofConstraint(r) \/ addConditionalConstraint(r) \/ addSubseteqConstraint(r)
    PROVE  CycleInv'
<1>1. ASSUME addElementofConstraint(r) PROVE CycleInv'
  <2>1. Take(r, {r.in}) /\ {r.in} \in SUBSET ASTNode /\ UNCHANGED <<supsets, search>>
    BY <1>1, RequestTypes DEF addElementofConstraint
  <2>2. search.mode = "none"
    BY <2>1, Taking
  <2> QED BY <2>1, <2>2, EdgesKept
<1>2. ASSUME addConditionalConstraint(r) PROVE CycleInv'
  <2>1. /\ Take(r, {r.in, r.from, r.to}) /\ {r.in, r.from, r.to} \in SUBSET ASTNode
        /\ UNCHANGED <<supsets, search>>
    BY <1>2, RequestTypes DEF addConditionalConstraint
  <2>2. search.mode = "none"
    BY <2>1, Taking
  <2> QED BY <2>1, <2>2, EdgesKept
<1>3. ASSUME addSubseteqConstraint(r) PROVE CycleInv'
  <2>1. /\ r.from \in ASTNode /\ r.to \in ASTNode
        /\ Take(r, {r.from, r.to}) /\ {r.from, r.to} \in SUBSET ASTNode
        /\ AddEdge(dagmapping', << >>, r.from, r.to)
        /\ UNCHANGED <<bitvector, conditionalConstraints>>
    BY <1>3, RequestTypes DEF addSubseteqConstraint
  <2>2. search.mode = "none" /\ MappingGrows /\ Mapped(r.from)' /\ Mapped(r.to)'
    BY <2>1, Taking
  <2>3. << >> \in Seq(Frames)
    OBVIOUS
  <2> QED BY <2>1, <2>2, <2>3, AddedEdgeCycles
<1> QED BY <1>1, <1>2, <1>3

LEMMA activateConditionalConstraintCycles ==
    ASSUME Inv, CycleInv, activateConditionalConstraint
    PROVE  CycleInv'
<1>1. search.mode = "none" /\ UNCHANGED <<dagmapping, bitvector, conditionalConstraints>>
  BY DEF activateConditionalConstraint, Running, Searching
<1>2. PICK from \in ASTNode, to \in ASTNode, frames \in Seq(Frames) :
          Mapped(from) /\ Mapped(to) /\ AddEdge(dagmapping', frames, from, to)
  BY Activation
<1>3. MappingGrows /\ Mapped(from)' /\ Mapped(to)'
  BY <1>1, <1>2, MappingStays DEF Inv, Mapped
<1> QED BY <1>1, <1>2, <1>3, AddedEdgeCycles

LEMMA NextCandidateCycles ==
    ASSUME Inv, CycleInv, NextCandidate
    PROVE  CycleInv'
<1>1. PICK n \in ASTNode : n = frame.node /\ supsets[n] \subseteq ASTNode
  BY DEF NextCandidate, Searching, Inv, SearchOK, SearchOfFrame, GraphOK, GraphType
<1>2. PICK t \in First(After(supsets[n], search.at)) :
          \E q \in Ascending(Fresh([m \in {t} |-> 0], t)) :
              search' = Search("measure", {t}, populateDistances([m \in {t} |-> 0], t), q, << >>)
  BY <1>1 DEF NextCandidate
<1>3. /\ t \in supsets[n] /\ t \in ASTNode
      /\ \A s \in supsets[n] : s < t => \E a \in search.at : ~(a < s)
  <2>1. t \in supsets[n]
    BY <1>2 DEF First, After
  <2>2. ASSUME NEW s \in supsets[n], s < t PROVE \E a \in search.at : ~(a < s)
    <3>1. s \in Nat /\ t \in Nat
      BY <1>1, <2>1, ASTNodeAssumption
    <3>2. s \notin After(supsets[n], search.at)
      BY <1>2, <2>2, <3>1 DEF First
    <3> QED BY <3>2 DEF After
  <2> QED BY <1>1, <2>1, <2>2
<1> DEFINE old == [m \in {t} |-> 0]
           dist == populateDistances(old, t)
<1>4. /\ DOMAIN dist = {t} \union supsets[t]
      /\ Fresh(old, t) \in SUBSET ASTNode
      /\ {t} \union supsets[t] = {t} \union Fresh(old, t)
  <2>1. GraphOK /\ {t} \in SUBSET ASTNode /\ old \in [{t} -> Nat] /\ t \in {t}
    BY <1>3 DEF Inv
  <2>2. /\ DOMAIN dist = {t} \union supsets[t]
        /\ Fresh(old, t) \in SUBSET ASTNode
        /\ {t} \union supsets[t] = {t} \union Fresh(old, t)
    BY <2>1, DistancesType
  <2> QED BY <2>2
<1>5. PICK q \in Ascending(Fresh(old, t)) : search' = Search("measure", {t}, dist, q, << >>)
  BY <1>2
<1>6. Elems(q) = Fresh(old, t)
  BY <1>4, AscendingType
<1> HIDE DEF dist, old
<1>7. /\ search'.mode = "measure" /\ search'.at = {t} /\ search'.dist = dist /\ search'.queue = q
  BY <1>5 DEF Search
<1>8. search.mode = "choose" /\ UNCHANGED <<supsets, stack>>
  BY DEF NextCandidate, Searching, graph
<1>9. frame'.node = n
  BY <1>1, <1>8 DEF frame
<1>10. AcyclicBut(Suspects)'
  BY <1>1, <1>7, <1>8, <1>9 DEF CycleInv, Suspects, AcyclicBut
<1>11. Measured'
  BY <1>4, <1>6, <1>7, <1>8 DEF Measured
<1>12. Tried'
  <2> SUFFICES ASSUME NEW s \in supsets[n], s < t PROVE Unreached(s, n)'
    BY <1>7, <1>8, <1>9 DEF Tried
  <2>1. PICK a \in search.at : ~(a < s)
    BY <1>3
  <2>2. s \in Nat /\ a \in Nat
    BY <1>1, ASTNodeAssumption DEF Inv, SearchType
  <2>3. Unreached(s, n)
    BY <1>1, <1>8, <2>1, <2>2 DEF CycleInv, Tried
  <2> QED BY <1>8, <2>3 DEF Unreached
<1> QED BY <1>10, <1>11, <1>12 DEF CycleInv

LEMMA MeasureCycles ==
    ASSUME Inv, CycleInv, Measure
    PROVE  CycleInv'
<1>1. PICK n \in ASTNode : n = frame.node
  BY DEF Measure, Searching, Inv, SearchOK, SearchOfFrame
<1>2. /\ search.mode = "measure" /\ search.queue # << >> /\ search.queue \in Seq(ASTNode)
      /\ UNCHANGED <<supsets, stack>>
  BY DEF Measure, Searching, graph, Inv, SearchType
<1>3. PICK c : /\ c = Head(search.queue)
               /\ Elems(search.queue) = {c} \union Elems(Tail(search.queue))
               /\ Tail(search.queue) \in Seq(ASTNode)
  BY <1>2, ElemsTail
<1> DEFINE D == DOMAIN search.dist
           dist == populateDistances(search.dist, c)
<1>4. D \in SUBSET ASTNode /\ search.dist \in [D -> Nat] /\ c \in D
  BY <1>2, <1>3 DEF Inv, SearchType, SearchOK, Queued
<1>5. /\ DOMAIN dist = D \union supsets[c]
      /\ Fresh(search.dist, c) \in SUBSET ASTNode
      /\ D \union supsets[c] = D \union Fresh(search.dist, c)
  <2>1. GraphOK
    BY DEF Inv
  <2> HIDE DEF D
  <2>2. /\ DOMAIN dist = D \union supsets[c]
        /\ Fresh(search.dist, c) \in SUBSET ASTNode
        /\ D \union supsets[c] = D \union Fresh(search.dist, c)
    BY <1>4, <2>1, DistancesType
  <2> QED BY <2>2
<1>6. PICK q \in Ascending(Fresh(search.dist, c)) :
          search' =
             IF n \in DOMAIN dist
             THEN Search("walk", search.at, dist, << >>, <<n>>)
             ELSE Search("measure", search.at, dist, Tail(search.queue) \o q, << >>)
  BY <1>1, <1>3 DEF Measure
<1>7. Elems(Tail(search.queue) \o q) = Elems(Tail(search.queue)) \union Fresh(search.dist, c)
  <2>1. q \in Seq(ASTNode) /\ Elems(q) = Fresh(search.dist, c)
    BY <1>5, AscendingType
  <2>2. PICK s \in Seq(ASTNode) : s = Tail(search.queue)
    BY <1>3
  <2>3. Elems(s \o q) = Elems(s) \union Elems(q)
    BY <2>1, ElemsConcat
  <2> QED BY <2>1, <2>2, <2>3
<1>8. frame'.node = n
  BY <1>1, <1>2 DEF frame
<1> HIDE DEF dist
<1>9. CASE n \in DOMAIN dist
  <2>1. search'.mode = "walk" /\ search'.path = <<n>>
    BY <1>6, <1>9 DEF Search
  <2>2. Suspects' = {n}
    BY <2>1 DEF Suspects, Elems
  <2>3. AcyclicBut(Suspects)'
    BY <1>1, <1>2, <2>2 DEF CycleInv, Suspects, AcyclicBut
  <2> QED BY <2>1, <2>3 DEF CycleInv, Tried, Measured
<1>10. CASE n \notin DOMAIN dist
  <2>1. /\ search'.mode = "measure" /\ search'.at = search.at /\ search'.dist = dist
        /\ search'.queue = Tail(search.queue) \o q
    BY <1>6, <1>10 DEF Search
  <2>2. AcyclicBut(Suspects)'
    BY <1>1, <1>2, <1>8, <2>1 DEF CycleInv, Suspects, AcyclicBut
  <2>3. Tried'
    BY <1>1, <1>2, <1>8, <2>1 DEF CycleInv, Tried, Unreached
  <2>4. Measured'
    <3> SUFFICES ASSUME NEW m \in DOMAIN dist
                 PROVE  m \in Elems(search'.queue) \/ supsets[m] \subseteq DOMAIN dist
      BY <1>2, <2>1 DEF Measured
    <3>1. CASE m \in D
      BY <1>2, <1>3, <1>5, <1>7, <2>1, <3>1 DEF CycleInv, Measured
    <3>2. CASE m \notin D
      BY <1>5, <1>7, <2>1, <3>2
    <3> QED BY <3>1, <3>2
  <2> QED BY <2>2, <2>3, <2>4 DEF CycleInv
<1> QED BY <1>9, <1>10

LEMMA NoPathCycles ==
    ASSUME Inv, CycleInv, NoPath
    PROVE  CycleInv'
<1>1. PICK n \in ASTNode : n = frame.node
  BY DEF NoPath, Searching, Inv, SearchOK, SearchOfFrame
<1>2. /\ search.mode = "measure" /\ search.queue = << >> /\ n \notin DOMAIN search.dist
      /\ search'.mode = "choose" /\ search'.at = search.at
      /\ UNCHANGED <<supsets, stack>>
  BY <1>1 DEF NoPath, Searching, Search, graph
<1>3. frame'.node = n
  BY <1>1, <1>2 DEF frame
<1>4. AcyclicBut(Suspects)'
  BY <1>1, <1>2, <1>3 DEF CycleInv, Suspects, AcyclicBut
<1>5. PICK t \in supsets[n] : search.at = {t} /\ t \in DOMAIN search.dist
  BY <1>1, <1>2 DEF Inv, SearchOK, SearchFrom
<1>6. Unreached(t, n)
  <2>1. DOMAIN search.dist \in SUBSET ASTNode
    BY DEF Inv, SearchType
  <2>2. \A m \in DOMAIN search.dist : supsets[m] \subseteq DOMAIN search.dist
    BY <1>2, NoElems DEF CycleInv, Measured
  <2> QED BY <1>2, <1>5, <2>1, <2>2 DEF Unreached
<1>7. Tried'
  <2> SUFFICES ASSUME NEW s \in supsets[n], s < t \/ s = t PROVE Unreached(s, n)'
    BY <1>2, <1>3, <1>5 DEF Tried
  <2>1. Unreached(s, n)
    BY <1>1, <1>2, <1>5, <1>6 DEF CycleInv, Tried
  <2> QED BY <1>2, <2>1 DEF Unreached
<1> QED BY <1>2, <1>4, <1>7 DEF CycleInv, Measured

(* The search has come to nothing: from no superset of the node a path      *)
(* leads back to it.                                                        *)
LEMMA NoCycleLeftCycles ==
    ASSUME Inv, CycleInv, NoCycleLeft
    PROVE  CycleInv'
<1>1. PICK n \in ASTNode : n = frame.node /\ supsets[n] \subseteq ASTNode
  BY DEF NoCycleLeft, Searching, Inv, SearchOK, SearchOfFrame, GraphOK, GraphType
<1>2. /\ search.mode = "choose" /\ After(supsets[n], search.at) = {}
      /\ search'.mode = "none" /\ UNCHANGED supsets
  BY <1>1 DEF NoCycleLeft, Searching, NoSearch, Search, graph
<1>3. \A s \in supsets[n] : Unreached(s, n)
  <2> TAKE s \in supsets[n]
  <2>1. PICK a \in search.at : ~(a < s)
    BY <1>2 DEF After
  <2>2. s \in Nat /\ a \in Nat
    BY <1>1, ASTNodeAssumption DEF Inv, SearchType
  <2> QED BY <1>1, <1>2, <2>1, <2>2 DEF CycleInv, Tried
<1>4. AcyclicBut({n})
  BY <1>1, <1>2 DEF CycleInv, Suspects
<1>5. ASSUME NEW S \in SUBSET ASTNode, S # {}
      PROVE  \E m \in S : supsets[m] \intersect S = {}
  <2>1. CASE n \notin S
    BY <1>4, <1>5, <2>1 DEF AcyclicBut
  <2>2. CASE n \in S /\ supsets[n] \intersect S = {}
    BY <2>2
  <2>3. CASE n \in S /\ supsets[n] \intersect S # {}
    <3>1. PICK s \in supsets[n] : s \in S
      BY <2>3
    <3>2. PICK C \in SUBSET ASTNode : s \in C /\ n \notin C /\ \A m \in C : supsets[m] \subseteq C
      BY <1>3 DEF Unreached
    <3>3. PICK m \in S \intersect C : supsets[m] \intersect (S \intersect C) = {}
      <4>1. S \intersect C \in SUBSET (ASTNode \ {n}) /\ S \intersect C # {}
        BY <3>1, <3>2
      <4> QED BY <1>4, <4>1 DEF AcyclicBut
    <3>4. supsets[m] \intersect S = {}
      BY <3>2, <3>3
    <3> QED BY <3>3, <3>4
  <2> QED BY <2>1, <2>2, <2>3
<1>6. AcyclicBut(Suspects)'
  BY <1>2, <1>5 DEF AcyclicBut, Suspects
<1> QED BY <1>2, <1>6 DEF CycleInv, Tried, Measured

LEMMA StepBackCycles ==
    ASSUME Inv, CycleInv, StepBack
    PROVE  CycleInv'
<1>1. search.mode = "walk" /\ search.path \in Seq(ASTNode) /\ UNCHANGED supsets
  BY DEF StepBack, Walking, Searching, graph, Inv, SearchType
<1>2. search.path # << >>
  BY <1>1 DEF Inv, SearchOK, Walked
<1>3. PICK c \in ASTNode : c = Head(search.path)
  BY <1>1, <1>2, ElemsTail
<1>4. PICK n \in subsets[c] : search' = [search EXCEPT !.path = <<n>> \o search.path]
  BY <1>3 DEF StepBack, Closer, First
<1>5. n \in ASTNode
  BY <1>4 DEF Inv, GraphOK, GraphType
<1>6. search'.mode = "walk" /\ search'.path = <<n>> \o search.path
  <2>1. search = [mode |-> search.mode, at |-> search.at, dist |-> search.dist,
                  queue |-> search.queue, path |-> search.path]
    BY DEF Inv, SearchType, Search
  <2> QED BY <1>1, <1>4, <2>1
<1>7. Elems(search'.path) = {n} \union Elems(search.path)
  BY <1>1, <1>5, <1>6, ElemsCons
<1>8. AcyclicBut(Suspects)'
  BY <1>1, <1>6, <1>7 DEF CycleInv, Suspects, AcyclicBut
<1> QED BY <1>6, <1>8 DEF CycleInv, Tried, Measured

(* A merge takes n2 out of the graph, and new edges lead only from and to   *)
(* n1, which stays a suspect.                                               *)
LEMMA MergedCycles ==
    ASSUME GraphOK,
           NEW n1 \in ASTNode, NEW n2 \in ASTNode, n1 # n2, Live(n1), Live(n2), mergeNodes(n1, n2),
           NEW D, NEW E, AcyclicBut(D), D \subseteq E \union {n2}, n1 \in E
    PROVE  AcyclicBut(E)'
<1>1. \A m, k \in ASTNode :
          k \in supsets'[m] <=>
              /\ m # n2 /\ k # n2 /\ m # k
              /\ \/ k \in supsets[m]
                 \/ m = n1 /\ k \in supsets[n2]
                 \/ k = n1 /\ n2 \in supsets[m]
  BY MergeGraph
<1>2. ASSUME NEW S \in SUBSET (ASTNode \ E), S # {}
      PROVE  \E n \in S : supsets'[n] \intersect S = {}
  <2>1. CASE n2 \in S
    BY <1>1, <1>2, <2>1
  <2>2. CASE n2 \notin S
    <3>1. PICK n \in S : supsets[n] \intersect S = {}
      BY <1>2, <2>2 DEF AcyclicBut
    <3>2. ASSUME NEW k \in supsets'[n], k \in S PROVE FALSE
      BY <1>1, <1>2, <2>2, <3>1, <3>2
    <3> QED BY <3>1, <3>2
  <2> QED BY <2>1, <2>2
<1> QED BY <1>2 DEF AcyclicBut

LEMMA MergeNextCycles ==
    ASSUME Inv, CycleInv, MergeNext
    PROVE  CycleInv'
<1>1. PICK n1 \in ASTNode, n2 \in ASTNode :
              /\ n1 # n2 /\ Live(n1) /\ Live(n2) /\ mergeNodes(n1, n2)
              /\ search.path \in Seq(ASTNode) /\ n1 = search.path[1] /\ n2 = search.path[2]
              /\ Len(search.path) >= 2
              /\ search.mode = "walk" /\ stack # << >>
              /\ \/ /\ stack' = Replace(Frame(n1)) /\ search' = NewSearch
                    /\ Len(search.path) = 2
                 \/ search' = [search EXCEPT !.path = <<n1>> \o Tail(Tail(search.path))]
  BY Merging
<1>2. PICK p \in Seq(ASTNode), w \in Seq(ASTNode), r \in Seq(ASTNode) :
          /\ p = search.path /\ r = Tail(Tail(p)) /\ w = <<n1>> \o r
          /\ Elems(p) = {n1, n2} \union Elems(r)
          /\ Elems(w) = {n1} \union Elems(r)
          /\ Len(p) = 2 => Elems(r) = {}
  <2>1. PICK p \in Seq(ASTNode) : p = search.path /\ Len(p) >= 2 /\ n1 = p[1] /\ n2 = p[2]
    BY <1>1
  <2>2. Len(p) \in Nat /\ p # << >> /\ Head(p) = n1
    BY <2>1
  <2>3. PICK s \in Seq(ASTNode) :
            s = Tail(p) /\ Elems(p) = {n1} \union Elems(s) /\ Len(s) = Len(p) - 1 /\ s[1] = n2
    <3>1. Tail(p) \in Seq(ASTNode) /\ Elems(p) = {Head(p)} \union Elems(Tail(p))
      BY <2>2, ElemsTail
    <3>2. Len(Tail(p)) = Len(p) - 1 /\ Tail(p)[1] = p[2]
      BY <2>1, <2>2
    <3> QED BY <2>1, <2>2, <3>1, <3>2
  <2>4. s # << >> /\ Head(s) = n2
    <3>1. Len(<< >>) = 0
      OBVIOUS
    <3>2. Len(s) # 0
      BY <2>1, <2>2, <2>3
    <3>3. s # << >>
      BY <3>1, <3>2
    <3> QED BY <2>3, <3>3
  <2>5. PICK r \in Seq(ASTNode) :
            r = Tail(s) /\ Elems(s) = {n2} \union Elems(r) /\ Len(r) = Len(s) - 1
    <3>1. Tail(s) \in Seq(ASTNode) /\ Elems(s) = {Head(s)} \union Elems(Tail(s))
      BY <2>4, ElemsTail
    <3>2. Len(Tail(s)) = Len(s) - 1
      BY <2>4
    <3> QED BY <2>4, <3>1, <3>2
  <2>6. Len(p) = 2 => Elems(r) = {}
    <3> SUFFICES ASSUME Len(p) = 2 PROVE Elems(r) = {}
      OBVIOUS
    <3>1. Len(r) = 0
      BY <2>3, <2>5
    <3>2. r = << >>
      BY <3>1
    <3> QED BY <3>2, NoElems
  <2>7. PICK w \in Seq(ASTNode) : w = <<n1>> \o r /\ Elems(w) = {n1} \union Elems(r)
    BY ElemsCons
  <2>8. r = Tail(Tail(p)) /\ Elems(p) = {n1, n2} \union Elems(r)
    BY <2>3, <2>5
  <2>9. /\ p = search.path /\ r = Tail(Tail(p)) /\ w = <<n1>> \o r
        /\ Elems(p) = {n1, n2} \union Elems(r)
        /\ Elems(w) = {n1} \union Elems(r)
        /\ Len(p) = 2 => Elems(r) = {}
    BY <2>1, <2>6, <2>7, <2>8
  <2> QED BY <2>9
<1>3. Suspects = Elems(p)
  BY <1>1, <1>2 DEF Suspects
<1>4. Suspects' = Elems(w) /\ search'.mode # "measure" /\ (search'.mode = "choose" => search'.at = {})
  <2>1. CASE Len(p) = 2 /\ stack' = Replace(Frame(n1)) /\ search' = NewSearch
    <3>1. frame' = Frame(n1) /\ Frame(n1).node = n1
      <4>1. Frame(n1) \in Frames
        BY FrameType
      <4>2. Head(stack') = Frame(n1)
        BY <1>1, <2>1, <4>1, Replaced
      <4> QED BY <4>2, FrameType DEF frame
    <3>2. search'.mode = "choose" /\ search'.at = {}
      BY <2>1 DEF NewSearch, Search
    <3> QED BY <1>2, <2>1, <3>1, <3>2 DEF Suspects
  <2>2. CASE search' = [search EXCEPT !.path = <<n1>> \o Tail(Tail(search.path))]
    <3>1. search'.mode = "walk" /\ search'.path = w
      BY <1>1, <1>2, <2>2 DEF Inv, SearchType, Search
    <3> QED BY <3>1 DEF Suspects
  <2> QED BY <1>1, <1>2, <2>1, <2>2
<1>5. AcyclicBut(Elems(w))'
  <2>1. GraphOK /\ AcyclicBut(Elems(p)) /\ Elems(p) \subseteq Elems(w) \union {n2} /\ n1 \in Elems(w)
    BY <1>2, <1>3 DEF Inv, CycleInv
  <2> QED BY <1>1, <2>1, MergedCycles
<1>6. AcyclicBut(Suspects)'
  BY <1>4, <1>5 DEF AcyclicBut
<1> QED BY <1>4, <1>6 DEF CycleInv, Tried, Measured

LEMMA InitCycles == Init => CycleInv
BY DEF Init, NoSearch, Search, CycleInv, AcyclicBut, Suspects, Tried, Measured

LEMMA NextCycles == Inv /\ CycleInv /\ [Next]_vars => CycleInv'
<1> SUFFICES ASSUME Inv, CycleInv, [Next]_vars PROVE CycleInv'
  OBVIOUS
<1>1. ASSUME NEW r \in Requests,
             addElementofConstraint(r) \/ addConditionalConstraint(r) \/ addSubseteqConstraint(r)
      PROVE  CycleInv'
  BY <1>1, RequestCycles
<1>2. CASE NextFunction \/ NextSuperset \/ Return
  <2>1. search.mode = "none" /\ UNCHANGED <<supsets, search>>
    BY <1>2 DEF NextFunction, NextSuperset, Return, Looping, Running, Searching, graph
  <2> QED BY <2>1, EdgesKept
<1>3. CASE SearchForEver \/ UseDeleted \/ UNCHANGED vars
  <2>1. UNCHANGED <<supsets, search, stack>>
    BY <1>3 DEF SearchForEver, UseDeleted, vars, graph
  <2> QED BY <2>1 DEF CycleInv, Suspects, Tried, Measured, AcyclicBut, Unreached, frame
<1>4. CASE \/ NextCandidate \/ Measure \/ NoPath \/ NoCycleLeft \/ StepBack \/ MergeNext
           \/ activateConditionalConstraint
  BY <1>4, NextCandidateCycles, MeasureCycles, NoPathCycles, NoCycleLeftCycles, StepBackCycles,
     MergeNextCycles, activateConditionalConstraintCycles
<1> QED BY <1>1, <1>2, <1>3, <1>4 DEF Next, Propagate

(* Whenever killCyclesAt has returned the graph has no cycle, though     *)
(* findPath looks at one superset at a time, restarts after a merge, and *)
(* may take a path that is not the shortest; and the subset sets mirror the *)
(* superset sets in every state, between two merges of a path as well.   *)
THEOREM Collapsing == Spec => []Collapsed
<1>1. Spec => [](Inv /\ CycleInv)
  BY InitInv, NextInv, InitCycles, NextCycles, PTL DEF Spec
<1>2. Inv /\ CycleInv => Collapsed
  BY DEF Inv, GraphOK, CycleInv, Collapsed, Suspects, AcyclicBut, Acyclic
<1> QED BY <1>1, <1>2, PTL
=============================================================================
