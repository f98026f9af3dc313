----------------------------- MODULE UnionFind -----------------------------
(***************************************************************************)
(* src/src/semantic/types/solver/UnionFind.cpp.  `edges' maps a term to    *)
(* its parent; a root is its own parent.  The std::map is keyed by         *)
(* pointers but every access scans it for an equal value, so it behaves as *)
(* a function on terms.                                                    *)
(***************************************************************************)
EXTENDS TypeTerms

VARIABLE edges

(* get_parent inserts a missing term as its own parent. *)
get_parent(e, t) == IF t \in DOMAIN e THEN e[t] ELSE t

smart_insert(e, t) == [u \in DOMAIN e \union {t} |-> get_parent(e, u)]

(* The constructor: every seed term becomes a singleton tree. *)
Seeded(seed) == [t \in seed |-> t]

IsRoot(e, t) == get_parent(e, t) = t

(* The re-linking at the end of quick_union.  Its caller, Unifier::unify,   *)
(* passes two roots that are already in the map, so the smart_inserts and   *)
(* the two finds that precede the re-linking change nothing.                *)
quick_union(e, t1_root, t2_root) == [e EXCEPT ![t1_root] = t2_root]

-----------------------------------------------------------------------------
(* No path of parents returns to its start: the condition under which the   *)
(* while loop of find ends.  Every nonempty set of terms holds one whose    *)
(* parent is itself or lies outside of the set.                             *)
Forest ==
    \A S \in SUBSET DOMAIN edges : S # {} =>
        \E t \in S : edges[t] = t \/ edges[t] \notin S

(* find, without its steps: a recursion that ends on a forest.              *)
Root[t \in Term] ==
    IF IsRoot(edges, t) THEN t ELSE Root[get_parent(edges, t)]

connected(t1, t2) == Root[t1] = Root[t2]

(* The sets of terms that no edge crosses, and the pairs they keep          *)
(* together: what connected computes, without climbing.                     *)
Closed == {S \in SUBSET Term :
              \A t \in DOMAIN edges : t \in S <=> edges[t] \in S}

Classes == {e \in Term \X Term : \A S \in Closed : e[1] \in S => e[2] \in S}
=============================================================================
