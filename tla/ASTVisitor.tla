----------------------------- MODULE ASTVisitor -----------------------------
(***************************************************************************)
(* The traversal accept() makes of a syntax tree.  The passes compare      *)
(* nodes by address, so a node goes with its path from the root, the       *)
(* positions of the children to follow.  A pass keeps the rest of its      *)
(* traversal as a list of calls, the next one first: visit(n) and, when it *)
(* returned true, the accept() of the children in order; then endVisit(n). *)
(***************************************************************************)
EXTENDS AST, Naturals, Sequences

Visit(path, n) == [call |-> "visit", at |-> path, node |-> n]
EndVisit(path, n) == [call |-> "endVisit", at |-> path, node |-> n]

accept(tree) == <<Visit(<< >>, tree)>>

\* What follows a visit() that returned true, and one that returned false.
Children(c) ==
    [i \in DOMAIN c.node.kids |-> Visit(Append(c.at, i), c.node.kids[i])]
        \o <<EndVisit(c.at, c.node)>>
NoChildren(c) == <<EndVisit(c.at, c.node)>>

Calls(todo, call) == todo # << >> /\ Head(todo).call = call

-----------------------------------------------------------------------------
(* The position of a traversal: a node is open from its visit() to its      *)
(* endVisit(), and a child of an open node is finished when neither of its  *)
(* calls is left.                                                           *)

Open(todo) == {todo[i] : i \in {j \in DOMAIN todo : todo[j].call = "endVisit"}}

Finished(todo) ==
    LET left == {todo[i].at : i \in DOMAIN todo}
    IN {p \in UNION {{Append(c.at, i) : i \in DOMAIN c.node.kids} : c \in Open(todo)} : p \notin left}
=============================================================================
