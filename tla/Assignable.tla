----------------------------- MODULE Assignable -----------------------------
(***************************************************************************)
(* What the weeding pass CheckAssignable asks of a node when it ends its   *)
(* visit: one check per class of node that needs the address of an         *)
(* argument.                                                               *)
(***************************************************************************)
EXTENDS AST, Naturals, Sequences

isAssignable(e) ==
    \/ e.cls = "ASTVariableExpr"
    \/ /\ e.cls = "ASTAccessExpr"
       /\ e.kids[1].cls \in {"ASTVariableExpr", "ASTDeRefExpr"}

AssignStmtAccepted(n) ==
    \/ isAssignable(n.kids[1])
    \/ n.kids[1].cls \in {"ASTDeRefExpr", "ASTElementRefrenceOperatorExpr"}

RefExprAccepted(n) ==
    \/ isAssignable(n.kids[1])
    \/ n.kids[1].cls = "ASTElementRefrenceOperatorExpr"

UpdateAccepted(n) == isAssignable(n.kids[1])

endVisit(n) ==
    /\ n.cls = "ASTAssignStmt" => AssignStmtAccepted(n)
    /\ n.cls = "ASTRefExpr" => RefExprAccepted(n)
    /\ n.cls \in {"ASTIncrementStmt", "ASTDecrementStmt",
                  "ASTForRangeStmt", "ASTForIterStmt"} => UpdateAccepted(n)
=============================================================================
