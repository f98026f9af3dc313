-------------------------------- MODULE AST --------------------------------
(***************************************************************************)
(* Syntax trees, as the passes after the ASTBuilder see them: a node has   *)
(* the name of its class, the identifiers it mentions (the name of a       *)
(* variable, of a function and its formals, of fields, or the operator)    *)
(* and its children in the order of its accept().                          *)
(***************************************************************************)
Node(cls, names, kids) == [cls |-> cls, names |-> names, kids |-> kids]

Leaf(cls) == Node(cls, << >>, << >>)

Variable(x) == Node("ASTVariableExpr", <<x>>, << >>)
=============================================================================
