-------------------------------- MODULE Ast --------------------------------
(***************************************************************************)
(* The abstract syntax tree the parser hands to the semantic checker and   *)
(* to the code generator (include/mylang/ast.h, src/ast.c).                *)
(*                                                                         *)
(* A program is a heap of nodes and the list of its function definitions:  *)
(*     [nodes |-> Seq(node), funcs |-> Seq(node id)]                       *)
(* A child is the id of a node of the heap, as it is an AstNode * in the   *)
(* code; NULL is the null pointer.  Every constructor below is one of the  *)
(* make_ast_* functions: it fills the node and leaves the annotations of   *)
(* the semantic checker (the `symbol' and `func' fields) to that module.   *)
(***************************************************************************)
EXTENDS Naturals, Sequences

NULL == 0

IntConst(v)         == [type |-> "INT_CONST", number |-> v]
Ident(x)            == [type |-> "IDENT", value |-> x]
UnaryExpr(op, e)    == [type |-> "UNARY_EXPR", op_type |-> op, postfix_expr |-> e]
BinExp(op, l, r)    == [type |-> "BIN_EXP", op_type |-> op, left |-> l, right |-> r]
FuncCall(f, args)   == [type |-> "FUNC_CALL", value |-> f, args |-> args]
Lval(ident)         == [type |-> "LVAL", ident |-> ident]
VarAsgn(lval, rval) == [type |-> "VAR_ASGN", lval |-> lval, rval |-> rval]
EmptyExpr           == [type |-> "EMPTY_EXPR"]

CompStmt(stmts)     == [type |-> "COMP_STMT", stmts |-> stmts]
ExprStmt(e)         == [type |-> "EXPR_STMT", expr |-> e]
Ret(e)              == [type |-> "RET", expr |-> e]
IfElse(c, t, e)     == [type |-> "IF", if_expr |-> c, if_body |-> t, else_body |-> e]
While(c, b)         == [type |-> "WHILE", expr |-> c, body |-> b]
For(i, c, s, b)     == [type |-> "FOR", init |-> i, cond |-> c, step |-> s, body |-> b]
VarDef(x, ty, e)    == [type |-> "VAR_DEF", value |-> x, ctype |-> ty, expr |-> e]
VarDec(x, ty)       == [type |-> "VAR_DEC", value |-> x, ctype |-> ty]
Enum(consts)        == [type |-> "ENUM", enums |-> consts]

Param(x, ty)        == [value |-> x, ctype |-> ty]
FuncDef(f, ty, ps, b) ==
    [type |-> "FUNC_DEF", value |-> f, ctype |-> ty, params |-> ps, body |-> b]

ExprTypes == {"INT_CONST", "IDENT", "UNARY_EXPR", "BIN_EXP", "FUNC_CALL",
              "LVAL", "VAR_ASGN", "EMPTY_EXPR"}
StmtTypes == {"COMP_STMT", "EXPR_STMT", "RET", "IF", "WHILE", "FOR",
              "VAR_DEF", "VAR_DEC", "ENUM"}

(* The binary operators eval_bin_exp has a case for, by the number of      *)
(* scratch registers that case allocates.                                  *)
InPlaceOps == {"+", "-", "*", "/"}
OneRegOps  == {"==", "!=", "&&", "||", "<", ">", "<<", ">>", "&", "|", "^"}
TwoRegOps  == {"<=", ">="}
BinOps     == InPlaceOps \cup OneRegOps \cup TwoRegOps

-----------------------------------------------------------------------------

Elements(s) == {s[i] : i \in DOMAIN s}
IsVector(s) == s \in Seq(Elements(s))

(* The nodes a node points to.                                             *)
Children(nd) ==
    CASE nd.type = "UNARY_EXPR" -> {nd.postfix_expr}
      [] nd.type = "BIN_EXP"    -> {nd.left, nd.right}
      [] nd.type = "FUNC_CALL"  -> Elements(nd.args)
      [] nd.type = "LVAL"       -> {nd.ident}
      [] nd.type = "VAR_ASGN"   -> {nd.lval, nd.rval}
      [] nd.type = "COMP_STMT"  -> Elements(nd.stmts)
      [] nd.type \in {"EXPR_STMT", "RET", "VAR_DEF"} -> {nd.expr}
      [] nd.type = "IF"         -> {nd.if_expr, nd.if_body, nd.else_body} \ {NULL}
      [] nd.type = "WHILE"      -> {nd.expr, nd.body}
      [] nd.type = "FOR"        -> {nd.init, nd.cond, nd.step, nd.body}
      [] nd.type = "FUNC_DEF"   -> {nd.body}
      [] OTHER -> {}

(* What the parser guarantees of a heap: the operators are those it knows, *)
(* a child was made before its parent and is no function, and only an else *)
(* branch may be NULL.  Node ids are handed out in order.                  *)
NodeOK(nodes, n) ==
    LET nd   == nodes[n]
        Kids == {k \in 1 .. (n - 1) : nodes[k].type # "FUNC_DEF"}
    IN  /\ nd.type = "UNARY_EXPR" => nd.op_type = "!" /\ nd.postfix_expr \in Kids
        /\ nd.type = "BIN_EXP"    => /\ nd.op_type \in BinOps
                                     /\ nd.left \in Kids
                                     /\ nd.right \in Kids
        /\ nd.type = "FUNC_CALL"  => nd.args \in Seq(Kids)
        /\ nd.type = "LVAL"       => nd.ident \in Kids /\ nodes[nd.ident].type = "IDENT"
        /\ nd.type = "VAR_ASGN"   => nd.lval \in Kids /\ nd.rval \in Kids
        /\ nd.type = "COMP_STMT"  => nd.stmts \in Seq(Kids)
        /\ nd.type \in {"EXPR_STMT", "RET", "VAR_DEF"} => nd.expr \in Kids
        /\ nd.type = "IF"         => /\ nd.if_expr \in Kids
                                     /\ nd.if_body \in Kids
                                     /\ nd.else_body \in Kids \cup {NULL}
        /\ nd.type = "WHILE"      => nd.expr \in Kids /\ nd.body \in Kids
        /\ nd.type = "FOR"        => /\ nd.init \in Kids /\ nd.cond \in Kids
                                     /\ nd.step \in Kids /\ nd.body \in Kids
        /\ nd.type = "ENUM"       => IsVector(nd.enums)
        /\ nd.type = "FUNC_DEF"   => nd.body \in Kids /\ IsVector(nd.params)
        /\ nd.type \in ExprTypes \cup StmtTypes \cup {"FUNC_DEF"}

HeapOK(prog) ==
    /\ IsVector(prog.nodes)
    /\ prog.funcs \in Seq({n \in DOMAIN prog.nodes : prog.nodes[n].type = "FUNC_DEF"})
    /\ \A n \in DOMAIN prog.nodes : NodeOK(prog.nodes, n)

(* Every node is a function of the program or a part of another node.      *)
NoneLoose(prog) ==
    \A n \in DOMAIN prog.nodes :
        \/ n \in Elements(prog.funcs)
        \/ \E m \in DOMAIN prog.nodes : n \in Children(prog.nodes[m])

(* And it is a part of one node only, once: the parts of a node were made  *)
(* in the order in which the source has them.                              *)
Rising(s) == \A i, j \in DOMAIN s : i < j => s[i] < s[j]
PartsRise(nd) ==
    /\ nd.type = "BIN_EXP"   => nd.left < nd.right
    /\ nd.type = "FUNC_CALL" => Rising(nd.args)
    /\ nd.type = "VAR_ASGN"  => nd.lval < nd.rval
    /\ nd.type = "COMP_STMT" => Rising(nd.stmts)
    /\ nd.type = "IF"        => /\ nd.if_expr < nd.if_body
                                /\ nd.else_body # NULL => nd.if_body < nd.else_body
    /\ nd.type = "WHILE"     => nd.expr < nd.body
    /\ nd.type = "FOR"       => nd.init < nd.cond /\ nd.cond < nd.step /\ nd.step < nd.body
NoneShared(prog) ==
    /\ Rising(prog.funcs)
    /\ \A n \in DOMAIN prog.nodes : PartsRise(prog.nodes[n])
    /\ \A m, n \in DOMAIN prog.nodes :
         Children(prog.nodes[m]) \cap Children(prog.nodes[n]) # {} => m = n

ProgramOK(prog) == HeapOK(prog) /\ NoneLoose(prog) /\ NoneShared(prog)

FuncName(prog, i) == prog.nodes[prog.funcs[i]].value
FuncNames(prog)   == {FuncName(prog, i) : i \in DOMAIN prog.funcs}

(* No two functions have one name, and who is called is a function.        *)
NamesOK(prog) ==
    /\ \A i, j \in DOMAIN prog.funcs : FuncName(prog, i) = FuncName(prog, j) => i = j
    /\ \A n \in DOMAIN prog.nodes :
         prog.nodes[n].type = "FUNC_CALL" => prog.nodes[n].value \in FuncNames(prog)

(* What the checker guarantees of a program: the names of its functions,   *)
(* the symbol each node was bound to, and, per function symbol, its frame  *)
(* size and its parameters.                                                *)
InputOK(i) ==
    /\ ProgramOK(i.prog)
    /\ NamesOK(i.prog)
    /\ \A n \in DOMAIN i.prog.nodes :
         /\ i.prog.nodes[n].type \in {"IDENT", "FUNC_CALL", "RET", "FUNC_DEF", "VAR_DEF"}
              => n \in DOMAIN i.symOf /\ i.symOf[n] \in DOMAIN i.syms
         /\ i.prog.nodes[n].type \in {"FUNC_CALL", "FUNC_DEF"}
              => i.symOf[n] \in DOMAIN i.frame
    /\ \A s \in DOMAIN i.frame : i.frame[s] \in Nat /\ i.params[s] \in Seq(DOMAIN i.syms)

=============================================================================
