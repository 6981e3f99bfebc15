------------------------------ MODULE AstBuild ------------------------------
(***************************************************************************)
(* Lays a tree written with the constructors of Ast out as a heap, in the  *)
(* order in which the parser allocates the nodes: children first.  In a    *)
(* tree a child is a node rather than an id, and NullTree stands for NULL. *)
(* Used only to write down the programs of the model-checking runs.        *)
(***************************************************************************)
EXTENDS Ast, SequencesExt

NullTree == [type |-> "NULL"]

(* The fields that hold one child, in the order the parser makes them.     *)
ChildFields(t) ==
    CASE t.type = "UNARY_EXPR" -> <<"postfix_expr">>
      [] t.type = "BIN_EXP"    -> <<"left", "right">>
      [] t.type = "LVAL"       -> <<"ident">>
      [] t.type = "VAR_ASGN"   -> <<"lval", "rval">>
      [] t.type \in {"EXPR_STMT", "RET", "VAR_DEF"} -> <<"expr">>
      [] t.type = "IF"         -> <<"if_expr", "if_body", "else_body">>
      [] t.type = "WHILE"      -> <<"expr", "body">>
      [] t.type = "FOR"        -> <<"init", "cond", "step", "body">>
      [] t.type = "FUNC_DEF"   -> <<"body">>
      [] OTHER                 -> <<>>

(* The field that holds a list of children.                                *)
ListFields(t) ==
    CASE t.type = "FUNC_CALL" -> <<"args">>
      [] t.type = "COMP_STMT" -> <<"stmts">>
      [] OTHER                -> <<>>

(* Put(h, t): the heap h with t laid out in it; t's id is its length.      *)
RECURSIVE Put(_, _)
PutChild(acc, field) ==
    IF acc.node[field] = NullTree
    THEN [acc EXCEPT !.node[field] = NULL]
    ELSE LET h == Put(acc.heap, acc.node[field])
         IN  [heap |-> h, node |-> [acc.node EXCEPT ![field] = Len(h)]]

PutItem(acc, tree) ==
    LET h == Put(acc.heap, tree)
    IN  [heap |-> h, ids |-> Append(acc.ids, Len(h))]

PutList(acc, field) ==
    LET r == FoldLeft(PutItem, [heap |-> acc.heap, ids |-> <<>>], acc.node[field])
    IN  [heap |-> r.heap, node |-> [acc.node EXCEPT ![field] = r.ids]]

Put(h, t) ==
    LET kids  == FoldLeft(PutChild, [heap |-> h, node |-> t], ChildFields(t))
        lists == FoldLeft(PutList, kids, ListFields(t))
    IN  Append(lists.heap, lists.node)

(* A program from the trees of its functions, in source order.             *)
Program(funcs) ==
    LET r == FoldLeft(PutItem, [heap |-> <<>>, ids |-> <<>>], funcs)
    IN  [nodes |-> r.heap, funcs |-> r.ids]

-----------------------------------------------------------------------------
(* Abbreviations for the programs of the runs.                             *)

Block(ss)  == CompStmt(ss)
Main(ss)   == FuncDef("main", "int", <<>>, Block(ss))
Set(x, e)  == VarAsgn(Lval(Ident(x)), e)
Do(e)      == ExprStmt(e)
Let(x, e)  == VarDef(x, "int", e)
Not(e)     == UnaryExpr("!", e)
If(c, t)   == IfElse(c, t, NullTree)
IntParams(xs) == [i \in 1 .. Len(xs) |-> Param(xs[i], "int")]
Fun(f, xs, ss) == FuncDef(f, "int", IntParams(xs), Block(ss))
Proc(f, xs, ss) == FuncDef(f, "void", IntParams(xs), Block(ss))

=============================================================================
