------------------------------ MODULE Grammar ------------------------------
(***************************************************************************)
(* The reference for the parser: the tokens a syntax tree is written with, *)
(* by the grammar of C, with the precedence and associativity of C and     *)
(* parentheses only where they need them.                                  *)
(***************************************************************************)
EXTENDS Ast, Integers, SequencesExt

(* A token without its place in the file.                                  *)
Bare(t)     == [type |-> t.type, value |-> t.value, number |-> t.number]
Sign(type)  == <<[type |-> type, value |-> <<>>, number |-> 0]>>
Word(x)     == <<[type |-> "IDENT", value |-> x, number |-> 0]>>
TypeWord(x) == <<[type |-> "TYPE", value |-> x, number |-> 0]>>
Number(v)   == <<[type |-> "NUM", value |-> <<>>, number |-> v]>>
EnumName    == Word(<<"e">>)    \* the tree does not keep it

InParens(s) == Sign("(") \o s \o Sign(")")
Joined(parts) ==     \* by halves, so that long lists do not nest deep
    LET join[i, j \in Nat] ==
            CASE i > j -> <<>>
              [] i = j -> parts[i]
              [] i < j -> LET mid == (i + j) \div 2 IN join[i, mid] \o join[mid + 1, j]
    IN  join[1, Len(parts)]
ListOf(parts) ==
    Joined([i \in DOMAIN parts |-> IF i = 1 THEN parts[i] ELSE Sign(",") \o parts[i]])

(* How tight an operator of C binds (ISO C, 6.5).                          *)
Precedence(op) ==
    CASE op \in {"*", "/"} -> 10
      [] op \in {"+", "-"} -> 9
      [] op \in {"<<", ">>"} -> 8
      [] op \in {"<", ">", "<=", ">="} -> 7
      [] op \in {"==", "!="} -> 6
      [] op = "&"  -> 5
      [] op = "^"  -> 4
      [] op = "|"  -> 3
      [] op = "&&" -> 2
      [] op = "||" -> 1
Assigning == 0
Primary   == 12

(* print[n, tight]: the tokens of node n where an expression must bind as  *)
(* tight as `tight'; a node is made of nodes with lower ids.               *)
(* The operand of ! is a primary expression in this language.              *)
Unparse(nodes) ==
  LET print[n \in Nat, tight \in Nat] ==
    LET nd == nodes[n]
        Whole(ids)     == [i \in DOMAIN ids |-> print[ids[i], Assigning]]
        Guard(prec, s) == IF prec < tight THEN InParens(s) ELSE s
    IN CASE nd.type = "INT_CONST"  -> Number(nd.number)
         [] nd.type = "IDENT"      -> Word(nd.value)
         [] nd.type = "LVAL"       -> print[nd.ident, Assigning]
         [] nd.type = "EMPTY_EXPR" -> <<>>
         [] nd.type = "UNARY_EXPR" -> Sign(nd.op_type) \o print[nd.postfix_expr, Primary]
         [] nd.type = "BIN_EXP"    ->
              Guard(Precedence(nd.op_type),
                    print[nd.left, Precedence(nd.op_type)]
                    \o Sign(nd.op_type)
                    \o print[nd.right, Precedence(nd.op_type) + 1])
         [] nd.type = "VAR_ASGN"   ->
              Guard(Assigning, print[nd.lval, Assigning] \o Sign("=") \o print[nd.rval, Assigning])
         [] nd.type = "FUNC_CALL"  -> Word(nd.value) \o InParens(ListOf(Whole(nd.args)))
         [] nd.type = "EXPR_STMT"  -> print[nd.expr, Assigning] \o Sign(";")
         [] nd.type = "RET"        -> Sign("return") \o print[nd.expr, Assigning] \o Sign(";")
         [] nd.type = "COMP_STMT"  -> Sign("{") \o Joined(Whole(nd.stmts)) \o Sign("}")
         [] nd.type = "VAR_DEC"    -> TypeWord(nd.ctype) \o Word(nd.value) \o Sign(";")
         [] nd.type = "VAR_DEF"    -> TypeWord(nd.ctype) \o Word(nd.value) \o Sign("=")
                                      \o print[nd.expr, Assigning] \o Sign(";")
         [] nd.type = "ENUM"       -> Sign("enum") \o EnumName \o Sign("{")
                                      \o ListOf([i \in DOMAIN nd.enums |-> Word(nd.enums[i])])
                                      \o Sign("}") \o Sign(";")
         [] nd.type = "IF"         ->
              Sign("if") \o InParens(print[nd.if_expr, Assigning]) \o print[nd.if_body, Assigning]
              \o IF nd.else_body = NULL THEN <<>>
                 ELSE Sign("else") \o print[nd.else_body, Assigning]
         [] nd.type = "WHILE"      ->
              Sign("while") \o InParens(print[nd.expr, Assigning]) \o print[nd.body, Assigning]
         [] nd.type = "FOR"        ->
              Sign("for")
              \o InParens(print[nd.init, Assigning]
                          \o (IF nodes[nd.init].type \in {"VAR_DEF", "VAR_DEC"} THEN <<>>
                              ELSE Sign(";"))
                          \o print[nd.cond, Assigning] \o Sign(";") \o print[nd.step, Assigning])
              \o print[nd.body, Assigning]
         [] nd.type = "FUNC_DEF"   ->
              TypeWord(nd.ctype) \o Word(nd.value)
              \o InParens(ListOf([i \in DOMAIN nd.params |->
                                    TypeWord(nd.params[i].ctype) \o Word(nd.params[i].value)]))
              \o print[nd.body, Assigning]
  IN  print

UnparseProgram(p) ==
    Joined([i \in DOMAIN p.funcs |-> Unparse(p.nodes)[p.funcs[i], Assigning]])

(* A token sequence without what a tree does not keep: parentheses, the    *)
(* commas of lists and the name of an enum.                                *)
Skeleton(s) ==
    LET Kept == SelectSeq([i \in DOMAIN s |-> i],
                          LAMBDA i : /\ s[i].type \notin {"(", ")", ","}
                                     /\ ~(i > 1 /\ s[i - 1].type = "enum"))
    IN  [k \in DOMAIN Kept |-> s[Kept[k]]]

=============================================================================
