------------------------------- MODULE Parser -------------------------------
(***************************************************************************)
(* The recursive-descent parser of src/parse.c: from the vector of tokens  *)
(* to the program the semantic checker reads.                              *)
(*                                                                         *)
(* The calls that have not been made yet are the agenda `todo'.  A step    *)
(* takes its first item and does what the function does up to its first    *)
(* call, putting the calls that follow in front of the agenda.  What calls *)
(* return is kept on the stack `vals': the ids of nodes, and the positions *)
(* of tokens whose value will be a name in a node.  A step that reads      *)
(* through the NULL current_token() and peek() return behind the last      *)
(* token, or the value of a token that has none, is a crash.               *)
(*                                                                         *)
(* Nothing uses the definitions called Faulty...: each is the definition   *)
(* that follows it with a mistake the properties find.                     *)
(***************************************************************************)
EXTENDS Ast, Integers, FiniteSets, SequencesExt

CONSTANTS
    Streams,   \* the token sequences
    NoValue    \* the value of a token that has none (a token tokenize left unset)

VARIABLES
    tokens,    \* TokenStream.tokens
    current,   \* TokenStream.current: how many tokens have been read
    todo,      \* what is still to be parsed
    vals,      \* what the parts parsed so far returned
    prog,      \* the nodes made and the functions pushed to the result
    verdict    \* parsing, done, exit1 (a message) or crash
vars == <<tokens, current, todo, vals, prog, verdict>>

-----------------------------------------------------------------------------
(* The token stream.                                                       *)

End == "end"   \* not a type: there is no token
TypeAt(n) == IF current + n < Len(tokens) THEN tokens[current + n + 1].type ELSE End
Type == TypeAt(0)
Stray == Type # End /\ tokens[current + 1].value = NoValue

(* Comparing the next tokens with a pattern stops at the first difference; *)
(* if that is the end of the tokens, NULL is read.                         *)
Looks(pattern) ==
    LET Differs == {i \in DOMAIN pattern : TypeAt(i - 1) # pattern[i]}
    IN  IF Differs = {} THEN "yes"
        ELSE IF TypeAt(Min(Differs) - 1) = End THEN "null" ELSE "no"

IsVarAsgn       == Looks(<<"IDENT", "=">>)
IsFuncCallStart == Looks(<<"IDENT", "(">>)
IsVarDec        == Looks(<<"TYPE", "IDENT", ";">>)
IsVarDefStart   == Looks(<<"TYPE", "IDENT", "=">>)
IsDeclaration   == IF IsVarDec = "no" THEN IsVarDefStart ELSE IsVarDec

-----------------------------------------------------------------------------
(* The agenda.                                                             *)

Call(rule)   == [do |-> rule]                      \* call parse_<rule>
Expect(type) == [do |-> "expect", type |-> type]
Take(type)   == [do |-> "take", type |-> type]     \* expect, and keep the token
Operators(n) == [do |-> "operators", level |-> n]  \* the loop of a level
Loop(rule, n) == [do |-> rule, count |-> n]        \* n items are on vals
Make(type, n) == [do |-> "make", type |-> type, count |-> n, op |-> ""]
MakeOp(type, n, op) == [do |-> "make", type |-> type, count |-> n, op |-> op]

Doing(rule) == verdict = "parsing" /\ todo # <<>> /\ Head(todo).do = rule
Item == Head(todo)

Then(items) ==   \* go on with these
    /\ todo' = items \o Tail(todo)
    /\ UNCHANGED <<tokens, vals, prog, verdict>>
Stay == UNCHANGED current
NextToken == current' = IF current < Len(tokens) THEN current + 1 ELSE current

Fail(v) == verdict' = v /\ UNCHANGED <<tokens, current, todo, vals, prog>>
Crash == Fail("crash")

(* The three answers of a look ahead: follow the pointer, or fall.         *)
Decide(answer, items, otherwise) ==
    CASE answer = "yes"  -> Then(items) /\ Stay
      [] answer = "no"   -> Then(otherwise) /\ Stay
      [] answer = "null" -> Crash

-----------------------------------------------------------------------------
(* expect(): at the end of the tokens it returns NULL and complains of     *)
(* nothing; the callers that use the token then read through it.           *)
ExpectToken ==
    /\ Doing("expect")
    /\ CASE Type = End       -> Then(<<>>) /\ Stay
         [] Type = Item.type -> Then(<<>>) /\ NextToken
         [] OTHER            -> Fail("exit1")

TakeToken ==
    /\ Doing("take")
    /\ CASE Type = End -> Crash
         [] Type # End /\ Type # Item.type -> Fail("exit1")
         [] Type = Item.type ->
              IF Stray THEN Crash
              ELSE /\ vals' = Append(vals, current + 1)
                   /\ todo' = Tail(todo)
                   /\ NextToken
                   /\ UNCHANGED <<tokens, prog, verdict>>

(* make_ast_*: the node from the values its parts returned.                *)
Built(item, v) ==
    LET n == Len(v)
        name(i) == tokens[v[i]].value
    IN CASE item.type = "BIN_EXP"    -> BinExp(item.op, v[1], v[2])
         [] item.type = "UNARY_EXPR" -> UnaryExpr(item.op, v[1])
         [] item.type = "IDENT"      -> Ident(name(1))
         [] item.type = "LVAL"       -> Lval(v[1])
         [] item.type = "VAR_ASGN"   -> VarAsgn(v[1], v[2])
         [] item.type = "FUNC_CALL"  -> FuncCall(name(1), Tail(v))
         [] item.type = "EMPTY_EXPR" -> EmptyExpr
         [] item.type = "EXPR_STMT"  -> ExprStmt(v[1])
         [] item.type = "COMP_STMT"  -> CompStmt(v)
         [] item.type = "RET"        -> Ret(v[1])
         [] item.type = "IF"         -> IfElse(v[1], v[2], IF n = 3 THEN v[3] ELSE NULL)
         [] item.type = "WHILE"      -> While(v[1], v[2])
         [] item.type = "FOR"        -> For(v[1], v[2], v[3], v[4])
         [] item.type = "VAR_DEF"    -> VarDef(name(2), name(1), v[3])
         [] item.type = "VAR_DEC"    -> VarDec(name(2), name(1))
         [] item.type = "ENUM"       -> Enum([i \in 1 .. (n - 1) |-> name(i + 1)])
         [] item.type = "FUNC_DEF"   ->
              FuncDef(name(2), name(1),
                      [i \in 1 .. (n - 3) \div 2 |-> Param(name(2 * i + 2), name(2 * i + 1))],
                      v[n])

MakeNode ==
    /\ Doing("make")
    /\ LET rest == Len(vals) - Item.count
           node == Built(Item, SubSeq(vals, rest + 1, Len(vals)))
       IN  /\ prog' = [prog EXCEPT !.nodes = Append(@, node)]
           /\ vals' = Append(SubSeq(vals, 1, rest), Len(prog.nodes) + 1)
    /\ todo' = Tail(todo)
    /\ UNCHANGED <<tokens, current, verdict>>

-----------------------------------------------------------------------------
(* Expressions.                                                            *)

(* The operators of the ten levels of left-associative operators, from the *)
(* one that binds tightest: parse_multiplicative_expression and so on.     *)
ArithmeticLevels == <<{"*", "/"}, {"+", "-"}, {"<<", ">>"}>>
FaultyCompareLevels == <<{"!=", "=="}, {">", "<", ">=", "<="}>>
CompareLevels    == <<{">", "<", ">=", "<="}, {"!=", "=="}>>
BitLevels        == <<{"&"}, {"^"}, {"|"}>>
LogicLevels      == <<{"&&"}, {"||"}>>
Levels == ArithmeticLevels \o CompareLevels \o BitLevels \o LogicLevels

(* parse_<level> calls down to parse_unary_expression without looking at a *)
(* token; then the loops of the levels run, the tightest first.            *)
Operand(n) == <<Call("unary")>> \o [k \in 1 .. n |-> Operators(k)]

ParseExpression ==
    /\ Doing("expression")
    /\ Decide(IsVarAsgn, <<Call("var_asgn")>>, Operand(Len(Levels)))

(* The lvalue node is made before the assigned expression is parsed.       *)
ParseVarAsgn ==
    /\ Doing("var_asgn")
    /\ Then(<<Take("IDENT"), Make("IDENT", 1), Make("LVAL", 1), Expect("="),
              Call("expression"), Make("VAR_ASGN", 2)>>)
    /\ Stay

(* The loop of each level: an operator of the level, its right operand,    *)
(* and the node becomes the left operand of the next.                      *)
ParseOperators ==
    /\ Doing("operators")
    /\ CASE Type \notin Levels[Item.level] -> Then(<<>>) /\ Stay
         [] Type \in Levels[Item.level] /\ Stray -> Crash
         [] OTHER -> /\ Then(Operand(Item.level - 1)
                             \o <<MakeOp("BIN_EXP", 2, Type), Operators(Item.level)>>)
                     /\ NextToken

FaultyParseUnary ==
    /\ Doing("unary")
    /\ CASE Type = End \/ (Type = "!" /\ Stray) -> Crash
         [] Type = "!" /\ ~Stray -> Then(<<Call("primary")>>) /\ NextToken
         [] OTHER -> Then(<<Call("primary")>>) /\ Stay
ParseUnary ==
    /\ Doing("unary")
    /\ CASE Type = End \/ (Type = "!" /\ Stray) -> Crash
         [] Type = "!" /\ ~Stray ->
              /\ Then(<<Call("primary"), MakeOp("UNARY_EXPR", 1, "!")>>)
              /\ NextToken
         [] OTHER -> Then(<<Call("primary")>>) /\ Stay

ParseIntConst ==
    /\ Doing("primary")
    /\ Type = "NUM"
    /\ IF Stray THEN Crash
       ELSE /\ prog' = [prog EXCEPT !.nodes =
                            Append(@, IntConst(tokens[current + 1].number))]
            /\ vals' = Append(vals, Len(prog.nodes) + 1)
            /\ todo' = Tail(todo)
            /\ NextToken
            /\ UNCHANGED <<tokens, verdict>>

ParseIdent ==
    /\ Doing("primary")
    /\ Type = "IDENT"
    /\ Decide(IsFuncCallStart, <<Call("func_call")>>, <<Take("IDENT"), Make("IDENT", 1)>>)

ParseParentheses ==
    /\ Doing("primary")
    /\ Type = "("
    /\ Then(<<Call("expression"), Expect(")")>>)
    /\ NextToken

(* Anything else is the empty expression, and is left where it is.         *)
ParseEmpty ==
    /\ Doing("primary")
    /\ Type \notin {"NUM", "IDENT", "("}
    /\ Then(<<Make("EMPTY_EXPR", 0)>>)
    /\ Stay

ParseFuncCall ==
    /\ Doing("func_call")
    /\ Then(<<Take("IDENT"), Expect("("), Loop("args", 1)>>)
    /\ Stay

(* The arguments: the loop, and the test after each of them.               *)
CallDone == <<Expect(")"), Make("FUNC_CALL", Item.count)>>
ParseArgs ==
    /\ Doing("args")
    /\ CASE Type = End -> Crash
         [] Type = ")" -> Then(CallDone) /\ Stay
         [] OTHER -> Then(<<Call("expression"), Loop("after_arg", Item.count + 1)>>) /\ Stay

FaultyParseAfterArg ==
    /\ Doing("after_arg")
    /\ CASE Type = End -> Crash
         [] Type = ")" -> Then(CallDone) /\ Stay
         [] OTHER -> Then(<<Item>>) /\ Stay
ParseAfterArg ==
    /\ Doing("after_arg")
    /\ CASE Type = End -> Crash
         [] Type = ")" -> Then(CallDone) /\ Stay
         [] OTHER -> Then(<<Expect(","), Loop("args", Item.count)>>) /\ Stay

-----------------------------------------------------------------------------
(* Statements.                                                             *)

OfStatement(type) ==
    CASE type = "for"    -> "for"
      [] type = "while"  -> "while"
      [] type = "return" -> "return"
      [] type = "if"     -> "if"
      [] type = "enum"   -> "enum"
      [] type = "{"      -> "comp_stmt"
      [] OTHER           -> "expr_stmt"

(* Loops are recognised before declarations, and these before the rest,    *)
(* which matters only for what a truncated input makes of it.              *)
ParseStatement ==
    /\ Doing("statement")
    /\ CASE Type = End -> Crash
         [] Type \in {"while", "for"} -> Then(<<Call(Type)>>) /\ Stay
         [] OTHER -> Decide(IsDeclaration, <<Call("declaration")>>, <<Call(OfStatement(Type))>>)

(* parse_var_def or parse_var_dec.                                         *)
ParseDeclaration ==
    /\ Doing("declaration")
    /\ Then(<<Take("TYPE"), Take("IDENT")>>
            \o IF IsVarDefStart = "yes"
               THEN <<Expect("="), Call("expression"), Expect(";"), Make("VAR_DEF", 3)>>
               ELSE <<Expect(";"), Make("VAR_DEC", 2)>>)
    /\ Stay

ParseExprStmt ==
    /\ Doing("expr_stmt")
    /\ Then(<<Call("expression"), Expect(";"), Make("EXPR_STMT", 1)>>)
    /\ Stay

ParseReturn ==
    /\ Doing("return")
    /\ Then(<<Expect("return"), Call("expression"), Make("RET", 1), Expect(";")>>)
    /\ Stay

ParseIf ==
    /\ Doing("if")
    /\ Then(<<Expect("if"), Expect("("), Call("expression"), Expect(")"),
              Call("statement"), Call("else")>>)
    /\ Stay

ParseElse ==
    /\ Doing("else")
    /\ Then(IF Type = "else"
            THEN <<Expect("else"), Call("statement"), Make("IF", 3)>>
            ELSE <<Make("IF", 2)>>)
    /\ Stay

ParseWhile ==
    /\ Doing("while")
    /\ Then(<<Expect("while"), Expect("("), Call("expression"), Expect(")"),
              Call("statement"), Make("WHILE", 2)>>)
    /\ Stay

ParseFor ==
    /\ Doing("for")
    /\ Then(<<Expect("for"), Expect("("), Call("for_init"),
              Call("expression"), Expect(";"), Call("expression"), Expect(")"),
              Call("statement"), Make("FOR", 4)>>)
    /\ Stay

ParseForInit ==
    /\ Doing("for_init")
    /\ Decide(IsDeclaration, <<Call("declaration")>>, <<Call("expression"), Expect(";")>>)

ParseCompStmt ==
    /\ Doing("comp_stmt")
    /\ Then(<<Expect("{"), Loop("statements", 0)>>)
    /\ Stay

ParseStatements ==
    /\ Doing("statements")
    /\ Then(IF Type \notin {End, "}"}
            THEN <<Call("statement"), Loop("statements", Item.count + 1)>>
            ELSE <<Expect("}"), Make("COMP_STMT", Item.count)>>)
    /\ Stay

(* The name of the enum is read here and followed when the node is made;   *)
(* between the two nothing else can happen to a missing one.               *)
ParseEnum ==
    /\ Doing("enum")
    /\ Then(<<Expect("enum"), Take("IDENT"), Expect("{"), Loop("enums", 1)>>)
    /\ Stay

EnumDone == <<Expect("}"), Expect(";"), Make("ENUM", Item.count)>>
ParseEnums ==
    /\ Doing("enums")
    /\ Then(IF Type \notin {End, "}"}
            THEN <<Take("IDENT"), Loop("after_enum", Item.count + 1)>>
            ELSE EnumDone)
    /\ Stay

ParseAfterEnum ==
    /\ Doing("after_enum")
    /\ Then(IF Type \notin {End, ","} THEN EnumDone
            ELSE <<Expect(","), Loop("enums", Item.count)>>)
    /\ Stay

-----------------------------------------------------------------------------
(* Functions.                                                              *)

ParseFuncDef ==
    /\ Doing("func_def")
    /\ Then(<<Take("TYPE"), Take("IDENT"), Expect("("), Loop("params", 2)>>)
    /\ Stay

FaultyFuncRest == <<Expect(")"), Call("comp_stmt"), Make("FUNC_DEF", Item.count + 2), Call("push")>>
FuncRest == <<Expect(")"), Call("comp_stmt"), Make("FUNC_DEF", Item.count + 1), Call("push")>>
ParseFuncParams ==
    /\ Doing("params")
    /\ Then(IF Type = "TYPE"
            THEN <<Take("TYPE"), Take("IDENT"), Loop("after_param", Item.count + 2)>>
            ELSE FuncRest)
    /\ Stay

FaultyParseAfterParam ==
    /\ Doing("after_param")
    /\ IF Type = End THEN Crash
       ELSE Then(<<Expect(","), Loop("params", Item.count)>>) /\ Stay
ParseAfterParam ==
    /\ Doing("after_param")
    /\ CASE Type = End -> Crash
         [] Type = ")" -> Then(FuncRest) /\ Stay
         [] OTHER -> Then(<<Expect(","), Loop("params", Item.count)>>) /\ Stay

(* parse_prog: functions as long as there are tokens.                      *)
ParseProg ==
    /\ Doing("prog")
    /\ Type # End
    /\ Then(<<Call("func_def"), Call("prog")>>)
    /\ Stay

FaultyPushFunc ==
    /\ Doing("push")
    /\ prog' = [prog EXCEPT !.funcs = Append(@, Last(vals))]
    /\ todo' = Tail(todo)
    /\ UNCHANGED <<tokens, current, vals, verdict>>
PushFunc ==
    /\ Doing("push")
    /\ prog' = [prog EXCEPT !.funcs = Append(@, Last(vals))]
    /\ vals' = Front(vals)
    /\ todo' = Tail(todo)
    /\ UNCHANGED <<tokens, current, verdict>>

ParseDone ==
    /\ Doing("prog")
    /\ Type = End
    /\ verdict' = "done"
    /\ UNCHANGED <<tokens, current, todo, vals, prog>>

-----------------------------------------------------------------------------

Start(stream) ==
    /\ tokens = stream
    /\ current = 0
    /\ todo = <<Call("prog")>>
    /\ vals = <<>>
    /\ prog = [nodes |-> <<>>, funcs |-> <<>>]
    /\ verdict = "parsing"

Init == \E stream \in Streams : Start(stream)

ExpressionStep ==
    \/ ParseExpression \/ ParseVarAsgn \/ ParseOperators
    \/ ParseUnary \/ ParseIntConst \/ ParseIdent \/ ParseParentheses
    \/ ParseEmpty \/ ParseFuncCall \/ ParseArgs \/ ParseAfterArg

StatementStep ==
    \/ ParseStatement \/ ParseDeclaration \/ ParseExprStmt \/ ParseReturn
    \/ ParseIf \/ ParseElse \/ ParseWhile \/ ParseFor \/ ParseForInit
    \/ ParseCompStmt \/ ParseStatements
    \/ ParseEnum \/ ParseEnums \/ ParseAfterEnum

Parse ==
    \/ ExpectToken \/ TakeToken \/ MakeNode
    \/ ExpressionStep
    \/ StatementStep
    \/ ParseFuncDef \/ ParseFuncParams \/ ParseAfterParam
    \/ ParseProg \/ PushFunc \/ ParseDone

Stopped == verdict # "parsing" /\ UNCHANGED vars

Next == Parse \/ Stopped

Spec == Init /\ [][Next]_vars

(* One process that waits for nothing.                                     *)
FairSpec == Spec /\ WF_vars(Parse)

-----------------------------------------------------------------------------
(* What is kept of the parts parsed so far are tokens and nodes there are, *)
(* and a node is made of no more parts than were parsed.                   *)
TypeOK ==
    /\ current \in 0 .. Len(tokens)
    /\ verdict \in {"idle", "parsing", "done", "exit1", "crash"}
    /\ \A k \in DOMAIN vals : vals[k] \in 1 .. (Len(tokens) + Len(prog.nodes))
    /\ \A k \in DOMAIN prog.funcs : prog.funcs[k] \in DOMAIN prog.nodes
    /\ todo # <<>> /\ Item.do = "make" => Item.count <= Len(vals)

=============================================================================
