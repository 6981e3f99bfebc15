----------------------------- MODULE MCCodeGen -----------------------------
(***************************************************************************)
(* Small checked programs for CodeGen: every name is bound to one symbol,  *)
(* as the semantic checker would with a single function of that name.      *)
(***************************************************************************)
EXTENDS CodeGen, AstBuild

Symbol(key, kind, offset) ==
    [key |-> key, kind |-> kind, ctype |-> "int", offset |-> offset, const |-> 0]
Symbols == <<
    Symbol("main", "FUNCTION", 0), Symbol("f", "FUNCTION", 0), Symbol("g", "FUNCTION", 0),
    Symbol("h", "FUNCTION", 0), Symbol("v", "FUNCTION", 0), Symbol("if0", "FUNCTION", 0), Symbol("_start", "FUNCTION", 0),
    Symbol("a", "VARIABLE", 0), Symbol("b", "VARIABLE", 0), Symbol("c", "VARIABLE", 0),
    Symbol("x", "VARIABLE", 0), Symbol("y", "VARIABLE", 4), Symbol("z", "VARIABLE", 8),
    Symbol("i", "VARIABLE", 12), Symbol("j", "VARIABLE", 16), Symbol("K", "CONST", 0) >>
SymNamed(x) == CHOOSE s \in DOMAIN Symbols : Symbols[s].key = x
Functions1  == {s \in DOMAIN Symbols : Symbols[s].kind = "FUNCTION"}

Named == {"IDENT", "FUNC_CALL", "FUNC_DEF", "VAR_DEF", "VAR_DEC"}

(* A checked program: the locals, in bytes, of each function that has any, *)
(* and what the name of the frame resolves to at every return.             *)
Checked(prog, frame, owner) ==
    [prog   |-> prog,
     syms   |-> Symbols,
     symOf  |-> [n \in {h \in DOMAIN prog.nodes : prog.nodes[h].type \in Named \cup {"RET"}} |->
                    IF prog.nodes[n].type = "RET" THEN SymNamed(owner)
                    ELSE SymNamed(prog.nodes[n].value)],
     frame  |-> [s \in Functions1 |->
                    IF Symbols[s].key \in DOMAIN frame THEN frame[Symbols[s].key] ELSE 0],
     params |-> [s \in Functions1 |->
                    CASE Symbols[s].key = "f" -> <<SymNamed("a")>>
                      [] Symbols[s].key = "h" -> <<SymNamed("b"), SymNamed("c")>>
                      [] OTHER -> <<>>]]

Callees == << Fun("f", <<"a">>, <<>>), Fun("g", <<>>, <<>>), Fun("h", <<"b", "c">>, <<>>) >>
Locals  == << VarDec("x", "int"), VarDec("y", "int"), Enum(<<"K">>) >>
Body(stmts) == Locals \o stmts
InMain(stmts, locals) ==
    Checked(Program(Callees \o <<Main(Body(stmts))>>), ("main" :> locals), "main")
InVoid(stmts, locals) ==
    Checked(Program(Callees \o <<Proc("v", <<>>, Body(stmts)), Main(<<>>)>>), ("v" :> locals), "v")

-----------------------------------------------------------------------------
(* Every expression of two operators: the register pool of NTemp = 4 is    *)
(* exhausted by some of them.                                              *)
Atoms == {IntConst(2), Ident("x")}
Ops   == {"+", "==", "<=", "&&"}
Grow(S, Rights) ==
    {BinExp(op, l, r) : op \in Ops, l \in S, r \in Rights}
      \cup {Not(e) : e \in S}
      \cup {Set("x", e) : e \in S}
      \cup {FuncCall("f", <<e>>) : e \in S}
Exprs1 == Atoms \cup Grow(Atoms, Atoms)
Exprs2 == Exprs1 \cup Grow(Exprs1, Exprs1)
ExprInputs == {InMain(<<Do(e)>>, 8) : e \in Exprs2}

(* Operands nested four deep on the right, with calls between them, and   *)
(* every operator.                                                         *)
Wraps == {"right", "not", "call", "asgn", "arg2"}
Wrap(w, e) ==
    CASE w = "right" -> BinExp("-", Ident("a"), e)
      [] w = "not"   -> Not(e)
      [] w = "call"  -> FuncCall("f", <<e>>)
      [] w = "arg2"  -> FuncCall("h", <<IntConst(1), BinExp(">=", Ident("K"), e)>>)
      [] w = "asgn"  -> Set("y", e)
DeepExprs == {Wrap(w1, Wrap(w2, Wrap(w3, Wrap(w4, IntConst(1))))) :
                 w1 \in Wraps, w2 \in Wraps, w3 \in Wraps, w4 \in Wraps}
              \cup {BinExp(op, Ident("x"), BinExp("+", IntConst(1), Ident("y"))) : op \in BinOps}
DeepInputs == {InMain(<<Ret(e)>>, 8) : e \in DeepExprs}

(* The fullest area a call can have: every temporary in use around a call  *)
(* with every argument register, between functions of each size.           *)
RECURSIVE Waiting(_, _)
Waiting(n, e) == IF n = 0 THEN e ELSE BinExp("+", IntConst(n), Waiting(n - 1, e))
Words(n) == SubSeq(<<VarDec("x", "int"), VarDec("y", "int"), VarDec("z", "int"), VarDec("i", "int")>>, 1, n)
FullInputs ==
    {Checked(Program(<<Fun("h", <<"b", "c">>, Words(m)),
                       Main(Words(n) \o <<Do(Waiting(NTemp, FuncCall("h", <<IntConst(1), IntConst(2)>>)))>>)>>),
             ("main" :> 4 * n) @@ ("h" :> 4 * m), "main") : m \in 0 .. 4, n \in 0 .. 4}
AllExprInputs == ExprInputs \cup DeepInputs \cup FullInputs

-----------------------------------------------------------------------------
(* Statements: every control statement around every other one.  A return   *)
(* has a value in main and none in the void function v; a loop's variable  *)
(* v is not one that its body declares.                                    *)
Simple == {Do(EmptyExpr), Do(Set("x", IntConst(1))), Let("z", FuncCall("f", <<IntConst(1)>>)),
           VarDec("z", "int"), Enum(<<"K">>)}
Declares(s) == s.type \in {"VAR_DEF", "VAR_DEC"}
Around(S, v) ==
    {If(Ident("x"), s) : s \in S}
      \cup {IfElse(Ident("x"), s, t) : s \in S, t \in {t \in S : ~Declares(t)}}
      \cup {While(Ident("x"), Block(<<s>>)) : s \in S}
      \cup {For(i, c, Set("x", IntConst(2)), s) :
              i \in {EmptyExpr, Let(v, IntConst(0)), Set("x", IntConst(0))},
              c \in {EmptyExpr, Ident("x")}, s \in S}
      \cup {For(VarDec(v, "int"), EmptyExpr, EmptyExpr, s) : s \in S}
Stmts(return) == LET S == Simple \cup {return} IN S \cup Around(S, "i")
Nested == Around({Block(<<s, Do(Ident("x"))>>) : s \in Around({Do(Ident("x"))}, "i")}
                   \cup {Do(EmptyExpr)}, "j")
(* int main() { enum e { main }; return 0; }, and the same in a void       *)
(* function, the constant being K here: at the return the name of the      *)
(* function is a constant's.                                               *)
EnumNamedMain ==
    {Checked(Program(<<Main(<<Enum(<<"K">>), Ret(IntConst(0))>>)>>), <<>>, "K"),
     Checked(Program(<<Proc("v", <<>>, <<Enum(<<"K">>), Ret(EmptyExpr)>>), Main(<<>>)>>), <<>>, "K")}

StmtInputs ==
    {InMain(<<s>>, 20) : s \in Stmts(Ret(Ident("x"))) \cup Nested}
      \cup {InVoid(<<s>>, 20) : s \in Stmts(Ret(EmptyExpr))}
      \cup {InMain(<<Do(EmptyExpr), s, Ret(IntConst(0))>>, 20) : s \in Around({Ret(Ident("x"))}, "i")}
      \cup {InMain(<<Ret(BinExp("+", IntConst(1), EmptyExpr))>>, 8)}
      \cup EnumNamedMain

(* Programs the assembler refuses: of functions called if0 and _start, and *)
(* without a main.                                                         *)
MCLookalikes == "if0" :> <<"if", 0, "">>
RefusedInputs ==
    {Checked(Program(<<Fun(f, <<>>, <<Do(FuncCall(f, <<>>))>>), Main(<<If(IntConst(1), Do(EmptyExpr))>>)>>), <<>>, "main")
       : f \in {"if0", "_start"}}
      \cup {Checked(Program(<<Proc("g", <<>>, <<>>)>>), <<>>, "g")}

CodeGenInputs == AllExprInputs \cup StmtInputs \cup RefusedInputs

=============================================================================
