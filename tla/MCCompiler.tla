----------------------------- MODULE MCCompiler -----------------------------
(***************************************************************************)
(* The programs compiled, run and compared with C.                         *)
(***************************************************************************)
EXTENDS Compiler, AstBuild

X == Ident("x")
Y == Ident("y")
N == Ident("n")
K(v) == IntConst(v)
Neg(v) == BinExp("-", K(0), K(v))
Add(l, r) == BinExp("+", l, r)
Mul(l, r) == BinExp("*", l, r)
Sub(l, r) == BinExp("-", l, r)
Call1(f, e) == FuncCall(f, <<e>>)

-----------------------------------------------------------------------------
(* Expressions: every operator on every pair of operands of either sign,   *)
(* and every pair of operators in both associations.                       *)
Leaves == {X, Y, K(3)}
Vars   == <<Let("x", K(6)), Let("y", Neg(7))>>
Of(e)  == Program(<<Main(Vars \o <<Ret(e)>>)>>)
Pairs  == {BinExp(op, l, r) : op \in BinOps, l \in Leaves, r \in Leaves}
Nested == {BinExp(o1, BinExp(o2, X, K(3)), Y) : o1 \in BinOps, o2 \in BinOps}
            \cup {BinExp(o1, Y, BinExp(o2, K(3), X)) : o1 \in BinOps, o2 \in BinOps}
Others == {Not(X), Not(Not(Y)), Not(Sub(X, K(6))), Set("x", Set("y", K(4))),
           Add(Set("x", K(9)), X), BinExp("&&", X, Set("x", K(0)))}
ExprPrograms == {Of(e) : e \in Pairs \cup Nested \cup Others}

-----------------------------------------------------------------------------
(* Statements: control flow over a counter n and an accumulator x.         *)
Bump(v, k) == Do(Set(v, Add(Ident(v), K(k))))
Conds == {K(0), BinExp("<", N, K(2)), BinExp("==", X, K(1)), Not(X)}
Leaf  == {Bump("x", 1), Ret(X), Block(<<VarDec("z", "int"), Do(Set("z", Add(X, K(2)))), Do(Set("x", Ident("z")))>>),
          Block(<<Enum(<<"A", "B">>), Do(Set("x", Add(X, Ident("B"))))>>)}
Count(c, body) == For(Set("n", K(0)), c, Set("n", Add(N, K(1))), body)
Compound ==
    {If(c, s) : c \in Conds, s \in Leaf}
      \cup {IfElse(c, s, t) : c \in Conds, s \in Leaf, t \in {Ret(K(7)), Bump("x", 4)}}
      \cup {Count(BinExp("<", N, K(3)), s) : s \in Leaf}
      \cup {While(BinExp("<", N, K(3)), Block(<<Bump("n", 1), s>>)) : s \in Leaf}
      \cup {For(Let("i", K(0)), BinExp("<=", Ident("i"), K(1)), Set("i", Add(Ident("i"), K(1))),
                If(c, s)) : c \in Conds, s \in Leaf}
      \cup {For(VarDec("j", "int"), EmptyExpr, EmptyExpr, Block(<<Bump("x", 1), If(BinExp(">", X, K(2)), Ret(X))>>)),
            For(EmptyExpr, BinExp("<", X, K(5)), EmptyExpr, Bump("x", 2)),
            Count(BinExp("<", N, K(2)), Block(<<Let("k", K(0)), While(BinExp("<", Ident("k"), N),
                   Block(<<Bump("k", 1), Bump("x", 1)>>))>>))}
StmtProgram(s) == Program(<<Main(<<Let("x", K(0)), Let("n", K(0)), s, Ret(Add(Mul(X, K(8)), N))>>)>>)
StmtPrograms == {StmtProgram(s) : s \in Compound}

-----------------------------------------------------------------------------
(* Calls.                                                                  *)
A1 == Ident("a")
B1 == Ident("b")
Leaf1   == Fun("id", <<"a">>, <<Ret(A1)>>)
Locals1 == Fun("big", <<"b">>, <<Let("u", Mul(B1, K(2))), Let("v", K(1)), Let("w", K(1)), Ret(Add(Ident("u"), Ident("v")))>>)
Two     == Fun("minus", <<"p", "q">>, <<Ret(Sub(Ident("p"), Ident("q")))>>)
Nothing == Proc("nop", <<"e">>, <<Let("r", Ident("e")), Do(Set("r", K(2)))>>)
Early   == Proc("early", <<"t">>, <<If(Ident("t"), Ret(EmptyExpr)), Do(Call1("id", K(1)))>>)
Sum     == Fun("sum", <<"s">>, <<If(BinExp("<=", Ident("s"), K(0)), Ret(K(0))),
                                 Ret(Add(Ident("s"), Call1("sum", Sub(Ident("s"), K(1)))))>>)
Fib     == Fun("fib", <<"f">>, <<If(BinExp("<", Ident("f"), K(2)), Ret(Ident("f"))),
                                 Ret(Add(Call1("fib", Sub(Ident("f"), K(1))),
                                         Call1("fib", Sub(Ident("f"), K(2)))))>>)
Library == <<Leaf1, Locals1, Two, Nothing, Early, Sum, Fib>>

CallAtoms == {K(2), Call1("id", K(5)), Call1("big", K(3)), FuncCall("minus", <<K(9), K(4)>>), Call1("sum", K(2))}
CallExprs == CallAtoms
               \cup {BinExp(op, l, r) : op \in {"-", "<=", "||"}, l \in CallAtoms, r \in CallAtoms}
               \cup {Call1(f, e) : f \in {"id", "big"}, e \in CallAtoms}
               \cup {FuncCall("minus", <<l, r>>) : l \in CallAtoms, r \in CallAtoms}
               \cup {Call1("fib", K(3)), Not(Call1("id", K(0)))}
CallPrograms ==
    {Program(Library \o <<Main(<<Ret(e)>>)>>) : e \in CallExprs}
      \cup {Program(Library \o <<Main(<<Let("x", K(3)), Do(Call1(f, X)), Ret(Add(X, Call1(g, X)))>>)>>)
              : f \in {"id", "big", "nop", "early"}, g \in {"id", "big", "sum"}}

(* An enum constant with the name of the function, before and after the    *)
(* block it is in.                                                         *)
HidePrograms ==
    {Program(<<Fun("f", <<"a">>, <<If(A1, Block(<<Enum(<<"f">>), s>>)), Ret(A1)>>),
               Main(<<Ret(Call1("f", K(v)))>>)>>) : s \in {Do(Ident("f")), Ret(K(1))}, v \in {0, 5}}

AllPrograms == ExprPrograms \cup StmtPrograms \cup CallPrograms \cup HidePrograms

-----------------------------------------------------------------------------
(* The program of the violation run.                                       *)

(* int main() { int x = 1; if (1) x = 2; else x = 3; return x; }           *)
ElseProgram == {Program(<<Main(<<Let("x", K(1)), IfElse(K(1), Do(Set("x", K(2))), Do(Set("x", K(3)))), Ret(X)>>)>>)}

=============================================================================
