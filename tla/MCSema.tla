------------------------------- MODULE MCSema -------------------------------
(***************************************************************************)
(* Programs for the semantic checker: declarations and uses of two names   *)
(* in nested blocks, after a function whose parameter has one of them.     *)
(***************************************************************************)
EXTENDS SemaRef, AstBuild

Va == Ident("a")
Vb == Ident("b")
Items == {VarDec("a", "int"), Let("a", IntConst(1)), Let("b", Va), Do(Va), Do(Set("b", Vb)), Enum(<<"b", "c">>)}
Blocks == {Block(<<i, j>>) : i \in Items, j \in Items}
            \cup {For(i, Vb, Va, Do(Vb)) : i \in {EmptyExpr, Let("b", IntConst(0)), VarDec("a", "int")}}
            \cup {IfElse(Va, i, Block(<<j>>)) : i \in {Do(Va), VarDec("b", "int")}, j \in Items}
            \cup {While(Va, Block(<<i>>)) : i \in Items}
Bodies == {<<i, s, j>> : i \in Items, s \in Items \cup Blocks, j \in Items}

Plain == {Program(<<Fun("f", <<"p">>, <<Ret(Ident("p"))>>), Main(b)>>) : b \in Bodies}
Leaky == {Program(<<Fun("f", <<"a">>, <<Ret(Va)>>), Main(<<i, s, Ret(j)>>)>>) :
             i \in Items, s \in Blocks, j \in {Va, Not(Vb), IntConst(0)}}

(* Calls: of defined, later defined and undefined functions and of a       *)
(* variable, with the right and the wrong number of arguments.             *)
Calls == {FuncCall(f, args) : f \in {"f", "main", "g", "h", "a"},
                              args \in {<<>>, <<Va>>, <<Va, IntConst(2)>>}}
Callers == {Program(<<Fun("f", <<"p">>, <<Ret(Ident("p"))>>),
                      FuncDef("main", "int", <<>>, Block(<<Let("a", IntConst(1)), Do(c), Ret(BinExp("+", c, Va))>>)),
                      Proc("g", <<>>, <<Ret(EmptyExpr)>>)>>) : c \in Calls}
Typed == {Program(<<Proc("v", <<>>, <<Ret(EmptyExpr)>>), Main(<<s>>)>>) :
             s \in {Ret(FuncCall("v", <<>>)), Let("a", FuncCall("v", <<>>)), Ret(EmptyExpr),
                    Do(BinExp("+", IntConst(1), FuncCall("v", <<>>))),
                    While(FuncCall("v", <<>>), Ret(IntConst(1))), Let("main", IntConst(3))}}

(* A parameter with the name of a function before it, of its own or after  *)
(* it; a variable used in its own initialiser; an enum as a branch.        *)
Odd == {Program(<<Fun("f", <<x>>, <<Ret(Ident(x))>>), Fun("g", <<y>>, <<Ret(Ident(y))>>),
                  Main(<<Ret(FuncCall(h, <<IntConst(1)>>))>>)>>) :
           x \in {"f", "g", "p"}, y \in {"f", "g", "q"}, h \in {"f", "g"}}
         \cup {Program(<<Main(<<i, s, Ret(Vb)>>)>>) :
                 i \in {VarDec("a", "int"), Let("a", Va)},
                 s \in {If(IntConst(1), Enum(<<"b">>)), If(Vb, Enum(<<"b">>)), While(Va, Enum(<<"b", "a">>)),
                        Block(<<Let("b", Vb)>>), Enum(<<"b", "c", "b">>)}}

(* An enum constant with the name of the function around it or of another, *)
(* in the block of a return, behind it, or around it.                      *)
Taking == {Enum(<<"f">>), Enum(<<"b", "main">>)}
Hiding == {Program(<<Fun("f", <<"p">>, <<i, s, Ret(Ident("p"))>>),
                     Main(<<s, j, Ret(FuncCall("f", <<IntConst(1)>>))>>)>>) :
             i \in Taking \cup {Do(EmptyExpr)}, j \in Taking \cup {Do(EmptyExpr)},
             s \in {If(IntConst(1), e) : e \in Taking}
                    \cup {Block(<<e, Ret(IntConst(1))>>) : e \in Taking}
                    \cup {Block(<<Ret(IntConst(1)), e>>) : e \in Taking}
                    \cup {For(e, IntConst(1), IntConst(1), Ret(IntConst(1))) : e \in {EmptyExpr}}
                    \cup {While(IntConst(1), Block(<<e, Block(<<Ret(IntConst(1))>>)>>)) : e \in Taking}}

AllPrograms == Plain \cup Leaky \cup Callers \cup Typed \cup Odd \cup Hiding

-----------------------------------------------------------------------------
(* The program of the violation run.                                       *)

(* int f(int a) { return a; }  int main() { int a = 1; return a; }         *)
LeakDef == {Program(<<Fun("f", <<"a">>, <<Ret(Va)>>), Main(<<Let("a", IntConst(1)), Ret(Va)>>)>>)}

=============================================================================
