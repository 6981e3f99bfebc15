----------------------------- MODULE MCFrontEnd -----------------------------
(***************************************************************************)
(* The files for the runs of the front end: programs written out from      *)
(* their trees in several layouts, and the same with one token missing,    *)
(* wrong or in excess, or cut off.                                         *)
(***************************************************************************)
EXTENDS FrontEnd, FiniteSets, TLC

B == INSTANCE AstBuild

MCLetters == {"f", "x", "y", "e", "i", "n", "t", "v", "o", "d", "r", "u", "l", "s", "w", "h",
              "m", "a"}

X == Ident(<<"x">>)
Y == Ident(<<"y">>)
One == IntConst(1)
IntType == <<"i", "n", "t">>
Main(ss) == FuncDef(<<"m", "a", "i", "n">>, IntType, <<>>, CompStmt(ss))
Set(e)   == VarAsgn(Lval(X), e)
F(args)  == FuncCall(<<"f">>, args)
Not(e)   == UnaryExpr("!", e)

\* An operator of each level under one of each other, on either side, and every
\* operator under its equals; calls, assignments and negations as operands.
OfEachLevel == {"*", "+", "<<", "<", "==", "&", "^", "|", "&&", "||"}
OpPairs == (OfEachLevel \X OfEachLevel)
           \cup {p \in BinOps \X BinOps : Precedence(p[1]) = Precedence(p[2])}
Unary == {X, One, F(<<>>), F(<<X, Set(One)>>), Not(X), Not(BinExp("<", X, One)), Set(Set(One))}
Exprs == {BinExp(p[1], BinExp(p[2], X, Y), One) : p \in OpPairs}
         \cup {BinExp(p[1], X, BinExp(p[2], Y, One)) : p \in OpPairs}
         \cup {BinExp("+", u, v) : u, v \in Unary}
         \cup {F(<<u>>) : u \in Unary} \cup {Set(u) : u \in Unary} \cup Unary

\* Every statement, and every statement with one inside another.
Assign  == ExprStmt(Set(One))
Simple == {Assign, Ret(X), Ret(EmptyExpr), ExprStmt(EmptyExpr), VarDec(<<"x">>, IntType),
           VarDef(<<"x">>, IntType, One), Enum(<<>>), Enum(<<<<"x">>, <<"y">>>>), CompStmt(<<>>)}
Around(s) ==
    {CompStmt(<<s, Assign>>), While(X, s), For(EmptyExpr, EmptyExpr, EmptyExpr, s),
     For(VarDef(<<"x">>, IntType, One), X, Set(One), s), For(Set(One), X, Set(Y), s),
     For(VarDec(<<"x">>, IntType), EmptyExpr, X, s),
     IfElse(X, s, B!NullTree), IfElse(Y, Assign, s), IfElse(X, CompStmt(<<s>>), Assign)}
Stmts == Simple \cup UNION {Around(s) : s \in Simple}
         \cup UNION {UNION {Around(t) : t \in Around(s)} : s \in {Assign}}

P2 == <<Param(<<"x">>, IntType), Param(<<"y">>, IntType)>>
Bodies == {<<Ret(e)>> : e \in Exprs} \cup {<<s>> : s \in Stmts}
Trees == {<<Main(b)>> : b \in Bodies}
         \cup {<<FuncDef(<<"f">>, IntType, SubSeq(P2, 1, n), CompStmt(<<>>)), Main(<<Assign>>)>> : n \in 0 .. 2}
         \cup {<<>>}

-----------------------------------------------------------------------------
\* From tokens to characters.
Spelling ==
    [kw \in Keywords |-> Spelled(kw)]
    @@ [type \in {p.type : p \in Pairs} |->
          LET p == CHOOSE q \in Pairs : q.type = type IN <<p.first, p.second>>]
    @@ [type \in Punctuation \cup LookAhead |-> <<type>>]
Digit(n) == <<Digits[n + 1]>>
Spell(t) == IF t.type \in {"IDENT", "TYPE"} THEN t.value
            ELSE IF t.type = "NUM" THEN Digit(t.number) ELSE Spelling[t.type]

\* A text is what stands behind every token, which is a blank, a comment, or
\* nothing where two tokens do not need it.
Blank   == <<" ">>
Comment == <<"/", "/", "x", "\n", "\t">>
Tight   == <<>>
Needed(left, right) ==
    \/ {left.type, right.type} \subseteq {"IDENT", "TYPE", "NUM"} \cup Keywords
    \/ {left.type, right.type} \subseteq LookAhead
Written(stream, gap) ==
    Joined([i \in DOMAIN stream |->
        Spell(stream[i]) \o
        IF gap = Tight /\ i < Len(stream) /\ Needed(stream[i], stream[i + 1])
        THEN Blank ELSE gap])

FewBodies ==
    {<<Ret(e)>> : e \in {F(<<X, Y>>), BinExp("+", Not(X), Set(One))}}
    \cup {<<s>> : s \in
            {IfElse(X, Assign, CompStmt(<<Assign>>)), While(X, Assign),
             For(VarDef(<<"x">>, IntType, One), X, Set(One), CompStmt(<<>>)),
             For(Set(One), X, EmptyExpr, Assign), Enum(<<<<"x">>, <<"y">>>>),
             VarDec(<<"x">>, IntType)}}
FewTrees == {<<Main(b)>> : b \in FewBodies}
            \cup {<<FuncDef(<<"f">>, IntType, P2, CompStmt(<<>>)), Main(<<>>)>>}

\* A program, the tokens it is written with, and a text of them.
Origin(p) == [program |-> p, tokens |-> UnparseProgram(p)]
File(w, gap) == [text |-> Written(w.tokens, gap), origin |-> <<w>>]
Good == {File(Origin(B!Program(l[1])), l[2]) :
            l \in (Trees \X {Blank}) \cup (FewTrees \X {Comment, Tight})}

-----------------------------------------------------------------------------
\* Files with one mistake.
Wrong == {Word(<<"x">>), Number(1), TypeWord(IntType), Sign("="), Sign("("), Sign(")"),
          Sign("}"), Sign(";"), Sign(","), Sign("else"), Sign("*")}
Streams    == {UnparseProgram(B!Program(t)) : t \in FewTrees}
Cut(s)     == {SubSeq(s, 1, k) : k \in 0 .. Len(s)}
Without(s) == {RemoveAt(s, k) : k \in DOMAIN s}
Replaced(s) == {ReplaceAt(s, k, w[1]) : k \in DOMAIN s, w \in Wrong}
Inserted(s) == {SubSeq(s, 1, k) \o w \o SubSeq(s, k + 1, Len(s)) : k \in 0 .. Len(s), w \in Wrong}
Edited(s)  == UNION {Cut(s), Without(s), Replaced(s), Inserted(s)}

NoProgram(t) == [text |-> t, origin |-> <<>>]
Trailing(s) == Written(s, Blank) \o <<"/", "/">>
Bad == UNION {{NoProgram(Written(e, Blank)) : e \in Edited(s)} \cup {NoProgram(Trailing(s))}
              : s \in Streams}
MCFiles == Good \cup Bad

CutFiles == {NoProgram(Written(s, Blank)) : s \in UNION {Cut(r) : r \in Streams}}

=============================================================================
