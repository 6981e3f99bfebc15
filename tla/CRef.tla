-------------------------------- MODULE CRef --------------------------------
(***************************************************************************)
(* What a program means in C, independently of the compiler: an            *)
(* interpreter of the tree, under the scoping rules of Scoping.  This is   *)
(* the reference the compiler is compared with, not a model of code of the *)
(* repository.                                                             *)
(***************************************************************************)
EXTENDS Scoping
LOCAL INSTANCE Bitwise

CONSTANTS WordBits, \* width of an int
          Fuel      \* calls and loop iterations before a run counts as endless

-----------------------------------------------------------------------------
(* Arithmetic.  What C leaves undefined has no value: ok is FALSE.         *)

Bound(x)   == x \in -(2^(WordBits - 1)) .. 2^(WordBits - 1) - 1
Abs(x)     == IF x < 0 THEN -x ELSE x
Quotient(l, r) == IF (l < 0) = (r < 0) THEN Abs(l) \div Abs(r) ELSE -(Abs(l) \div Abs(r))
Bits(x)    == x % 2^WordBits
Signed(x)  == IF x >= 2^(WordBits - 1) THEN x - 2^WordBits ELSE x
Truth(b)   == IF b THEN 1 ELSE 0

Apply(op, l, r) ==
    CASE op = "+"  -> l + r
      [] op = "-"  -> l - r
      [] op = "*"  -> l * r
      [] op = "/"  -> Quotient(l, r)
      [] op = "==" -> Truth(l = r)
      [] op = "!=" -> Truth(l # r)
      [] op = "<"  -> Truth(l < r)
      [] op = "<=" -> Truth(l <= r)
      [] op = ">"  -> Truth(l > r)
      [] op = ">=" -> Truth(l >= r)
      [] op = "<<" -> l * 2^r
      [] op = ">>" -> l \div 2^r
      [] op = "&"  -> Signed(Bits(l) & Bits(r))
      [] op = "|"  -> Signed(Bits(l) | Bits(r))
      [] op = "^"  -> Signed(Bits(l) ^^ Bits(r))
Legal(op, l, r) ==
    /\ op = "/" => r # 0
    /\ op \in {"<<", ">>"} => r \in 0 .. WordBits - 1
    /\ op = "<<" => l >= 0 /\ l < 2^(WordBits - 1 - r)

-----------------------------------------------------------------------------
(* The interpreter.  m: loc, the live objects of the activation; v, the    *)
(* value of the last expression; ret, whether the function has returned;   *)
(* ok and fuel.                                                            *)

With(f, k, v) == [x \in DOMAIN f \cup {k} |-> IF x = k THEN v ELSE f[x]]

Value(m, v)  == [m EXCEPT !.v = v, !.ok = @ /\ Bound(v)]
Stuck(m)     == [m EXCEPT !.ok = FALSE]
Burn(m)      == [m EXCEPT !.fuel = @ - 1, !.ok = @ /\ m.fuel > 0]
Assign(m, d) == [m EXCEPT !.loc = With(m.loc, d, m.v)]

(* Do(c, n, m): the memory after node n, an expression or a statement, is  *)
(* evaluated in m.  c: the program and its bindings.  Do(c, -n, m) is the  *)
(* next round of loop n.                                                   *)
RECURSIVE Do(_, _, _)

(* An empty expression is true and does nothing.                           *)
DoOpt(c, n, m) == IF c.ns[n].type = "EMPTY_EXPR" THEN [m EXCEPT !.v = 1] ELSE Do(c, n, m)
DoAll(c, ns, m) == FoldLeft(LAMBDA acc, n : Do(c, n, acc), m, ns)

(* What is left of the activation r of function nd for its caller m.       *)
Returned(nd, r, m) ==
    LET value == IF r.ret THEN r.v ELSE 0
        known == r.ret \/ nd.ctype = "void" \/ nd.value = "main"
    IN  [r EXCEPT !.v = value, !.ok = @ /\ known, !.loc = m.loc, !.ret = m.ret]
Enter(f, vals, m) ==
    [Burn(m) EXCEPT !.loc = [d \in {<<f, i>> : i \in DOMAIN vals} |-> vals[d[2]]]]
Running(m) == m.ok /\ ~m.ret

Do(c, n, m) ==
    LET nd == c.ns[Abs(n)] IN
    CASE ~Running(m) -> m
      [] n < 0 ->
           LET t == DoOpt(c, IF nd.type = "WHILE" THEN nd.expr ELSE nd.cond, Burn(m))
               b == Do(c, nd.body, t)
           IN  IF ~t.ok \/ t.v = 0 THEN t
               ELSE IF ~Running(b) THEN b
               ELSE Do(c, n, IF nd.type = "WHILE" THEN b ELSE DoOpt(c, nd.step, b))
      [] nd.type = "INT_CONST" -> Value(m, nd.number)
      [] nd.type = "IDENT" ->
           LET d == c.bind[n] IN
           IF c.ns[d[1]].type = "ENUM" THEN Value(m, d[2] - 1)
           ELSE IF d \in DOMAIN m.loc THEN Value(m, m.loc[d]) ELSE Stuck(m)
      [] nd.type = "UNARY_EXPR" ->
           LET r == Do(c, nd.postfix_expr, m) IN Value(r, Truth(r.v = 0))
      [] nd.type = "BIN_EXP" ->
           LET l == Do(c, nd.left, m)
               r == Do(c, nd.right, l)
           IN  IF nd.op_type \in {"&&", "||"}
               THEN IF (l.v = 0) = (nd.op_type = "&&") THEN Value(l, Truth(l.v # 0))
                                                       ELSE Value(r, Truth(r.v # 0))
               ELSE IF r.ok /\ Legal(nd.op_type, l.v, r.v)
               THEN Value(r, Apply(nd.op_type, l.v, r.v)) ELSE Stuck(r)
      [] nd.type = "VAR_ASGN" ->
           Assign(Do(c, nd.rval, m), c.bind[c.ns[nd.lval].ident])
      [] nd.type = "FUNC_CALL" ->
           LET arg(acc, a) == LET r == Do(c, a, acc.m)
                              IN  [m |-> r, vals |-> Append(acc.vals, r.v)]
               all == FoldLeft(arg, [m |-> m, vals |-> <<>>], nd.args)
               f   == c.bind[n][1]
           IN  IF all.m.ok
               THEN Returned(c.ns[f], Do(c, c.ns[f].body, Enter(f, all.vals, all.m)), all.m)
               ELSE all.m
      [] nd.type = "COMP_STMT" -> DoAll(c, nd.stmts, m)
      [] nd.type = "EXPR_STMT" -> DoOpt(c, nd.expr, m)
      [] nd.type = "VAR_DEF"   -> Assign(Do(c, nd.expr, m), <<n, 0>>)
      [] nd.type = "VAR_DEC"   ->
           [m EXCEPT !.loc = [d \in DOMAIN m.loc \ {<<n, 0>>} |-> m.loc[d]]]
      [] nd.type = "RET"       -> [DoOpt(c, nd.expr, m) EXCEPT !.ret = TRUE]
      [] nd.type = "IF" ->
           LET t == Do(c, nd.if_expr, m) IN
           IF ~t.ok THEN t
           ELSE IF t.v # 0 THEN Do(c, nd.if_body, t)
           ELSE IF nd.else_body = NULL THEN t ELSE Do(c, nd.else_body, t)
      [] nd.type = "WHILE" -> Do(c, -n, m)
      [] nd.type = "FOR"   -> Do(c, -n, DoOpt(c, nd.init, m))
      [] nd.type = "ENUM"  -> m
      [] OTHER -> Stuck(m)

(* The exit status of a program, if C defines it within the fuel.          *)
Meaning(prog) ==
    LET c == [ns |-> prog.nodes, bind |-> Bindings(prog)]
        f == CHOOSE f \in Elements(prog.funcs) : c.ns[f].value = "main"
        start == [loc |-> <<>>, v |-> 0, ret |-> FALSE, ok |-> TRUE, fuel |-> Fuel]
        m == Returned(c.ns[f], Do(c, c.ns[f].body, start), start)
    IN  IF Illegal(prog) \/ ~m.ok THEN [defined |-> FALSE, value |-> 0]
        ELSE [defined |-> TRUE, value |-> m.v]

=============================================================================
