--------------------------- MODULE FrontEndProofs ---------------------------
(***************************************************************************)
(* Proof that the parser builds only trees the semantic checker can walk   *)
(* (TreeOK), for every set of files, and that the scanner inside the front *)
(* end is the scanner Lexer describes (ScansAsAlone).                      *)
(*                                                                         *)
(* What the agenda still has to do fits what has been parsed: the stack    *)
(* `vals' has a shape, the kind of every value on it, and each item of the *)
(* agenda takes kinds from the top and leaves others (Effect).  By Inv the *)
(* effects of the items follow one another from the shape of `vals' down   *)
(* to the empty stack, so a node is always made of what its constructor    *)
(* expects, and nothing is left when parse_prog returns.  No node is lost  *)
(* on the way, or used twice (Kept): those not on the stack are in the     *)
(* tree, those on it are not yet.                                          *)
(***************************************************************************)
EXTENDS FrontEnd, ListLemmas

Kinds == {"token", "node", "ident", "func"}
Shapes == Seq(Kinds)

(* A value of a kind: the position of a token, or the id of a node; an     *)
(* identifier is a node too.                                               *)
NodeIds(type) == {n \in DOMAIN prog.nodes : prog.nodes[n].type = type}
Kids  == DOMAIN prog.nodes \ NodeIds("FUNC_DEF")
Fits(kind, x) ==
    /\ kind = "token" => x \in DOMAIN tokens
    /\ kind = "node"  => x \in Kids
    /\ kind = "ident" => x \in NodeIds("IDENT")
    /\ kind = "func"  => x \in NodeIds("FUNC_DEF")

HasShape(values, shape) ==
    /\ values \in Seq(Nat)
    /\ Len(values) = Len(shape)
    /\ \A k \in 1 .. Len(shape) : Fits(shape[k], values[k])

(* No node is lost: each is a function, a part of another node, or on the  *)
(* stack.                                                                  *)
Used(pr, n) ==
    \/ n \in Elements(pr.funcs)
    \/ \E m \in DOMAIN pr.nodes : n \in Children(pr.nodes[m])
Held(values, shape, n) ==
    \E k \in 1 .. Len(shape) : shape[k] # "token" /\ values[k] = n

(* And none has two uses: a node on the stack is no part yet, and was made *)
(* after every function and after those below it on the stack.             *)
Unused(pr, x) ==
    /\ \A m \in DOMAIN pr.nodes : x \notin Children(pr.nodes[m])
    /\ \A i \in DOMAIN pr.funcs : pr.funcs[i] < x
Apart(pr, values, shape) ==
    \A k \in 1 .. Len(shape) : shape[k] # "token" =>
        /\ Unused(pr, values[k])
        /\ \A j \in 1 .. (k - 1) : shape[j] # "token" => values[j] < values[k]
Kept(shape) ==
    /\ \A n \in DOMAIN prog.nodes : Used(prog, n) \/ Held(vals, shape, n)
    /\ Apart(prog, vals, shape)

-----------------------------------------------------------------------------
(* What a node is made of: how many values, and the kind of the i-th.      *)
Counts(type) ==
    CASE type = "EMPTY_EXPR" -> {0}
      [] type \in {"IDENT", "LVAL", "UNARY_EXPR", "EXPR_STMT", "RET"} -> {1}
      [] type \in {"BIN_EXP", "VAR_ASGN", "WHILE", "VAR_DEC"} -> {2}
      [] type = "IF"        -> {2, 3}
      [] type = "VAR_DEF"   -> {3}
      [] type = "FOR"       -> {4}
      [] type = "COMP_STMT" -> Nat
      [] type \in {"FUNC_CALL", "ENUM"} -> Nat \ {0}
      [] type = "FUNC_DEF"  -> Nat \ {0, 1, 2}
MadeTypes ==
    {"EMPTY_EXPR", "IDENT", "LVAL", "UNARY_EXPR", "EXPR_STMT", "RET", "BIN_EXP", "VAR_ASGN",
     "WHILE", "VAR_DEC", "IF", "VAR_DEF", "FOR", "COMP_STMT", "FUNC_CALL", "ENUM", "FUNC_DEF"}

IsName(type, n, i) ==
    \/ type \in {"IDENT", "VAR_DEC", "ENUM"}
    \/ type = "FUNC_CALL" /\ i = 1
    \/ type = "VAR_DEF" /\ i # 3
    \/ type = "FUNC_DEF" /\ i # n
Part(type, n, i) ==
    IF type = "LVAL" THEN "ident" ELSE IF IsName(type, n, i) THEN "token" ELSE "node"

(* Shape s is `base' with what a node of a type is made of on top.         *)
Topped(s, base, type, n) ==
    /\ s \in Shapes /\ base \in Shapes
    /\ n \in Counts(type)
    /\ Len(s) = Len(base) + n
    /\ \A k \in 1 .. Len(base) : s[k] = base[k]
    /\ \A i \in 1 .. n : s[Len(base) + i] = Part(type, n, i)

(* The calls that return a node, and the loops that collect its parts.     *)
NodeRules ==
    {"expression", "var_asgn", "unary", "primary", "func_call", "statement", "declaration",
     "expr_stmt", "return", "if", "while", "for", "for_init", "comp_stmt", "enum"}
LoopRules ==
    {"args", "after_arg", "statements", "enums", "after_enum"}
LoopMakes(rule) ==
    IF rule \in {"args", "after_arg"} THEN "FUNC_CALL"
    ELSE IF rule = "statements" THEN "COMP_STMT" ELSE "ENUM"

(* The kinds a node that was made has.                                     *)
Made(type) ==
    IF type = "FUNC_DEF" THEN {"func"} ELSE IF type = "IDENT" THEN {"ident", "node"} ELSE {"node"}
MakeOK(item) ==
    /\ item.type \in MadeTypes
    /\ item.type = "BIN_EXP" => item.op \in BinOps
    /\ item.type = "UNARY_EXPR" => item.op = "!"

(* The shapes before and after an item of the agenda and all it calls.     *)
Effect(item, s, u) ==
    \/ item.do = "expect" /\ u = s
    \/ item.do = "take" /\ item.type \in {"IDENT", "TYPE"} /\ u = Append(s, "token")
    \/ item.do \in NodeRules /\ u = Append(s, "node")
    \/ item.do \in LoopRules /\ \E base \in Shapes :
           Topped(s, base, LoopMakes(item.do), item.count) /\ u = Append(base, "node")
    \/ item.do = "operators" /\ item.level \in 1 .. 10 /\ \E base \in Shapes :
           s = Append(base, "node") /\ u = s
    \/ item.do = "else" /\ \E base \in Shapes :
           s = Append(Append(base, "node"), "node") /\ u = Append(base, "node")
    \/ item.do = "func_def" /\ s = <<>> /\ u = <<>>
    \/ item.do \in {"params", "after_param"} /\ item.count >= 2 /\ u = <<>> /\ Topped(s, u, "ENUM", item.count)
    \/ item.do = "make" /\ MakeOK(item) /\ \E base \in Shapes, kind \in Made(item.type) :
           Topped(s, base, item.type, item.count) /\ u = Append(base, kind)
    \/ item.do = "push" /\ s = Append(u, "func") /\ u = <<>>
    \/ item.do = "prog" /\ s = <<>> /\ u = <<>>

(* The effects of the items follow one another from s to u.                *)
Leads(items, s, u) ==
    /\ IsList(items)
    /\ \E at \in [1 .. (Len(items) + 1) -> Shapes] :
          /\ at[1] = s /\ at[Len(items) + 1] = u
          /\ \A j \in 1 .. Len(items) : Effect(items[j], at[j], at[j + 1])

Inv ==
    /\ IsList(tokens)
    /\ current \in 0 .. Len(tokens)
    /\ prog = [nodes |-> prog.nodes, funcs |-> prog.funcs] /\ IsList(prog.nodes)
    /\ HeapOK(prog) /\ NoneShared(prog)
    /\ \E s \in Shapes : HasShape(vals, s) /\ Kept(s) /\ Leads(todo, s, <<>>)
    /\ verdict \in {"idle", "parsing", "done", "exit1", "crash"}
    /\ verdict # "idle" => status = "done"
    /\ verdict = "done" => vals = <<>>

-----------------------------------------------------------------------------
(* Agendas.                                                                *)

LEMMA LeadsNowhere ==
    ASSUME NEW s \in Shapes
    PROVE  Leads(<<>>, s, s)
<1> DEFINE at == [j \in 1 .. 1 |-> s]
<1>1. IsList(<<>>) /\ Len(<<>>) = 0
  <2>1. <<>> \in Seq({})
    OBVIOUS
  <2> QED BY <2>1 DEF IsList
<1>2. at \in [1 .. (0 + 1) -> Shapes] /\ at[1] = s
  OBVIOUS
<1> HIDE DEF at
<1> QED BY <1>1, <1>2 DEF Leads

(* One agenda in front of another.                                         *)
LEMMA LeadsOn ==
    ASSUME NEW a, NEW b, NEW s, NEW u, NEW t, Leads(a, s, u), Leads(b, u, t)
    PROVE  Leads(a \o b, s, t)
<1>1. PICK at \in [1 .. (Len(a) + 1) -> Shapes] :
          /\ at[1] = s /\ at[Len(a) + 1] = u
          /\ \A j \in 1 .. Len(a) : Effect(a[j], at[j], at[j + 1])
  BY DEF Leads
<1>2. PICK bt \in [1 .. (Len(b) + 1) -> Shapes] :
          /\ bt[1] = u /\ bt[Len(b) + 1] = t
          /\ \A j \in 1 .. Len(b) : Effect(b[j], bt[j], bt[j + 1])
  BY DEF Leads
<1>3. IsList(a) /\ IsList(b)
  BY DEF Leads
<1>4. Len(a) \in Nat /\ Len(b) \in Nat
  BY <1>3, ListFacts
<1>5. /\ IsList(a \o b) /\ Len(a \o b) = Len(a) + Len(b)
      /\ \A k \in 1 .. Len(a) : (a \o b)[k] = a[k]
      /\ \A k \in 1 .. Len(b) : (a \o b)[Len(a) + k] = b[k]
  BY <1>3, JoinedFacts
<1> DEFINE l == Len(a)
           m == Len(b)
           ct == [j \in 1 .. (l + m + 1) |-> IF j <= l THEN at[j] ELSE bt[j - l]]
<1>6. l \in Nat /\ m \in Nat
  BY <1>4
<1>7. ct \in [1 .. (l + m + 1) -> Shapes]
  <2> SUFFICES ASSUME NEW j \in 1 .. (l + m + 1) PROVE ct[j] \in Shapes
    OBVIOUS
  <2>1. CASE j <= l
    BY <1>1, <1>6, <2>1
  <2>2. CASE j > l
    <3>1. j - l \in 1 .. (m + 1)
      BY <1>6, <2>2
    <3> QED BY <1>2, <1>6, <2>2, <3>1
  <2> QED BY <1>6, <2>1, <2>2
<1>8. ct[1] = s
  <2>1. CASE l = 0
    BY <1>1, <1>2, <1>6, <2>1
  <2>2. CASE l > 0
    BY <1>1, <1>6, <2>2
  <2> QED BY <1>6, <2>1, <2>2
<1>9. ct[l + m + 1] = t
  <2>1. l + m + 1 - l = m + 1 /\ l + m + 1 > l /\ l + m + 1 \in 1 .. (l + m + 1)
    BY <1>6
  <2> QED BY <1>2, <1>6, <2>1
<1>10. ASSUME NEW j \in 1 .. (l + m)
       PROVE  Effect((a \o b)[j], ct[j], ct[j + 1])
  <2>1. CASE j < l
    <3>1. ct[j] = at[j] /\ ct[j + 1] = at[j + 1]
      BY <1>6, <2>1
    <3>2. j \in 1 .. Len(a)
      BY <1>6, <2>1
    <3> QED BY <1>1, <1>5, <3>1, <3>2
  <2>2. CASE j = l
    <3>1. ct[j] = at[j]
      BY <1>6, <2>2
    <3>2. ct[j + 1] = u
      <4>1. j + 1 > l /\ j + 1 - l = 1 /\ j + 1 \in 1 .. (l + m + 1)
        BY <1>6, <2>2
      <4> QED BY <1>2, <1>6, <4>1
    <3>3. j \in 1 .. Len(a) /\ at[j + 1] = u
      BY <1>1, <1>6, <2>2
    <3> QED BY <1>1, <1>5, <3>1, <3>2, <3>3
  <2>3. CASE j > l
    <3> DEFINE k == j - l
    <3>1. k \in 1 .. m /\ j = l + k /\ j + 1 - l = k + 1 /\ j + 1 \in 1 .. (l + m + 1)
      BY <1>6, <2>3
    <3>2. ct[j] = bt[k] /\ ct[j + 1] = bt[k + 1]
      BY <1>6, <2>3, <3>1
    <3> HIDE DEF k, ct
    <3>3. (a \o b)[j] = b[k]
      BY <1>5, <3>1
    <3> QED BY <1>2, <3>1, <3>2, <3>3
  <2> QED BY <1>6, <2>1, <2>2, <2>3
<1>11. Len(a \o b) + 1 = l + m + 1 /\ Len(a \o b) = l + m
  BY <1>5
<1> HIDE DEF ct, l, m
<1> QED BY <1>5, <1>7, <1>8, <1>9, <1>10, <1>11 DEF Leads

(* The first item, and the rest.                                           *)
LEMMA LeadsFrom ==
    ASSUME NEW items, NEW s, NEW t, Leads(items, s, t), items # <<>>
    PROVE  /\ s \in Shapes
           /\ \E u \in Shapes : Effect(Head(items), s, u) /\ Leads(Tail(items), u, t)
<1>1. PICK at \in [1 .. (Len(items) + 1) -> Shapes] :
          /\ at[1] = s /\ at[Len(items) + 1] = t
          /\ \A j \in 1 .. Len(items) : Effect(items[j], at[j], at[j + 1])
  BY DEF Leads
<1>2. IsList(items)
  BY DEF Leads
<1>3. Len(items) \in Nat /\ Len(items) > 0 /\ Head(items) = items[1]
  BY <1>2, ListFacts
<1> DEFINE m == Len(items) - 1
           bt == [j \in 1 .. (m + 1) |-> at[j + 1]]
<1>4. IsList(Tail(items)) /\ Len(Tail(items)) = m /\ \A k \in 1 .. m : Tail(items)[k] = items[k + 1]
  BY <1>2, TailFacts
<1>5. m \in Nat /\ Len(items) = m + 1
  BY <1>3
<1> HIDE DEF m
<1>6. bt \in [1 .. (m + 1) -> Shapes] /\ bt[1] = at[2] /\ bt[m + 1] = t
  BY <1>1, <1>5
<1>7. ASSUME NEW j \in 1 .. m PROVE Effect(Tail(items)[j], bt[j], bt[j + 1])
  <2>1. j + 1 \in 1 .. Len(items) /\ bt[j] = at[j + 1] /\ bt[j + 1] = at[j + 1 + 1]
    BY <1>5
  <2> QED BY <1>1, <1>4, <2>1
<1> HIDE DEF bt
<1>8. Leads(Tail(items), at[2], t)
  BY <1>4, <1>6, <1>7 DEF Leads
<1>9. at[2] \in Shapes /\ s \in Shapes /\ Effect(Head(items), s, at[2])
  BY <1>1, <1>3, <1>5
<1> QED BY <1>8, <1>9

(* Agendas written out.                                                    *)
LEMMA Leads1 ==
    ASSUME NEW a,
           NEW s0 \in Shapes, NEW s1 \in Shapes,
           Effect(a, s0, s1)
    PROVE  Leads(<<a>>, s0, s1)
<1> DEFINE items == <<a>>
           at == <<s0, s1>>
<1>1. items \in Seq({a}) /\ Len(items) = 1
  OBVIOUS
<1>2. at \in [1 .. (1 + 1) -> Shapes] /\ at[1] = s0 /\ at[1 + 1] = s1
  OBVIOUS
<1>3. \A j \in 1 .. 1 : Effect(items[j], at[j], at[j + 1])
  OBVIOUS
<1> HIDE DEF items, at
<1>4. Leads(items, s0, s1)
  BY <1>1, <1>2, <1>3 DEF Leads, IsList
<1> QED BY <1>4 DEF items

LEMMA Leads2 ==
    ASSUME NEW a, NEW b,
           NEW s0 \in Shapes, NEW s1 \in Shapes, NEW s2 \in Shapes,
           Effect(a, s0, s1), Effect(b, s1, s2)
    PROVE  Leads(<<a, b>>, s0, s2)
<1> DEFINE items == <<a, b>>
           at == <<s0, s1, s2>>
<1>1. items \in Seq({a, b}) /\ Len(items) = 2
  OBVIOUS
<1>2. at \in [1 .. (2 + 1) -> Shapes] /\ at[1] = s0 /\ at[2 + 1] = s2
  OBVIOUS
<1>3. \A j \in 1 .. 2 : Effect(items[j], at[j], at[j + 1])
  <2>1. Effect(items[1], at[1], at[1 + 1])
    OBVIOUS
  <2>2. Effect(items[2], at[2], at[2 + 1])
    OBVIOUS
  <2> HIDE DEF items, at
  <2>3. \A j \in 1 .. 2 : j = 1 \/ j = 2
    OBVIOUS
  <2> QED BY <2>1, <2>2, <2>3
<1> HIDE DEF items, at
<1>4. Leads(items, s0, s2)
  BY <1>1, <1>2, <1>3 DEF Leads, IsList
<1> QED BY <1>4 DEF items

LEMMA Leads3 ==
    ASSUME NEW a, NEW b, NEW c,
           NEW s0 \in Shapes, NEW s1 \in Shapes, NEW s2 \in Shapes, NEW s3 \in Shapes,
           Effect(a, s0, s1), Effect(b, s1, s2), Effect(c, s2, s3)
    PROVE  Leads(<<a, b, c>>, s0, s3)
<1> DEFINE items == <<a, b, c>>
           at == <<s0, s1, s2, s3>>
<1>1. items \in Seq({a, b, c}) /\ Len(items) = 3
  OBVIOUS
<1>2. at \in [1 .. (3 + 1) -> Shapes] /\ at[1] = s0 /\ at[3 + 1] = s3
  OBVIOUS
<1>3. \A j \in 1 .. 3 : Effect(items[j], at[j], at[j + 1])
  <2>1. Effect(items[1], at[1], at[1 + 1])
    OBVIOUS
  <2>2. Effect(items[2], at[2], at[2 + 1])
    OBVIOUS
  <2>3. Effect(items[3], at[3], at[3 + 1])
    OBVIOUS
  <2> HIDE DEF items, at
  <2>4. \A j \in 1 .. 3 : j = 1 \/ j = 2 \/ j = 3
    OBVIOUS
  <2> QED BY <2>1, <2>2, <2>3, <2>4
<1> HIDE DEF items, at
<1>4. Leads(items, s0, s3)
  BY <1>1, <1>2, <1>3 DEF Leads, IsList
<1> QED BY <1>4 DEF items

LEMMA Leads4 ==
    ASSUME NEW a, NEW b, NEW c, NEW d,
           NEW s0 \in Shapes, NEW s1 \in Shapes, NEW s2 \in Shapes, NEW s3 \in Shapes, NEW s4 \in Shapes,
           Effect(a, s0, s1), Effect(b, s1, s2), Effect(c, s2, s3),
           Effect(d, s3, s4)
    PROVE  Leads(<<a, b, c, d>>, s0, s4)
<1> DEFINE items == <<a, b, c, d>>
           at == <<s0, s1, s2, s3, s4>>
<1>1. items \in Seq({a, b, c, d}) /\ Len(items) = 4
  OBVIOUS
<1>2. at \in [1 .. (4 + 1) -> Shapes] /\ at[1] = s0 /\ at[4 + 1] = s4
  OBVIOUS
<1>3. \A j \in 1 .. 4 : Effect(items[j], at[j], at[j + 1])
  <2>1. Effect(items[1], at[1], at[1 + 1])
    OBVIOUS
  <2>2. Effect(items[2], at[2], at[2 + 1])
    OBVIOUS
  <2>3. Effect(items[3], at[3], at[3 + 1])
    OBVIOUS
  <2>4. Effect(items[4], at[4], at[4 + 1])
    OBVIOUS
  <2> HIDE DEF items, at
  <2>5. \A j \in 1 .. 4 : j = 1 \/ j = 2 \/ j = 3 \/ j = 4
    OBVIOUS
  <2> QED BY <2>1, <2>2, <2>3, <2>4, <2>5
<1> HIDE DEF items, at
<1>4. Leads(items, s0, s4)
  BY <1>1, <1>2, <1>3 DEF Leads, IsList
<1> QED BY <1>4 DEF items

LEMMA Leads6 ==
    ASSUME NEW a, NEW b, NEW c, NEW d, NEW e, NEW f,
           NEW s0 \in Shapes, NEW s1 \in Shapes, NEW s2 \in Shapes, NEW s3 \in Shapes, NEW s4 \in Shapes,
           NEW s5 \in Shapes, NEW s6 \in Shapes,
           Effect(a, s0, s1), Effect(b, s1, s2), Effect(c, s2, s3),
           Effect(d, s3, s4), Effect(e, s4, s5), Effect(f, s5, s6)
    PROVE  Leads(<<a, b, c, d, e, f>>, s0, s6)
<1> DEFINE items == <<a, b, c, d, e, f>>
           at == <<s0, s1, s2, s3, s4, s5, s6>>
<1>1. items \in Seq({a, b, c, d, e, f}) /\ Len(items) = 6
  OBVIOUS
<1>2. at \in [1 .. (6 + 1) -> Shapes] /\ at[1] = s0 /\ at[6 + 1] = s6
  OBVIOUS
<1>3. \A j \in 1 .. 6 : Effect(items[j], at[j], at[j + 1])
  <2>1. Effect(items[1], at[1], at[1 + 1])
    OBVIOUS
  <2>2. Effect(items[2], at[2], at[2 + 1])
    OBVIOUS
  <2>3. Effect(items[3], at[3], at[3 + 1])
    OBVIOUS
  <2>4. Effect(items[4], at[4], at[4 + 1])
    OBVIOUS
  <2>5. Effect(items[5], at[5], at[5 + 1])
    OBVIOUS
  <2>6. Effect(items[6], at[6], at[6 + 1])
    OBVIOUS
  <2> HIDE DEF items, at
  <2>7. \A j \in 1 .. 6 : j = 1 \/ j = 2 \/ j = 3 \/ j = 4 \/ j = 5 \/ j = 6
    OBVIOUS
  <2> QED BY <2>1, <2>2, <2>3, <2>4, <2>5, <2>6, <2>7
<1> HIDE DEF items, at
<1>4. Leads(items, s0, s6)
  BY <1>1, <1>2, <1>3 DEF Leads, IsList
<1> QED BY <1>4 DEF items

LEMMA Leads9 ==
    ASSUME NEW a, NEW b, NEW c, NEW d, NEW e, NEW f, NEW g, NEW h, NEW i,
           NEW s0 \in Shapes, NEW s1 \in Shapes, NEW s2 \in Shapes, NEW s3 \in Shapes, NEW s4 \in Shapes,
           NEW s5 \in Shapes, NEW s6 \in Shapes, NEW s7 \in Shapes, NEW s8 \in Shapes, NEW s9 \in Shapes,
           Effect(a, s0, s1), Effect(b, s1, s2), Effect(c, s2, s3),
           Effect(d, s3, s4), Effect(e, s4, s5), Effect(f, s5, s6),
           Effect(g, s6, s7), Effect(h, s7, s8), Effect(i, s8, s9)
    PROVE  Leads(<<a, b, c, d, e, f, g, h, i>>, s0, s9)
<1> DEFINE items == <<a, b, c, d, e, f, g, h, i>>
           at == <<s0, s1, s2, s3, s4, s5, s6, s7, s8, s9>>
<1>1. items \in Seq({a, b, c, d, e, f, g, h, i}) /\ Len(items) = 9
  OBVIOUS
<1>2. at \in [1 .. (9 + 1) -> Shapes] /\ at[1] = s0 /\ at[9 + 1] = s9
  OBVIOUS
<1>3. \A j \in 1 .. 9 : Effect(items[j], at[j], at[j + 1])
  <2>1. Effect(items[1], at[1], at[1 + 1])
    OBVIOUS
  <2>2. Effect(items[2], at[2], at[2 + 1])
    OBVIOUS
  <2>3. Effect(items[3], at[3], at[3 + 1])
    OBVIOUS
  <2>4. Effect(items[4], at[4], at[4 + 1])
    OBVIOUS
  <2>5. Effect(items[5], at[5], at[5 + 1])
    OBVIOUS
  <2>6. Effect(items[6], at[6], at[6 + 1])
    OBVIOUS
  <2>7. Effect(items[7], at[7], at[7 + 1])
    OBVIOUS
  <2>8. Effect(items[8], at[8], at[8 + 1])
    OBVIOUS
  <2>9. Effect(items[9], at[9], at[9 + 1])
    OBVIOUS
  <2> HIDE DEF items, at
  <2>10. \A j \in 1 .. 9 : j = 1 \/ j = 2 \/ j = 3 \/ j = 4 \/ j = 5 \/ j = 6 \/ j = 7 \/ j = 8 \/ j = 9
    OBVIOUS
  <2> QED BY <2>1, <2>2, <2>3, <2>4, <2>5, <2>6, <2>7, <2>8, <2>9, <2>10
<1> HIDE DEF items, at
<1>4. Leads(items, s0, s9)
  BY <1>1, <1>2, <1>3 DEF Leads, IsList
<1> QED BY <1>4 DEF items

-----------------------------------------------------------------------------
(* Shapes and effects.                                                     *)

LEMMA Pushed ==
    ASSUME NEW s \in Shapes, NEW kind \in Kinds
    PROVE  /\ Append(s, kind) \in Shapes
           /\ Len(s) \in Nat /\ Len(Append(s, kind)) = Len(s) + 1
           /\ Append(s, kind)[Len(s) + 1] = kind
           /\ \A k \in 1 .. Len(s) : Append(s, kind)[k] = s[k]
  BY DEF Shapes

LEMMA NodePushed ==
    \A s \in Shapes : /\ Append(s, "node") \in Shapes
                      /\ Append(s, "token") \in Shapes
                      /\ Append(s, "ident") \in Shapes
                      /\ Append(s, "func") \in Shapes
  BY Pushed DEF Kinds

LEMMA SimpleEffects ==
    /\ \A type, s : Effect(P!Expect(type), s, s)
    /\ \A type \in {"IDENT", "TYPE"} : \A s : Effect(P!Take(type), s, Append(s, "token"))
    /\ \A rule \in NodeRules : \A s : Effect(P!Call(rule), s, Append(s, "node"))
    /\ \A n \in 1 .. 10 : \A base \in Shapes :
           Effect(P!Operators(n), Append(base, "node"), Append(base, "node"))
    /\ \A base \in Shapes :
           Effect(P!Call("else"), Append(Append(base, "node"), "node"), Append(base, "node"))
    /\ Effect(P!Call("func_def"), <<>>, <<>>)
    /\ Effect(P!Call("push"), Append(<<>>, "func"), <<>>)
    /\ Effect(P!Call("prog"), <<>>, <<>>)
  BY ZenonT(30) DEF Effect, P!Expect, P!Take, P!Call, P!Operators

LEMMA LoopEffect ==
    ASSUME NEW rule \in LoopRules, NEW n, NEW base \in Shapes, NEW s,
           Topped(s, base, LoopMakes(rule), n)
    PROVE  Effect(P!Loop(rule, n), s, Append(base, "node"))
  BY DEF Effect, P!Loop

LEMMA ParamsEffect ==
    ASSUME NEW rule \in {"params", "after_param"}, NEW n, n >= 2, NEW base, NEW s,
           base = <<>>, Topped(s, base, "ENUM", n)
    PROVE  Effect(P!Loop(rule, n), s, base)
  BY DEF Effect, P!Loop

LEMMA MakeEffect ==
    ASSUME NEW type \in MadeTypes, type \notin {"BIN_EXP", "UNARY_EXPR"},
           NEW n, NEW base \in Shapes, NEW s, Topped(s, base, type, n), NEW kind \in Made(type)
    PROVE  Effect(P!Make(type, n), s, Append(base, kind))
<1> DEFINE item == P!Make(type, n)
<1>1. item.do = "make" /\ item.type = type /\ item.count = n
  BY DEF P!Make
<1> HIDE DEF item
<1>2. MakeOK(item)
  BY <1>1 DEF MakeOK
<1>3. Effect(item, s, Append(base, kind))
  BY <1>1, <1>2 DEF Effect
<1> QED BY <1>3 DEF item

LEMMA MakeOpEffect ==
    ASSUME NEW type \in {"BIN_EXP", "UNARY_EXPR"}, NEW op,
           type = "BIN_EXP" => op \in BinOps, type = "UNARY_EXPR" => op = "!",
           NEW n, NEW base \in Shapes, NEW s, Topped(s, base, type, n)
    PROVE  Effect(P!MakeOp(type, n, op), s, Append(base, "node"))
<1> DEFINE item == P!MakeOp(type, n, op)
<1>1. item.do = "make" /\ item.type = type /\ item.count = n /\ item.op = op
  BY DEF P!MakeOp
<1> HIDE DEF item
<1>2. MakeOK(item) /\ "node" \in Made(item.type)
  BY <1>1 DEF MakeOK, MadeTypes, Made
<1>3. Effect(item, s, Append(base, "node"))
  BY <1>1, <1>2 DEF Effect
<1> QED BY <1>3 DEF item

LEMMA ToppedNothing ==
    ASSUME NEW base \in Shapes, NEW type, 0 \in Counts(type)
    PROVE  Topped(base, base, type, 0)
  BY DEF Topped, Shapes

(* One more part.                                                          *)
LEMMA ToppedMore ==
    ASSUME NEW s, NEW base, NEW type, NEW n \in Nat, Topped(s, base, type, n),
           NEW made, n + 1 \in Counts(made), NEW kind \in Kinds,
           kind = Part(made, n + 1, n + 1),
           \A i \in 1 .. n : Part(made, n + 1, i) = Part(type, n, i)
    PROVE  Topped(Append(s, kind), base, made, n + 1)
<1> DEFINE t == Append(s, kind)
<1>1. /\ t \in Shapes /\ Len(s) \in Nat /\ Len(t) = Len(s) + 1 /\ t[Len(s) + 1] = kind
      /\ \A k \in 1 .. Len(s) : t[k] = s[k]
  BY Pushed DEF Topped
<1>2. Len(base) \in Nat
  BY DEF Topped, Shapes
<1> HIDE DEF t
<1>3. Len(t) = Len(base) + (n + 1) /\ Len(s) + 1 = Len(base) + (n + 1) /\ Len(s) = Len(base) + n
  BY <1>1, <1>2 DEF Topped
<1>4. \A k \in 1 .. Len(base) : t[k] = base[k]
  BY <1>1, <1>2, <1>3 DEF Topped
<1>5. ASSUME NEW i \in 1 .. (n + 1) PROVE t[Len(base) + i] = Part(made, n + 1, i)
  <2>1. CASE i = n + 1
    BY <1>1, <1>3, <2>1
  <2>2. CASE i # n + 1
    <3>1. i \in 1 .. n /\ Len(base) + i \in 1 .. Len(s)
      BY <1>2, <1>3, <2>2
    <3> QED BY <1>1, <3>1 DEF Topped
  <2> QED BY <2>1, <2>2
<1> QED BY <1>1, <1>3, <1>4, <1>5 DEF Topped, t

LEMMA Topped1 ==
    ASSUME NEW base \in Shapes, NEW type, 1 \in Counts(type), NEW a \in Kinds,
           a = Part(type, 1, 1)
    PROVE  Topped(Append(base, a), base, type, 1)
<1> DEFINE t == Append(base, a)
<1>1. /\ t \in Shapes /\ Len(base) \in Nat /\ Len(t) = Len(base) + 1 /\ t[Len(base) + 1] = a
      /\ \A k \in 1 .. Len(base) : t[k] = base[k]
  BY Pushed
<1> HIDE DEF t
<1> QED BY <1>1 DEF Topped, t

LEMMA Topped2 ==
    ASSUME NEW base \in Shapes, NEW type, 2 \in Counts(type), NEW a \in Kinds, NEW b \in Kinds,
           a = Part(type, 2, 1), b = Part(type, 2, 2)
    PROVE  Topped(Append(Append(base, a), b), base, type, 2)
<1> DEFINE t == Append(Append(base, a), b)
<1>1. /\ t \in Shapes /\ Len(base) \in Nat /\ Len(t) = Len(base) + 2
      /\ t[Len(base) + 1] = a /\ t[Len(base) + 2] = b
      /\ \A k \in 1 .. Len(base) : t[k] = base[k]
  BY DEF Shapes
<1> HIDE DEF t
<1> QED BY <1>1 DEF Topped, t

LEMMA Topped3 ==
    ASSUME NEW base \in Shapes, NEW type, 3 \in Counts(type),
           NEW a \in Kinds, NEW b \in Kinds, NEW c \in Kinds,
           a = Part(type, 3, 1), b = Part(type, 3, 2), c = Part(type, 3, 3)
    PROVE  Topped(Append(Append(Append(base, a), b), c), base, type, 3)
<1> DEFINE t == Append(Append(Append(base, a), b), c)
<1>1. /\ t \in Shapes /\ Len(base) \in Nat /\ Len(t) = Len(base) + 3
      /\ t[Len(base) + 1] = a /\ t[Len(base) + 2] = b /\ t[Len(base) + 3] = c
      /\ \A k \in 1 .. Len(base) : t[k] = base[k]
  BY DEF Shapes
<1> HIDE DEF t
<1> QED BY <1>1 DEF Topped, t

LEMMA Topped4 ==
    ASSUME NEW base \in Shapes, NEW type, 4 \in Counts(type),
           NEW a \in Kinds, NEW b \in Kinds, NEW c \in Kinds, NEW d \in Kinds,
           a = Part(type, 4, 1), b = Part(type, 4, 2), c = Part(type, 4, 3), d = Part(type, 4, 4)
    PROVE  Topped(Append(Append(Append(Append(base, a), b), c), d), base, type, 4)
<1> DEFINE t == Append(Append(Append(Append(base, a), b), c), d)
<1>1. /\ t \in Shapes /\ Len(base) \in Nat /\ Len(t) = Len(base) + 4
      /\ t[Len(base) + 1] = a /\ t[Len(base) + 2] = b
      /\ t[Len(base) + 3] = c /\ t[Len(base) + 4] = d
      /\ \A k \in 1 .. Len(base) : t[k] = base[k]
  BY DEF Shapes
<1> HIDE DEF t
<1> QED BY <1>1 DEF Topped, t

-----------------------------------------------------------------------------
(* What each rule puts on the agenda in its place has its effect.          *)

Unfolds(item, items) ==
    \A s, u \in Shapes : Effect(item, s, u) => Leads(items, s, u)

LEMMA NodeRule ==
    ASSUME NEW item, item.do \in NodeRules, NEW items,
           \A s \in Shapes : Leads(items, s, Append(s, "node"))
    PROVE  Unfolds(item, items)
  BY DEF Unfolds, Effect, NodeRules, LoopRules

LEMMA LoopRule ==
    ASSUME NEW item, item.do \in LoopRules, NEW items,
           \A s, base \in Shapes : Topped(s, base, LoopMakes(item.do), item.count)
                                   => Leads(items, s, Append(base, "node"))
    PROVE  Unfolds(item, items)
  BY DEF Unfolds, Effect, NodeRules, LoopRules

LEMMA OperandLeads ==
    ASSUME NEW n \in 0 .. 10, NEW s \in Shapes
    PROVE  Leads(P!Operand(n), s, Append(s, "node"))
<1> DEFINE t == Append(s, "node")
           ops == [k \in 1 .. n |-> P!Operators(k)]
           at == [k \in 1 .. (n + 1) |-> t]
<1>1. t \in Shapes
  BY NodePushed
<1>2. \A k \in 1 .. n : Effect(P!Operators(k), t, t)
  BY SimpleEffects
<1>3. Leads(<<P!Call("unary")>>, s, t)
  <2>1. Effect(P!Call("unary"), s, t)
    BY SimpleEffects DEF NodeRules
  <2> HIDE DEF t
  <2> QED BY <1>1, <2>1, Leads1
<1> HIDE DEF t
<1>4. IsList(ops) /\ Len(ops) = n
  <2>1. n \in Nat /\ ops = [k \in 1 .. n |-> ops[k]]
    OBVIOUS
  <2> HIDE DEF ops
  <2> QED BY <2>1, FunctionIsList
<1>5. at \in [1 .. (Len(ops) + 1) -> Shapes] /\ at[1] = t /\ at[Len(ops) + 1] = t
  <2> HIDE DEF ops
  <2> QED BY <1>1, <1>4
<1>6. ASSUME NEW k \in 1 .. Len(ops) PROVE Effect(ops[k], at[k], at[k + 1])
  <2>1. k \in 1 .. n /\ at[k] = t /\ at[k + 1] = t
    BY <1>4
  <2>2. ops[k] = P!Operators(k)
    BY <2>1
  <2> QED BY <1>2, <2>1, <2>2
<1>7. Leads(ops, t, t)
  <2> HIDE DEF ops, at
  <2> QED BY <1>4, <1>5, <1>6 DEF Leads
<1>8. P!Operand(n) = <<P!Call("unary")>> \o ops
  BY DEF P!Operand
<1> HIDE DEF ops
<1>9. Leads(P!Operand(n), s, t)
  BY <1>3, <1>7, <1>8, LeadsOn
<1> QED BY <1>9 DEF t

LEMMA LevelFacts ==
    /\ Len(P!Levels) = 10
    /\ \A n \in 1 .. 10 : P!Levels[n] \subseteq BinOps
  BY DEF P!Levels, P!ArithmeticLevels, P!CompareLevels, P!BitLevels, P!LogicLevels,
         BinOps, InPlaceOps, OneRegOps, TwoRegOps

LEMMA OneCall ==
    ASSUME NEW rule \in NodeRules, NEW s \in Shapes
    PROVE  Leads(<<P!Call(rule)>>, s, Append(s, "node"))
  BY SimpleEffects, NodePushed, Leads1

(* A name: the token, and the identifier made of it.                       *)
LEMMA NameLeads ==
    ASSUME NEW s \in Shapes, NEW kind \in {"ident", "node"}
    PROVE  Leads(<<P!Take("IDENT"), P!Make("IDENT", 1)>>, s, Append(s, kind))
<1>1. Append(s, "token") \in Shapes /\ Append(s, kind) \in Shapes
  BY NodePushed
<1>2. Topped(Append(s, "token"), s, "IDENT", 1)
  BY Topped1 DEF Kinds, Counts, Part, IsName
<1>3. Effect(P!Take("IDENT"), s, Append(s, "token"))
  BY SimpleEffects
<1>4. "IDENT" \in MadeTypes /\ kind \in Made("IDENT")
  BY DEF MadeTypes, Made
<1>5. Effect(P!Make("IDENT", 1), Append(s, "token"), Append(s, kind))
  BY <1>2, <1>4, MakeEffect
<1> QED BY <1>1, <1>3, <1>5, Leads2

LEMMA VarAsgnLeads ==
    ASSUME NEW s \in Shapes
    PROVE  Leads(<<P!Take("IDENT"), P!Make("IDENT", 1), P!Make("LVAL", 1), P!Expect("="),
                   P!Call("expression"), P!Make("VAR_ASGN", 2)>>, s, Append(s, "node"))
<1> DEFINE t == Append(s, "token")
           i == Append(s, "ident")
           n == Append(s, "node")
           m == Append(n, "node")
<1>1. t \in Shapes /\ i \in Shapes /\ n \in Shapes /\ m \in Shapes
  BY NodePushed
<1>2. /\ Topped(t, s, "IDENT", 1) /\ Topped(i, s, "LVAL", 1) /\ Topped(m, s, "VAR_ASGN", 2)
  BY Topped1, Topped2 DEF Kinds, Counts, Part, IsName
<1>3. /\ Effect(P!Take("IDENT"), s, t) /\ Effect(P!Expect("="), n, n)
      /\ Effect(P!Call("expression"), n, m)
  BY SimpleEffects DEF NodeRules
<1>4. /\ {"IDENT", "LVAL", "VAR_ASGN"} \subseteq MadeTypes
      /\ "ident" \in Made("IDENT") /\ "node" \in Made("LVAL") /\ "node" \in Made("VAR_ASGN")
  BY DEF MadeTypes, Made
<1>5. Effect(P!Make("IDENT", 1), t, i)
  BY <1>2, <1>4, MakeEffect
<1>6. Effect(P!Make("LVAL", 1), i, n)
  BY <1>2, <1>4, MakeEffect
<1>7. Effect(P!Make("VAR_ASGN", 2), m, n)
  BY <1>2, <1>4, MakeEffect
<1> HIDE DEF t, i, m, n
<1>8. Leads(<<P!Take("IDENT"), P!Make("IDENT", 1), P!Make("LVAL", 1), P!Expect("="),
              P!Call("expression"), P!Make("VAR_ASGN", 2)>>, s, n)
  BY <1>1, <1>3, <1>5, <1>6, <1>7, Leads6
<1> QED BY <1>8 DEF n

LEMMA UnaryLeads ==
    ASSUME NEW s \in Shapes
    PROVE  Leads(<<P!Call("primary"), P!MakeOp("UNARY_EXPR", 1, "!")>>, s, Append(s, "node"))
<1> DEFINE n == Append(s, "node")
<1>1. n \in Shapes
  BY NodePushed
<1>2. Topped(n, s, "UNARY_EXPR", 1)
  BY Topped1 DEF Kinds, Counts, Part, IsName
<1>3. Effect(P!Call("primary"), s, n)
  BY SimpleEffects DEF NodeRules
<1>4. Effect(P!MakeOp("UNARY_EXPR", 1, "!"), n, n)
  BY <1>2, MakeOpEffect
<1> HIDE DEF n
<1>5. Leads(<<P!Call("primary"), P!MakeOp("UNARY_EXPR", 1, "!")>>, s, n)
  BY <1>1, <1>3, <1>4, Leads2
<1> QED BY <1>5 DEF n

LEMMA ParenthesesLeads ==
    ASSUME NEW s \in Shapes, NEW type
    PROVE  Leads(<<P!Call("expression"), P!Expect(type)>>, s, Append(s, "node"))
<1>1. Append(s, "node") \in Shapes
  BY NodePushed
<1>2. /\ Effect(P!Call("expression"), s, Append(s, "node"))
      /\ Effect(P!Expect(type), Append(s, "node"), Append(s, "node"))
  BY SimpleEffects DEF NodeRules
<1> QED BY <1>1, <1>2, Leads2

LEMMA EmptyLeads ==
    ASSUME NEW s \in Shapes
    PROVE  Leads(<<P!Make("EMPTY_EXPR", 0)>>, s, Append(s, "node"))
<1>1. Append(s, "node") \in Shapes
  BY NodePushed
<1>2. Topped(s, s, "EMPTY_EXPR", 0)
  BY ToppedNothing DEF Counts
<1>3. Effect(P!Make("EMPTY_EXPR", 0), s, Append(s, "node"))
  BY <1>2, MakeEffect DEF MadeTypes, Made
<1> QED BY <1>1, <1>3, Leads1

LEMMA FuncCallLeads ==
    ASSUME NEW s \in Shapes
    PROVE  Leads(<<P!Take("IDENT"), P!Expect("("), P!Loop("args", 1)>>, s, Append(s, "node"))
<1> DEFINE t == Append(s, "token")
           n == Append(s, "node")
<1>1. t \in Shapes /\ n \in Shapes
  BY NodePushed
<1>2. Topped(t, s, "FUNC_CALL", 1)
  BY Topped1 DEF Kinds, Counts, Part, IsName
<1>3. Effect(P!Loop("args", 1), t, n)
  BY <1>2, LoopEffect DEF LoopRules, LoopMakes
<1>4. Effect(P!Take("IDENT"), s, t) /\ Effect(P!Expect("("), t, t)
  BY SimpleEffects
<1> HIDE DEF t, n
<1>5. Leads(<<P!Take("IDENT"), P!Expect("("), P!Loop("args", 1)>>, s, n)
  BY <1>1, <1>3, <1>4, Leads3
<1> QED BY <1>5 DEF n

LEMMA ArgsLead ==
    ASSUME NEW base \in Shapes, NEW s \in Shapes, NEW n, Topped(s, base, "FUNC_CALL", n)
    PROVE  /\ Leads(<<P!Expect(")"), P!Make("FUNC_CALL", n)>>, s, Append(base, "node"))
           /\ Leads(<<P!Call("expression"), P!Loop("after_arg", n + 1)>>, s, Append(base, "node"))
           /\ Leads(<<P!Expect(","), P!Loop("args", n)>>, s, Append(base, "node"))
<1> DEFINE t == Append(s, "node")
           r == Append(base, "node")
<1>1. t \in Shapes /\ r \in Shapes
  BY NodePushed
<1>2. n \in Nat /\ n # 0
  BY DEF Topped, Counts
<1>3. Topped(t, base, "FUNC_CALL", n + 1)
  <2>1. n + 1 \in Counts("FUNC_CALL")
    BY <1>2 DEF Counts
  <2>2. /\ "node" = Part("FUNC_CALL", n + 1, n + 1)
        /\ \A i \in 1 .. n : Part("FUNC_CALL", n + 1, i) = Part("FUNC_CALL", n, i)
    BY <1>2 DEF Part, IsName
  <2> QED BY <1>2, <2>1, <2>2, ToppedMore DEF Kinds
<1>4. Effect(P!Make("FUNC_CALL", n), s, r)
  BY MakeEffect DEF MadeTypes, Made
<1>5. Effect(P!Loop("after_arg", n + 1), t, r) /\ Effect(P!Loop("args", n), s, r)
  BY <1>3, LoopEffect DEF LoopRules, LoopMakes
<1>6. /\ Effect(P!Expect(")"), s, s) /\ Effect(P!Expect(","), s, s)
      /\ Effect(P!Call("expression"), s, t)
  BY SimpleEffects DEF NodeRules
<1> HIDE DEF t, r
<1>7. Leads(<<P!Expect(")"), P!Make("FUNC_CALL", n)>>, s, r)
  BY <1>1, <1>4, <1>6, Leads2
<1>8. Leads(<<P!Call("expression"), P!Loop("after_arg", n + 1)>>, s, r)
  BY <1>1, <1>5, <1>6, Leads2
<1>9. Leads(<<P!Expect(","), P!Loop("args", n)>>, s, r)
  BY <1>1, <1>5, <1>6, Leads2
<1> QED BY <1>7, <1>8, <1>9 DEF r

(* Statements.                                                             *)
LEMMA DeclarationLeads ==
    ASSUME NEW s \in Shapes
    PROVE  /\ Leads(<<P!Take("TYPE"), P!Take("IDENT")>>
                    \o <<P!Expect("="), P!Call("expression"), P!Expect(";"), P!Make("VAR_DEF", 3)>>,
                    s, Append(s, "node"))
           /\ Leads(<<P!Take("TYPE"), P!Take("IDENT")>> \o <<P!Expect(";"), P!Make("VAR_DEC", 2)>>,
                    s, Append(s, "node"))
<1> DEFINE t == Append(s, "token")
           w == Append(t, "token")
           x == Append(w, "node")
           n == Append(s, "node")
<1>1. t \in Shapes /\ w \in Shapes /\ x \in Shapes /\ n \in Shapes
  BY NodePushed
<1>2. Topped(x, s, "VAR_DEF", 3)
  BY Topped3 DEF Kinds, Counts, Part, IsName
<1>3. Topped(w, s, "VAR_DEC", 2)
  BY Topped2 DEF Kinds, Counts, Part, IsName
<1>4. Effect(P!Make("VAR_DEF", 3), x, n)
  BY <1>2, MakeEffect DEF MadeTypes, Made
<1>5. Effect(P!Make("VAR_DEC", 2), w, n)
  BY <1>3, MakeEffect DEF MadeTypes, Made
<1>6. /\ Effect(P!Take("TYPE"), s, t) /\ Effect(P!Take("IDENT"), t, w)
      /\ Effect(P!Expect("="), w, w) /\ Effect(P!Expect(";"), w, w) /\ Effect(P!Expect(";"), x, x)
      /\ Effect(P!Call("expression"), w, x)
  BY SimpleEffects DEF NodeRules
<1> HIDE DEF t, w, x, n
<1>7. Leads(<<P!Take("TYPE"), P!Take("IDENT")>>, s, w)
  BY <1>1, <1>6, Leads2
<1>8. Leads(<<P!Expect("="), P!Call("expression"), P!Expect(";"), P!Make("VAR_DEF", 3)>>, w, n)
  BY <1>1, <1>4, <1>6, Leads4
<1>9. Leads(<<P!Expect(";"), P!Make("VAR_DEC", 2)>>, w, n)
  BY <1>1, <1>5, <1>6, Leads2
<1> QED BY <1>7, <1>8, <1>9, LeadsOn DEF n

LEMMA ExprStmtLeads ==
    ASSUME NEW s \in Shapes
    PROVE  Leads(<<P!Call("expression"), P!Expect(";"), P!Make("EXPR_STMT", 1)>>,
                 s, Append(s, "node"))
<1> DEFINE n == Append(s, "node")
<1>1. n \in Shapes
  BY NodePushed
<1>2. Topped(n, s, "EXPR_STMT", 1)
  BY Topped1 DEF Kinds, Counts, Part, IsName
<1>3. Effect(P!Make("EXPR_STMT", 1), n, n)
  BY <1>2, MakeEffect DEF MadeTypes, Made
<1>4. Effect(P!Call("expression"), s, n) /\ Effect(P!Expect(";"), n, n)
  BY SimpleEffects DEF NodeRules
<1> HIDE DEF n
<1>5. Leads(<<P!Call("expression"), P!Expect(";"), P!Make("EXPR_STMT", 1)>>, s, n)
  BY <1>1, <1>3, <1>4, Leads3
<1> QED BY <1>5 DEF n

LEMMA ReturnLeads ==
    ASSUME NEW s \in Shapes
    PROVE  Leads(<<P!Expect("return"), P!Call("expression"), P!Make("RET", 1), P!Expect(";")>>,
                 s, Append(s, "node"))
<1> DEFINE n == Append(s, "node")
<1>1. n \in Shapes
  BY NodePushed
<1>2. Topped(n, s, "RET", 1)
  BY Topped1 DEF Kinds, Counts, Part, IsName
<1>3. Effect(P!Make("RET", 1), n, n)
  BY <1>2, MakeEffect DEF MadeTypes, Made
<1>4. /\ Effect(P!Expect("return"), s, s) /\ Effect(P!Call("expression"), s, n)
      /\ Effect(P!Expect(";"), n, n)
  BY SimpleEffects DEF NodeRules
<1> HIDE DEF n
<1>5. Leads(<<P!Expect("return"), P!Call("expression"), P!Make("RET", 1), P!Expect(";")>>, s, n)
  BY <1>1, <1>3, <1>4, Leads4
<1> QED BY <1>5 DEF n

LEMMA IfLeads ==
    ASSUME NEW s \in Shapes
    PROVE  Leads(<<P!Expect("if"), P!Expect("("), P!Call("expression"), P!Expect(")"),
                   P!Call("statement"), P!Call("else")>>, s, Append(s, "node"))
<1> DEFINE n == Append(s, "node")
           m == Append(n, "node")
<1>1. n \in Shapes /\ m \in Shapes
  BY NodePushed
<1>2. /\ Effect(P!Expect("if"), s, s) /\ Effect(P!Expect("("), s, s)
      /\ Effect(P!Call("expression"), s, n) /\ Effect(P!Expect(")"), n, n)
      /\ Effect(P!Call("statement"), n, m) /\ Effect(P!Call("else"), m, n)
  BY SimpleEffects DEF NodeRules
<1> HIDE DEF n, m
<1>3. Leads(<<P!Expect("if"), P!Expect("("), P!Call("expression"), P!Expect(")"),
              P!Call("statement"), P!Call("else")>>, s, n)
  BY <1>1, <1>2, Leads6
<1> QED BY <1>3 DEF n

LEMMA ElseLeads ==
    ASSUME NEW base \in Shapes, NEW s, s = Append(Append(base, "node"), "node")
    PROVE  /\ Leads(<<P!Expect("else"), P!Call("statement"), P!Make("IF", 3)>>, s,
                    Append(base, "node"))
           /\ Leads(<<P!Make("IF", 2)>>, s, Append(base, "node"))
<1> DEFINE n == Append(base, "node")
           m == Append(n, "node")
           k == Append(m, "node")
<1>1. n \in Shapes /\ m \in Shapes /\ k \in Shapes /\ s = m
  BY NodePushed
<1>2. Topped(m, base, "IF", 2)
  BY Topped2 DEF Kinds, Counts, Part, IsName
<1>3. Topped(k, base, "IF", 3)
  BY Topped3 DEF Kinds, Counts, Part, IsName
<1>4. Effect(P!Make("IF", 2), m, n)
  BY <1>2, MakeEffect DEF MadeTypes, Made
<1>5. Effect(P!Make("IF", 3), k, n)
  BY <1>3, MakeEffect DEF MadeTypes, Made
<1>6. Effect(P!Expect("else"), m, m) /\ Effect(P!Call("statement"), m, k)
  BY SimpleEffects DEF NodeRules
<1> HIDE DEF n, m, k
<1>7. Leads(<<P!Expect("else"), P!Call("statement"), P!Make("IF", 3)>>, s, n)
  BY <1>1, <1>5, <1>6, Leads3
<1>8. Leads(<<P!Make("IF", 2)>>, s, n)
  BY <1>1, <1>4, Leads1
<1> QED BY <1>7, <1>8 DEF n

LEMMA WhileLeads ==
    ASSUME NEW s \in Shapes
    PROVE  Leads(<<P!Expect("while"), P!Expect("("), P!Call("expression"), P!Expect(")"),
                   P!Call("statement"), P!Make("WHILE", 2)>>, s, Append(s, "node"))
<1> DEFINE n == Append(s, "node")
           m == Append(n, "node")
<1>1. n \in Shapes /\ m \in Shapes
  BY NodePushed
<1>2. Topped(m, s, "WHILE", 2)
  BY Topped2 DEF Kinds, Counts, Part, IsName
<1>3. Effect(P!Make("WHILE", 2), m, n)
  BY <1>2, MakeEffect DEF MadeTypes, Made
<1>4. /\ Effect(P!Expect("while"), s, s) /\ Effect(P!Expect("("), s, s)
      /\ Effect(P!Call("expression"), s, n) /\ Effect(P!Expect(")"), n, n)
      /\ Effect(P!Call("statement"), n, m)
  BY SimpleEffects DEF NodeRules
<1> HIDE DEF n, m
<1>5. Leads(<<P!Expect("while"), P!Expect("("), P!Call("expression"), P!Expect(")"),
              P!Call("statement"), P!Make("WHILE", 2)>>, s, n)
  BY <1>1, <1>3, <1>4, Leads6
<1> QED BY <1>5 DEF n

LEMMA ForLeads ==
    ASSUME NEW s \in Shapes
    PROVE  Leads(<<P!Expect("for"), P!Expect("("), P!Call("for_init"),
                   P!Call("expression"), P!Expect(";"), P!Call("expression"), P!Expect(")"),
                   P!Call("statement"), P!Make("FOR", 4)>>, s, Append(s, "node"))
<1> DEFINE n == Append(s, "node")
           m == Append(n, "node")
           k == Append(m, "node")
           l == Append(k, "node")
<1>1. n \in Shapes /\ m \in Shapes /\ k \in Shapes /\ l \in Shapes
  BY NodePushed
<1>2. Topped(l, s, "FOR", 4)
  BY Topped4 DEF Kinds, Counts, Part, IsName
<1>3. Effect(P!Make("FOR", 4), l, n)
  BY <1>2, MakeEffect DEF MadeTypes, Made
<1>4. /\ Effect(P!Expect("for"), s, s) /\ Effect(P!Expect("("), s, s)
      /\ Effect(P!Call("for_init"), s, n) /\ Effect(P!Call("expression"), n, m)
      /\ Effect(P!Expect(";"), m, m) /\ Effect(P!Call("expression"), m, k)
      /\ Effect(P!Expect(")"), k, k) /\ Effect(P!Call("statement"), k, l)
  BY SimpleEffects DEF NodeRules
<1> HIDE DEF n, m, k, l
<1>5. Leads(<<P!Expect("for"), P!Expect("("), P!Call("for_init"),
              P!Call("expression"), P!Expect(";"), P!Call("expression"), P!Expect(")"),
              P!Call("statement"), P!Make("FOR", 4)>>, s, n)
  BY <1>1, <1>3, <1>4, Leads9
<1> QED BY <1>5 DEF n

LEMMA CompStmtLeads ==
    ASSUME NEW s \in Shapes
    PROVE  Leads(<<P!Expect("{"), P!Loop("statements", 0)>>, s, Append(s, "node"))
<1>1. Append(s, "node") \in Shapes
  BY NodePushed
<1>2. Topped(s, s, "COMP_STMT", 0)
  BY ToppedNothing DEF Counts
<1>3. Effect(P!Loop("statements", 0), s, Append(s, "node"))
  BY <1>2, LoopEffect DEF LoopRules, LoopMakes
<1>4. Effect(P!Expect("{"), s, s)
  BY SimpleEffects
<1> QED BY <1>1, <1>3, <1>4, Leads2

LEMMA StatementsLead ==
    ASSUME NEW base \in Shapes, NEW s \in Shapes, NEW n, Topped(s, base, "COMP_STMT", n)
    PROVE  /\ Leads(<<P!Call("statement"), P!Loop("statements", n + 1)>>, s, Append(base, "node"))
           /\ Leads(<<P!Expect("}"), P!Make("COMP_STMT", n)>>, s, Append(base, "node"))
<1> DEFINE t == Append(s, "node")
           r == Append(base, "node")
<1>1. t \in Shapes /\ r \in Shapes
  BY NodePushed
<1>2. n \in Nat
  BY DEF Topped, Counts
<1>3. Topped(t, base, "COMP_STMT", n + 1)
  <2>1. n + 1 \in Counts("COMP_STMT")
    BY <1>2 DEF Counts
  <2>2. /\ "node" = Part("COMP_STMT", n + 1, n + 1)
        /\ \A i \in 1 .. n : Part("COMP_STMT", n + 1, i) = Part("COMP_STMT", n, i)
    BY DEF Part, IsName
  <2> QED BY <1>2, <2>1, <2>2, ToppedMore DEF Kinds
<1>4. Effect(P!Make("COMP_STMT", n), s, r)
  BY MakeEffect DEF MadeTypes, Made
<1>5. Effect(P!Loop("statements", n + 1), t, r)
  BY <1>3, LoopEffect DEF LoopRules, LoopMakes
<1>6. Effect(P!Call("statement"), s, t) /\ Effect(P!Expect("}"), s, s)
  BY SimpleEffects DEF NodeRules
<1> HIDE DEF t, r
<1>7. Leads(<<P!Call("statement"), P!Loop("statements", n + 1)>>, s, r)
  BY <1>1, <1>5, <1>6, Leads2
<1>8. Leads(<<P!Expect("}"), P!Make("COMP_STMT", n)>>, s, r)
  BY <1>1, <1>4, <1>6, Leads2
<1> QED BY <1>7, <1>8 DEF r

LEMMA EnumLeads ==
    ASSUME NEW s \in Shapes
    PROVE  Leads(<<P!Expect("enum"), P!Take("IDENT"), P!Expect("{"), P!Loop("enums", 1)>>,
                 s, Append(s, "node"))
<1> DEFINE t == Append(s, "token")
           n == Append(s, "node")
<1>1. t \in Shapes /\ n \in Shapes
  BY NodePushed
<1>2. Topped(t, s, "ENUM", 1)
  BY Topped1 DEF Kinds, Counts, Part, IsName
<1>3. Effect(P!Loop("enums", 1), t, n)
  BY <1>2, LoopEffect DEF LoopRules, LoopMakes
<1>4. /\ Effect(P!Expect("enum"), s, s) /\ Effect(P!Take("IDENT"), s, t)
      /\ Effect(P!Expect("{"), t, t)
  BY SimpleEffects
<1> HIDE DEF t, n
<1>5. Leads(<<P!Expect("enum"), P!Take("IDENT"), P!Expect("{"), P!Loop("enums", 1)>>, s, n)
  BY <1>1, <1>3, <1>4, Leads4
<1> QED BY <1>5 DEF n

LEMMA EnumsLead ==
    ASSUME NEW base \in Shapes, NEW s \in Shapes, NEW n, Topped(s, base, "ENUM", n)
    PROVE  /\ Leads(<<P!Take("IDENT"), P!Loop("after_enum", n + 1)>>, s, Append(base, "node"))
           /\ Leads(<<P!Expect(","), P!Loop("enums", n)>>, s, Append(base, "node"))
           /\ Leads(<<P!Expect("}"), P!Expect(";"), P!Make("ENUM", n)>>, s, Append(base, "node"))
<1> DEFINE t == Append(s, "token")
           r == Append(base, "node")
<1>1. t \in Shapes /\ r \in Shapes
  BY NodePushed
<1>2. n \in Nat /\ n # 0
  BY DEF Topped, Counts
<1>3. Topped(t, base, "ENUM", n + 1)
  <2>1. n + 1 \in Counts("ENUM")
    BY <1>2 DEF Counts
  <2>2. /\ "token" = Part("ENUM", n + 1, n + 1)
        /\ \A i \in 1 .. n : Part("ENUM", n + 1, i) = Part("ENUM", n, i)
    BY DEF Part, IsName
  <2> QED BY <1>2, <2>1, <2>2, ToppedMore DEF Kinds
<1>4. Effect(P!Make("ENUM", n), s, r)
  BY MakeEffect DEF MadeTypes, Made
<1>5. Effect(P!Loop("after_enum", n + 1), t, r) /\ Effect(P!Loop("enums", n), s, r)
  BY <1>3, LoopEffect DEF LoopRules, LoopMakes
<1>6. /\ Effect(P!Take("IDENT"), s, t) /\ Effect(P!Expect(","), s, s)
      /\ Effect(P!Expect("}"), s, s) /\ Effect(P!Expect(";"), s, s)
  BY SimpleEffects
<1> HIDE DEF t, r
<1>7. Leads(<<P!Take("IDENT"), P!Loop("after_enum", n + 1)>>, s, r)
  BY <1>1, <1>5, <1>6, Leads2
<1>8. Leads(<<P!Expect(","), P!Loop("enums", n)>>, s, r)
  BY <1>1, <1>5, <1>6, Leads2
<1>9. Leads(<<P!Expect("}"), P!Expect(";"), P!Make("ENUM", n)>>, s, r)
  BY <1>1, <1>4, <1>6, Leads3
<1> QED BY <1>7, <1>8, <1>9 DEF r

(* Functions.                                                              *)
LEMMA FuncDefLeads ==
    ASSUME NEW s \in Shapes, s = <<>>
    PROVE  Leads(<<P!Take("TYPE"), P!Take("IDENT"), P!Expect("("), P!Loop("params", 2)>>, s, s)
<1> DEFINE t == Append(s, "token")
           w == Append(t, "token")
<1>1. t \in Shapes /\ w \in Shapes
  BY NodePushed
<1>2. Topped(w, s, "ENUM", 2)
  BY ONLY s \in Shapes, Topped2 DEF Kinds, Counts, Part, IsName
<1>3. Effect(P!Loop("params", 2), w, s)
  BY <1>2, ParamsEffect
<1>4. Effect(P!Take("TYPE"), s, t) /\ Effect(P!Take("IDENT"), t, w) /\ Effect(P!Expect("("), w, w)
  BY SimpleEffects
<1> HIDE DEF t, w
<1> QED BY <1>1, <1>3, <1>4, Leads4

LEMMA ParamsLead ==
    ASSUME NEW base \in Shapes, base = <<>>, NEW s \in Shapes, NEW n, n >= 2,
           Topped(s, base, "ENUM", n)
    PROVE  /\ Leads(<<P!Take("TYPE"), P!Take("IDENT"), P!Loop("after_param", n + 2)>>, s, base)
           /\ Leads(<<P!Expect(","), P!Loop("params", n)>>, s, base)
           /\ Leads(<<P!Expect(")"), P!Call("comp_stmt"), P!Make("FUNC_DEF", n + 1),
                      P!Call("push")>>, s, base)
<1> DEFINE t == Append(s, "token")
           w == Append(t, "token")
           b == Append(s, "node")
           f == Append(base, "func")
<1>1. t \in Shapes /\ w \in Shapes /\ b \in Shapes /\ f \in Shapes
  BY NodePushed
<1>2. n \in Nat /\ n # 0 /\ n # 1
  BY DEF Topped, Counts
<1>3. Topped(t, base, "ENUM", n + 1)
  <2>1. n + 1 \in Counts("ENUM")
    BY <1>2 DEF Counts
  <2>2. /\ "token" = Part("ENUM", n + 1, n + 1)
        /\ \A i \in 1 .. n : Part("ENUM", n + 1, i) = Part("ENUM", n, i)
    BY DEF Part, IsName
  <2> QED BY <1>2, <2>1, <2>2, ToppedMore DEF Kinds
<1>4. Topped(w, base, "ENUM", n + 2)
  <2> DEFINE m == n + 1
  <2>1. m \in Nat /\ m + 1 \in Counts("ENUM") /\ m + 1 = n + 2
    BY <1>2 DEF Counts
  <2>2. /\ "token" = Part("ENUM", m + 1, m + 1)
        /\ \A i \in 1 .. m : Part("ENUM", m + 1, i) = Part("ENUM", m, i)
    BY DEF Part, IsName
  <2>3. Topped(t, base, "ENUM", m)
    BY <1>3
  <2> HIDE DEF m, t
  <2>4. Topped(Append(t, "token"), base, "ENUM", m + 1)
    BY <2>1, <2>2, <2>3, ToppedMore DEF Kinds
  <2> QED BY <2>1, <2>4 DEF m
<1>5. Topped(b, base, "FUNC_DEF", n + 1)
  <2>1. n + 1 \in Counts("FUNC_DEF")
    BY <1>2 DEF Counts
  <2>2. /\ "node" = Part("FUNC_DEF", n + 1, n + 1)
        /\ \A i \in 1 .. n : Part("FUNC_DEF", n + 1, i) = Part("ENUM", n, i)
    BY <1>2 DEF Part, IsName
  <2> QED BY <1>2, <2>1, <2>2, ToppedMore DEF Kinds
<1>6. Effect(P!Make("FUNC_DEF", n + 1), b, f)
  BY <1>5, MakeEffect DEF MadeTypes, Made
<1>7. Effect(P!Loop("after_param", n + 2), w, base)
  <2>1. n + 2 >= 2
    BY <1>2
  <2> QED BY <1>4, <2>1, ParamsEffect
<1>8. Effect(P!Loop("params", n), s, base)
  BY ParamsEffect
<1>9. /\ Effect(P!Take("TYPE"), s, t) /\ Effect(P!Take("IDENT"), t, w)
      /\ Effect(P!Expect(","), s, s) /\ Effect(P!Expect(")"), s, s)
      /\ Effect(P!Call("comp_stmt"), s, b) /\ Effect(P!Call("push"), f, base)
  BY SimpleEffects DEF NodeRules
<1> HIDE DEF t, w, b, f
<1>10. Leads(<<P!Take("TYPE"), P!Take("IDENT"), P!Loop("after_param", n + 2)>>, s, base)
  BY <1>1, <1>7, <1>9, Leads3
<1>11. Leads(<<P!Expect(","), P!Loop("params", n)>>, s, base)
  BY <1>1, <1>8, <1>9, Leads2
<1>12. Leads(<<P!Expect(")"), P!Call("comp_stmt"), P!Make("FUNC_DEF", n + 1), P!Call("push")>>,
             s, base)
  BY <1>1, <1>6, <1>9, Leads4
<1> QED BY <1>10, <1>11, <1>12

LEMMA ProgLeads == Leads(<<P!Call("func_def"), P!Call("prog")>>, <<>>, <<>>)
<1>1. <<>> \in Shapes
  BY DEF Shapes
<1> QED BY <1>1, SimpleEffects, Leads2

-----------------------------------------------------------------------------
(* Nodes.                                                                  *)

(* NodeOK of a node made last, by the sets its children are from.          *)
NodeFits(nd, kids, idents) ==
    /\ nd.type = "UNARY_EXPR" => nd.op_type = "!" /\ nd.postfix_expr \in kids
    /\ nd.type = "BIN_EXP"    => nd.op_type \in BinOps /\ nd.left \in kids /\ nd.right \in kids
    /\ nd.type = "FUNC_CALL"  => nd.args \in Seq(kids)
    /\ nd.type = "LVAL"       => nd.ident \in idents
    /\ nd.type = "VAR_ASGN"   => nd.lval \in kids /\ nd.rval \in kids
    /\ nd.type = "COMP_STMT"  => nd.stmts \in Seq(kids)
    /\ nd.type \in {"EXPR_STMT", "RET", "VAR_DEF"} => nd.expr \in kids
    /\ nd.type = "IF"         => /\ nd.if_expr \in kids /\ nd.if_body \in kids
                                 /\ nd.else_body \in kids \cup {NULL}
    /\ nd.type = "WHILE"      => nd.expr \in kids /\ nd.body \in kids
    /\ nd.type = "FOR"        => /\ nd.init \in kids /\ nd.cond \in kids
                                 /\ nd.step \in kids /\ nd.body \in kids
    /\ nd.type = "ENUM"       => IsVector(nd.enums)
    /\ nd.type = "FUNC_DEF"   => nd.body \in kids /\ IsVector(nd.params)
    /\ nd.type \in ExprTypes \cup StmtTypes \cup {"FUNC_DEF"}

LEMMA OldNodeOK ==
    ASSUME NEW nodes, IsList(nodes), NEW nd, NEW n \in 1 .. Len(nodes), NodeOK(nodes, n)
    PROVE  NodeOK(Append(nodes, nd), n)
<1> DEFINE ns == Append(nodes, nd)
<1>1. Len(nodes) \in Nat /\ \A k \in 1 .. Len(nodes) : ns[k] = nodes[k]
  BY ListFacts, AppendFacts
<1> HIDE DEF ns
<1>2. ns[n] = nodes[n] /\ \A k \in 1 .. (n - 1) : ns[k] = nodes[k]
  BY <1>1
<1>3. {k \in 1 .. (n - 1) : ns[k].type # "FUNC_DEF"}
      = {k \in 1 .. (n - 1) : nodes[k].type # "FUNC_DEF"}
  BY <1>2
<1>4. NodeOK(ns, n)
  BY <1>2, <1>3, SMTT(30) DEF NodeOK
<1> QED BY <1>4 DEF ns

LEMMA NewNodeOK ==
    ASSUME NEW nodes, IsList(nodes), NEW nd,
           NodeFits(nd, {k \in DOMAIN nodes : nodes[k].type # "FUNC_DEF"},
                        {k \in DOMAIN nodes : nodes[k].type = "IDENT"})
    PROVE  NodeOK(Append(nodes, nd), Len(nodes) + 1)
<1> DEFINE ns == Append(nodes, nd)
           n == Len(nodes) + 1
           kids == {k \in DOMAIN nodes : nodes[k].type # "FUNC_DEF"}
           idents == {k \in DOMAIN nodes : nodes[k].type = "IDENT"}
<1>1. /\ Len(nodes) \in Nat /\ DOMAIN nodes = 1 .. Len(nodes)
      /\ ns[n] = nd /\ \A k \in 1 .. Len(nodes) : ns[k] = nodes[k]
  BY ListFacts, AppendFacts
<1> HIDE DEF ns
<1>2. 1 .. (n - 1) = DOMAIN nodes
  BY <1>1
<1>3. {k \in 1 .. (n - 1) : ns[k].type # "FUNC_DEF"} = kids
  BY <1>1, <1>2
<1>4. \A k \in idents : k \in kids /\ ns[k].type = "IDENT"
  BY <1>1
<1>5. NodeFits(nd, kids, idents) /\ ns[n] = nd
  BY <1>1
<1> HIDE DEF kids, idents, n
<1>6. NodeOK(ns, n)
  BY <1>3, <1>4, <1>5 DEF NodeOK, NodeFits
<1> QED BY <1>6 DEF ns, n

(* The kinds of a shape, and the values that have it.                      *)
HasParts(item, v) ==
    /\ item.count \in Counts(item.type)
    /\ v \in Seq(Nat) /\ Len(v) = item.count
    /\ \A i \in 1 .. item.count : Fits(Part(item.type, item.count, i), v[i])

LEMMA BuiltOfNodes ==
    ASSUME NEW item, item.type \in {"BIN_EXP", "UNARY_EXPR", "VAR_ASGN", "EXPR_STMT", "RET", "WHILE", "FOR"}, MakeOK(item),
           NEW v, HasParts(item, v)
    PROVE  /\ NodeFits(P!Built(item, v), Kids, NodeIds("IDENT"))
           /\ P!Built(item, v).type = item.type
<1>1. \A i \in 1 .. item.count : v[i] \in Kids
  BY DEF HasParts, Fits, Part, IsName
<1>2. CASE item.type = "BIN_EXP"
  <2>1. item.count = 2 /\ P!Built(item, v) = P!BinExp(item.op, v[1], v[2])
    BY <1>2 DEF HasParts, Counts, P!Built
  <2>2. v[1] \in Kids /\ v[2] \in Kids
    BY <1>1, <2>1
  <2> QED BY <1>2, <2>1, <2>2 DEF NodeFits, MakeOK, P!BinExp, ExprTypes, StmtTypes
<1>3. CASE item.type = "UNARY_EXPR"
  <2>1. item.count = 1 /\ P!Built(item, v) = P!UnaryExpr(item.op, v[1])
    BY <1>3 DEF HasParts, Counts, P!Built
  <2>2. v[1] \in Kids
    BY <1>1, <2>1
  <2> QED BY <1>3, <2>1, <2>2 DEF NodeFits, MakeOK, P!UnaryExpr, ExprTypes, StmtTypes
<1>4. CASE item.type = "VAR_ASGN"
  <2>1. item.count = 2 /\ P!Built(item, v) = P!VarAsgn(v[1], v[2])
    BY <1>4 DEF HasParts, Counts, P!Built
  <2>2. v[1] \in Kids /\ v[2] \in Kids
    BY <1>1, <2>1
  <2> QED BY <1>4, <2>1, <2>2 DEF NodeFits, MakeOK, P!VarAsgn, ExprTypes, StmtTypes
<1>5. CASE item.type = "EXPR_STMT"
  <2>1. item.count = 1 /\ P!Built(item, v) = P!ExprStmt(v[1])
    BY <1>5 DEF HasParts, Counts, P!Built
  <2>2. v[1] \in Kids
    BY <1>1, <2>1
  <2> QED BY <1>5, <2>1, <2>2 DEF NodeFits, MakeOK, P!ExprStmt, ExprTypes, StmtTypes
<1>6. CASE item.type = "RET"
  <2>1. item.count = 1 /\ P!Built(item, v) = P!Ret(v[1])
    BY <1>6 DEF HasParts, Counts, P!Built
  <2>2. v[1] \in Kids
    BY <1>1, <2>1
  <2> QED BY <1>6, <2>1, <2>2 DEF NodeFits, MakeOK, P!Ret, ExprTypes, StmtTypes
<1>7. CASE item.type = "WHILE"
  <2>1. item.count = 2 /\ P!Built(item, v) = P!While(v[1], v[2])
    BY <1>7 DEF HasParts, Counts, P!Built
  <2>2. v[1] \in Kids /\ v[2] \in Kids
    BY <1>1, <2>1
  <2> QED BY <1>7, <2>1, <2>2 DEF NodeFits, MakeOK, P!While, ExprTypes, StmtTypes
<1>8. CASE item.type = "FOR"
  <2>1. item.count = 4 /\ P!Built(item, v) = P!For(v[1], v[2], v[3], v[4])
    BY <1>8 DEF HasParts, Counts, P!Built
  <2>2. v[1] \in Kids /\ v[2] \in Kids /\ v[3] \in Kids /\ v[4] \in Kids
    BY <1>1, <2>1
  <2> QED BY <1>8, <2>1, <2>2 DEF NodeFits, MakeOK, P!For, ExprTypes, StmtTypes
<1> QED BY <1>2, <1>3, <1>4, <1>5, <1>6, <1>7, <1>8

LEMMA BuiltIf ==
    ASSUME NEW item, item.type = "IF", MakeOK(item), NEW v, HasParts(item, v)
    PROVE  /\ NodeFits(P!Built(item, v), Kids, NodeIds("IDENT"))
           /\ P!Built(item, v).type = item.type
<1>1. \A i \in 1 .. item.count : v[i] \in Kids
  BY DEF HasParts, Fits, Part, IsName
<1>2. item.count \in {2, 3} /\ Len(v) = item.count
  BY DEF HasParts, Counts
<1>3. P!Built(item, v) = P!IfElse(v[1], v[2], IF item.count = 3 THEN v[3] ELSE P!NULL)
  BY <1>2 DEF P!Built
<1>4. v[1] \in Kids /\ v[2] \in Kids /\ (item.count = 3 => v[3] \in Kids)
  BY <1>1, <1>2
<1> QED BY <1>3, <1>4 DEF NodeFits, P!IfElse, P!NULL, NULL, ExprTypes, StmtTypes

LEMMA BuiltOfNames ==
    ASSUME NEW item, item.type \in {"IDENT", "LVAL", "EMPTY_EXPR", "VAR_DEF", "VAR_DEC"},
           MakeOK(item), NEW v, HasParts(item, v)
    PROVE  /\ NodeFits(P!Built(item, v), Kids, NodeIds("IDENT"))
           /\ P!Built(item, v).type = item.type
<1>1. CASE item.type = "IDENT"
  <2>1. P!Built(item, v) = P!Ident(tokens[v[1]].value)
    BY <1>1 DEF P!Built
  <2> QED BY <1>1, <2>1 DEF NodeFits, P!Ident, ExprTypes
<1>2. CASE item.type = "LVAL"
  <2>1. P!Built(item, v) = P!Lval(v[1])
    BY <1>2 DEF P!Built
  <2>2. v[1] \in NodeIds("IDENT")
    BY <1>2 DEF HasParts, Counts, Fits, Part
  <2> QED BY <1>2, <2>1, <2>2 DEF NodeFits, P!Lval, ExprTypes
<1>3. CASE item.type = "EMPTY_EXPR"
  <2>1. P!Built(item, v) = P!EmptyExpr
    BY <1>3 DEF P!Built
  <2> QED BY <1>3, <2>1 DEF NodeFits, P!EmptyExpr, ExprTypes
<1>4. CASE item.type = "VAR_DEF"
  <2>1. P!Built(item, v) = P!VarDef(tokens[v[2]].value, tokens[v[1]].value, v[3])
    BY <1>4 DEF P!Built
  <2>2. v[3] \in Kids
    BY <1>4 DEF HasParts, Counts, Fits, Part, IsName
  <2> QED BY <1>4, <2>1, <2>2 DEF NodeFits, P!VarDef, StmtTypes
<1>5. CASE item.type = "VAR_DEC"
  <2>1. P!Built(item, v) = P!VarDec(tokens[v[2]].value, tokens[v[1]].value)
    BY <1>5 DEF P!Built
  <2> QED BY <1>5, <2>1 DEF NodeFits, P!VarDec, StmtTypes
<1> QED BY <1>1, <1>2, <1>3, <1>4, <1>5

LEMMA BuiltOfMany ==
    ASSUME NEW item, item.type \in {"FUNC_CALL", "COMP_STMT", "ENUM", "FUNC_DEF"},
           MakeOK(item), NEW v, HasParts(item, v)
    PROVE  /\ NodeFits(P!Built(item, v), Kids, NodeIds("IDENT"))
           /\ P!Built(item, v).type = item.type
<1>1. IsList(v) /\ DOMAIN v = 1 .. item.count /\ Len(v) = item.count
  BY DEF HasParts, IsList
<1>2. CASE item.type = "FUNC_CALL"
  <2>1. P!Built(item, v) = P!FuncCall(tokens[v[1]].value, Tail(v))
    BY <1>2 DEF P!Built
  <2>2. item.count \in Nat /\ item.count # 0
    BY <1>2 DEF HasParts, Counts
  <2>3. v # <<>>
    BY <1>1, <2>2
  <2>4. /\ IsList(Tail(v)) /\ Len(Tail(v)) = item.count - 1
        /\ \A k \in 1 .. (item.count - 1) : Tail(v)[k] = v[k + 1]
    BY <1>1, <2>3, TailFacts
  <2>5. ASSUME NEW k \in 1 .. (item.count - 1) PROVE v[k + 1] \in Kids
    <3> DEFINE i == k + 1
    <3>1. i \in 1 .. item.count /\ i # 1
      BY <2>2
    <3> HIDE DEF i
    <3>2. v[i] \in Kids
      BY <1>2, <3>1 DEF HasParts, Fits, Part, IsName
    <3> QED BY <3>2 DEF i
  <2>6. DOMAIN Tail(v) = 1 .. (item.count - 1)
    BY <2>4, ListFacts
  <2>7. Tail(v) \in Seq(Kids)
    BY <2>4, <2>5, <2>6, ElementsOf
  <2> QED BY <1>2, <2>1, <2>7 DEF NodeFits, P!FuncCall, ExprTypes
<1>3. CASE item.type = "COMP_STMT"
  <2>1. P!Built(item, v) = P!CompStmt(v)
    BY <1>3 DEF P!Built
  <2>2. \A k \in DOMAIN v : v[k] \in Kids
    BY <1>1, <1>3 DEF HasParts, Fits, Part, IsName
  <2>3. v \in Seq(Kids)
    BY <1>1, <2>2, ElementsOf
  <2> QED BY <1>3, <2>1, <2>3 DEF NodeFits, P!CompStmt, StmtTypes
<1>4. CASE item.type = "ENUM"
  <2> DEFINE names == [i \in 1 .. (item.count - 1) |-> tokens[v[i + 1]].value]
  <2>1. P!Built(item, v) = P!Enum(names)
    BY <1>1, <1>4 DEF P!Built
  <2>2. item.count - 1 \in Nat
    BY <1>4 DEF HasParts, Counts
  <2>3. names = [i \in 1 .. (item.count - 1) |-> names[i]]
    OBVIOUS
  <2> HIDE DEF names
  <2>4. IsVector(names)
    BY <2>2, <2>3, FunctionIsList, ListIsVector DEF IsVector, Elements
  <2> QED BY <1>4, <2>1, <2>4 DEF NodeFits, P!Enum, StmtTypes
<1>5. CASE item.type = "FUNC_DEF"
  <2> DEFINE m == (item.count - 3) \div 2
             params == [i \in 1 .. m |-> P!Param(tokens[v[2 * i + 2]].value,
                                               tokens[v[2 * i + 1]].value)]
  <2>1. P!Built(item, v) = P!FuncDef(tokens[v[2]].value, tokens[v[1]].value, params, v[item.count])
    BY <1>1, <1>5 DEF P!Built
  <2>2. item.count \in Nat /\ item.count >= 3
    BY <1>5 DEF HasParts, Counts
  <2>3. m \in Nat
    BY <2>2
  <2>4. params = [i \in 1 .. m |-> params[i]]
    OBVIOUS
  <2> HIDE DEF params, m
  <2>5. IsVector(params)
    BY <2>3, <2>4, FunctionIsList, ListIsVector DEF IsVector, Elements
  <2>6. v[item.count] \in Kids
    BY <1>5, <2>2 DEF HasParts, Fits, Part, IsName
  <2> QED BY <1>5, <2>1, <2>5, <2>6 DEF NodeFits, P!FuncDef
<1> QED BY <1>2, <1>3, <1>4, <1>5

LEMMA BuiltFits ==
    ASSUME NEW item, MakeOK(item), NEW v, HasParts(item, v)
    PROVE  /\ NodeFits(P!Built(item, v), Kids, NodeIds("IDENT"))
           /\ P!Built(item, v).type = item.type
<1>1. item.type \in MadeTypes
  BY DEF MakeOK
<1> QED BY <1>1, BuiltOfNodes, BuiltIf, BuiltOfNames, BuiltOfMany DEF MadeTypes

(* No part is forgotten: what is no token becomes a child of the node.     *)
LEMMA PartsAreChildren ==
    ASSUME Inv, NEW item, MakeOK(item), NEW v, HasParts(item, v), NEW i \in 1 .. item.count,
           Part(item.type, item.count, i) # "token"
    PROVE  v[i] \in Children(P!Built(item, v))
<1> DEFINE nd == P!Built(item, v)
<1>1. /\ item.type \in MadeTypes /\ item.count \in Counts(item.type)
      /\ IsList(v) /\ Len(v) = item.count /\ DOMAIN v = 1 .. item.count
      /\ item.type \notin {"IDENT", "VAR_DEC", "ENUM", "EMPTY_EXPR"}
  <2>1. item.type \in MadeTypes
    BY DEF MakeOK
  <2>2. /\ item.count \in Counts(item.type)
        /\ IsList(v) /\ Len(v) = item.count /\ DOMAIN v = 1 .. item.count
    BY DEF HasParts, IsList
  <2>3. item.type \notin {"IDENT", "VAR_DEC", "ENUM"}
    BY DEF Part, IsName
  <2>4. item.type # "EMPTY_EXPR"
    BY <2>2 DEF Counts
  <2> QED BY <2>1, <2>2, <2>3, <2>4
<1>2. CASE item.type \in {"LVAL", "UNARY_EXPR", "EXPR_STMT", "RET"}
  <2>1. i = 1
    BY <1>1, <1>2 DEF Counts
  <2>2. Children(nd) = {v[1]}
    BY <1>2 DEF P!Built, P!Lval, P!UnaryExpr, P!ExprStmt, P!Ret, Children
  <2> QED BY <2>1, <2>2
<1>3. CASE item.type \in {"BIN_EXP", "VAR_ASGN", "WHILE"}
  <2>1. i \in {1, 2}
    BY <1>1, <1>3 DEF Counts
  <2>2. Children(nd) = {v[1], v[2]}
    BY <1>3 DEF P!Built, P!BinExp, P!VarAsgn, P!While, Children
  <2> QED BY <2>1, <2>2
<1>4. CASE item.type = "FOR"
  <2>1. i \in {1, 2, 3, 4}
    BY <1>1, <1>4 DEF Counts
  <2>2. Children(nd) = {v[1], v[2], v[3], v[4]}
    BY <1>4 DEF P!Built, P!For, Children
  <2> QED BY <2>1, <2>2
<1>5. CASE item.type = "IF"
  <2>1. i \in 1 .. item.count /\ item.count \in {2, 3}
    BY <1>1, <1>5 DEF Counts
  <2>2. Children(nd) = {v[2], v[1], IF item.count = 3 THEN v[3] ELSE NULL} \ {NULL}
    <3>1. nd = P!IfElse(v[1], v[2], IF item.count = 3 THEN v[3] ELSE P!NULL)
      BY <1>1, <1>5 DEF P!Built
    <3> HIDE DEF nd
    <3> QED BY <3>1 DEF P!IfElse, P!NULL, NULL, Children
  <2>3. v[i] # NULL
    <3>1. v[i] \in Kids
      BY <1>5 DEF HasParts, Fits, Part, IsName
    <3> QED BY <3>1, ListFacts DEF Inv, Kids, NULL
  <2>4. i = 1 \/ i = 2 \/ (i = 3 /\ item.count = 3)
    BY <2>1
  <2> QED BY <2>2, <2>3, <2>4
<1>6. CASE item.type = "VAR_DEF"
  <2>1. i = 3
    BY <1>6 DEF Part, IsName
  <2>2. Children(nd) = {v[3]}
    BY <1>6 DEF P!Built, P!VarDef, Children
  <2> QED BY <2>1, <2>2
<1>7. CASE item.type = "COMP_STMT"
  <2>1. Children(nd) = Elements(v)
    BY <1>7 DEF P!Built, P!CompStmt, Children
  <2> QED BY <1>1, <2>1 DEF Elements
<1>8. CASE item.type = "FUNC_CALL"
  <2>1. Children(nd) = Elements(Tail(v))
    BY <1>8 DEF P!Built, P!FuncCall, Children
  <2>2. item.count \in Nat \ {0} /\ i # 1
    BY <1>1, <1>8 DEF Counts, Part, IsName
  <2>3. PICK k \in 1 .. (item.count - 1) : i = k + 1
    <3>1. i - 1 \in 1 .. (item.count - 1) /\ i = (i - 1) + 1
      BY <2>2
    <3> QED BY <3>1
  <2>4. v # <<>>
    BY <1>1, <2>2
  <2>5. /\ IsList(Tail(v)) /\ Len(Tail(v)) = item.count - 1
        /\ \A j \in 1 .. (item.count - 1) : Tail(v)[j] = v[j + 1]
    BY <1>1, <2>4, TailFacts
  <2>6. k \in DOMAIN Tail(v) /\ Tail(v)[k] = v[i]
    BY <2>3, <2>5, ListFacts
  <2>7. PICK tail : tail = Tail(v)
    OBVIOUS
  <2>8. v[i] \in Elements(tail)
    BY <2>6, <2>7 DEF Elements
  <2> QED BY <2>1, <2>7, <2>8
<1>9. CASE item.type = "FUNC_DEF"
  <2>1. i = item.count
    BY <1>9 DEF Part, IsName
  <2>2. Children(nd) = {v[item.count]}
    BY <1>1, <1>9 DEF P!Built, P!FuncDef, Children
  <2> QED BY <2>1, <2>2
<1> QED BY <1>1, <1>2, <1>3, <1>4, <1>5, <1>6, <1>7, <1>8, <1>9 DEF MadeTypes

(* And nothing else does; the parts are in the order of the source.        *)
IsPart(item, i) == Part(item.type, item.count, i) # "token"
InOrder(item, v) ==
    \A i, j \in 1 .. item.count : i < j /\ IsPart(item, i) /\ IsPart(item, j) => v[i] < v[j]

LEMMA BuiltOfParts ==
    ASSUME NEW item, MakeOK(item), NEW v, HasParts(item, v), InOrder(item, v)
    PROVE  /\ \A k \in Children(P!Built(item, v)) : \E i \in 1 .. item.count : IsPart(item, i) /\ k = v[i]
           /\ PartsRise(P!Built(item, v))
<1> DEFINE nd == P!Built(item, v)
           Good(n) == /\ \A k \in Children(n) : \E i \in 1 .. item.count : IsPart(item, i) /\ k = v[i]
                      /\ PartsRise(n)
<1> SUFFICES Good(nd)
  OBVIOUS
<1>1. /\ item.type \in MadeTypes /\ item.count \in Counts(item.type)
      /\ IsList(v) /\ Len(v) = item.count /\ DOMAIN v = 1 .. item.count
  BY DEF MakeOK, HasParts, IsList
<1>2. CASE item.type \in {"LVAL", "UNARY_EXPR", "EXPR_STMT", "RET"}
  <2>1. 1 \in 1 .. item.count /\ IsPart(item, 1)
    BY <1>1, <1>2 DEF Counts, IsPart, Part, IsName
  <2>2. Children(nd) = {v[1]} /\ nd.type = item.type
    BY <1>2 DEF P!Built, P!Lval, P!UnaryExpr, P!ExprStmt, P!Ret, Children
  <2> HIDE DEF nd
  <2> QED BY <1>2, <2>1, <2>2 DEF PartsRise
<1>3. CASE item.type \in {"BIN_EXP", "VAR_ASGN", "WHILE"}
  <2>1. item.count = 2 /\ IsPart(item, 1) /\ IsPart(item, 2)
    BY <1>1, <1>3 DEF Counts, IsPart, Part, IsName
  <2>2. v[1] < v[2] /\ 1 \in 1 .. item.count /\ 2 \in 1 .. item.count
    BY <2>1 DEF InOrder
  <2>3. Children(nd) = {v[1], v[2]}
    BY <1>3 DEF P!Built, P!BinExp, P!VarAsgn, P!While, Children
  <2>4. \/ nd = P!BinExp(item.op, v[1], v[2])
        \/ nd = P!VarAsgn(v[1], v[2])
        \/ nd = P!While(v[1], v[2])
    BY <1>3 DEF P!Built
  <2> HIDE DEF nd
  <2>5. PartsRise(nd)
    BY <2>2, <2>4 DEF PartsRise, P!BinExp, P!VarAsgn, P!While
  <2> QED BY <2>1, <2>2, <2>3, <2>5
<1>4. CASE item.type = "FOR"
  <2>1. item.count = 4 /\ \A i \in 1 .. 4 : IsPart(item, i)
    BY <1>1, <1>4 DEF Counts, IsPart, Part, IsName
  <2>2. v[1] < v[2] /\ v[2] < v[3] /\ v[3] < v[4]
    BY <2>1 DEF InOrder
  <2>3. nd = P!For(v[1], v[2], v[3], v[4])
    BY <1>4 DEF P!Built
  <2> HIDE DEF nd
  <2>4. Children(nd) = {v[1], v[2], v[3], v[4]} /\ PartsRise(nd)
    BY <2>2, <2>3 DEF P!For, Children, PartsRise
  <2>5. 1 \in 1 .. 4 /\ 2 \in 1 .. 4 /\ 3 \in 1 .. 4 /\ 4 \in 1 .. 4
    OBVIOUS
  <2> QED BY <2>1, <2>4, <2>5
<1>5. CASE item.type = "IF"
  <2>1. item.count \in {2, 3} /\ \A i \in 1 .. item.count : IsPart(item, i)
    BY <1>1, <1>5 DEF Counts, IsPart, Part, IsName
  <2>2. v[1] < v[2] /\ (item.count = 3 => v[2] < v[3])
    BY <2>1 DEF InOrder
  <2>3. nd = P!IfElse(v[1], v[2], IF item.count = 3 THEN v[3] ELSE P!NULL)
    BY <1>1, <1>5 DEF P!Built
  <2> HIDE DEF nd
  <2>4. /\ Children(nd) = {v[2], v[1], IF item.count = 3 THEN v[3] ELSE NULL} \ {NULL}
        /\ PartsRise(nd)
    BY <2>2, <2>3 DEF P!IfElse, P!NULL, NULL, Children, PartsRise
  <2>5. /\ 1 \in 1 .. item.count /\ 2 \in 1 .. item.count
        /\ item.count = 3 => 3 \in 1 .. item.count
    BY <2>1
  <2> QED BY <2>1, <2>4, <2>5
<1>6. CASE item.type = "VAR_DEF"
  <2>1. item.count = 3 /\ IsPart(item, 3) /\ 3 \in 1 .. item.count
    BY <1>1, <1>6 DEF Counts, IsPart, Part, IsName
  <2>2. Children(nd) = {v[3]} /\ nd.type = "VAR_DEF"
    BY <1>6 DEF P!Built, P!VarDef, Children
  <2> HIDE DEF nd
  <2> QED BY <2>1, <2>2 DEF PartsRise
<1>7. CASE item.type = "COMP_STMT"
  <2>1. nd = P!CompStmt(v)
    BY <1>7 DEF P!Built
  <2>2. \A i \in 1 .. item.count : IsPart(item, i)
    BY <1>7 DEF IsPart, Part, IsName
  <2> HIDE DEF nd
  <2>3. Rising(v)
    BY <1>1, <2>2 DEF Rising, InOrder
  <2>4. Children(nd) = Elements(v) /\ PartsRise(nd)
    BY <2>1, <2>3 DEF P!CompStmt, Children, PartsRise
  <2> QED BY <1>1, <2>2, <2>4 DEF Elements
<1>8. CASE item.type = "FUNC_CALL"
  <2>1. nd = P!FuncCall(tokens[v[1]].value, Tail(v))
    BY <1>8 DEF P!Built
  <2>2. item.count \in Nat \ {0}
    BY <1>1, <1>8 DEF Counts
  <2>3. \A i \in 1 .. item.count : i # 1 => IsPart(item, i)
    BY <1>8 DEF IsPart, Part, IsName
  <2>4. v # <<>>
    BY <1>1, <2>2
  <2>5. PICK tail : tail = Tail(v)
    OBVIOUS
  <2>6. /\ IsList(tail) /\ Len(tail) = item.count - 1
        /\ \A j \in 1 .. (item.count - 1) : tail[j] = v[j + 1]
    BY <1>1, <2>4, <2>5, TailFacts
  <2>7. DOMAIN tail = 1 .. (item.count - 1)
    BY <2>6, ListFacts
  <2>8. \A j \in DOMAIN tail : j + 1 \in 1 .. item.count /\ IsPart(item, j + 1) /\ tail[j] = v[j + 1]
    BY <2>2, <2>3, <2>6, <2>7
  <2> HIDE DEF nd
  <2>9. Rising(tail)
    <3> SUFFICES ASSUME NEW i \in DOMAIN tail, NEW j \in DOMAIN tail, i < j PROVE tail[i] < tail[j]
      BY DEF Rising
    <3>1. i + 1 < j + 1
      BY <2>2, <2>7
    <3> QED BY <2>8, <3>1 DEF InOrder
  <2>10. Children(nd) = Elements(tail) /\ PartsRise(nd)
    BY <2>1, <2>5, <2>9 DEF P!FuncCall, Children, PartsRise
  <2>11. \A k \in Elements(tail) : \E j \in DOMAIN tail : k = tail[j]
    BY DEF Elements
  <2> QED BY <2>8, <2>10, <2>11
<1>9. CASE item.type = "FUNC_DEF"
  <2>1. item.count \in 1 .. item.count /\ IsPart(item, item.count)
    <3>1. item.count \in Nat \ {0, 1, 2}
      BY <1>1, <1>9 DEF Counts
    <3> QED BY <1>9, <3>1 DEF IsPart, Part, IsName
  <2>2. Children(nd) = {v[item.count]} /\ nd.type = "FUNC_DEF"
    BY <1>1, <1>9 DEF P!Built, P!FuncDef, Children
  <2> HIDE DEF nd
  <2> QED BY <2>1, <2>2 DEF PartsRise
<1>10. CASE item.type \in {"IDENT", "VAR_DEC", "ENUM", "EMPTY_EXPR"}
  <2>1. Children(nd) = {} /\ nd.type = item.type
    BY <1>10 DEF P!Built, P!Ident, P!VarDec, P!Enum, P!EmptyExpr, Children
  <2> HIDE DEF nd
  <2> QED BY <1>10, <2>1 DEF PartsRise
<1> HIDE DEF nd, Good
<1> QED BY <1>1, <1>2, <1>3, <1>4, <1>5, <1>6, <1>7, <1>8, <1>9, <1>10 DEF MadeTypes

(* The children of a node were made before it.                             *)
LEMMA PartsMadeBefore ==
    ASSUME NEW pr, HeapOK(pr), NEW n \in DOMAIN pr.nodes
    PROVE  Children(pr.nodes[n]) \subseteq 1 .. (n - 1)
<1> DEFINE kids == {k \in 1 .. (n - 1) : pr.nodes[k].type # "FUNC_DEF"}
<1>1. PICK nd : nd = pr.nodes[n]
  OBVIOUS
<1>2. NodeOK(pr.nodes, n)
  BY DEF HeapOK
<1>3. ASSUME NEW s \in Seq(kids) PROVE Elements(s) \subseteq kids
  BY DEF Elements
<1>4. /\ nd.type = "UNARY_EXPR" => nd.postfix_expr \in kids
      /\ nd.type = "BIN_EXP"    => nd.left \in kids /\ nd.right \in kids
      /\ nd.type = "FUNC_CALL"  => nd.args \in Seq(kids)
      /\ nd.type = "LVAL"       => nd.ident \in kids
      /\ nd.type = "VAR_ASGN"   => nd.lval \in kids /\ nd.rval \in kids
      /\ nd.type = "COMP_STMT"  => nd.stmts \in Seq(kids)
      /\ nd.type \in {"EXPR_STMT", "RET", "VAR_DEF"} => nd.expr \in kids
      /\ nd.type = "IF"         => /\ nd.if_expr \in kids /\ nd.if_body \in kids
                                   /\ nd.else_body \in kids \cup {NULL}
      /\ nd.type = "WHILE"      => nd.expr \in kids /\ nd.body \in kids
      /\ nd.type = "FOR"        => /\ nd.init \in kids /\ nd.cond \in kids
                                   /\ nd.step \in kids /\ nd.body \in kids
      /\ nd.type = "FUNC_DEF"   => nd.body \in kids
  BY <1>1, <1>2 DEF NodeOK
<1>5. kids \subseteq 1 .. (n - 1)
  OBVIOUS
<1> HIDE DEF kids
<1>6. Children(nd) \subseteq kids
  BY <1>3, <1>4, SMTT(60) DEF Children
<1> QED BY <1>1, <1>5, <1>6

(* What is kept of the parts parsed so far stays what it is when a node is *)
(* made.                                                                   *)
LEMMA NodesGrow ==
    ASSUME Inv, NEW nd, NodeFits(nd, Kids, NodeIds("IDENT")),
           PartsRise(nd), \A k \in Children(nd) : Unused(prog, k),
           prog' = [prog EXCEPT !.nodes = Append(@, nd)], UNCHANGED tokens
    PROVE  /\ prog' = [nodes |-> prog'.nodes, funcs |-> prog'.funcs]
           /\ IsList(prog'.nodes) /\ DOMAIN prog'.nodes = 1 .. (Len(prog.nodes) + 1)
           /\ HeapOK(prog') /\ NoneShared(prog')
           /\ Unused(prog', Len(prog.nodes) + 1)
           /\ \A x : Unused(prog, x) /\ x \notin Children(nd) => Unused(prog', x)
           /\ \A kind, x : Fits(kind, x) => Fits(kind, x)'
           /\ Len(prog.nodes) + 1 \in Nat
           /\ Len(prog.nodes) + 1 \in NodeIds(nd.type)'
           /\ \A k : Used(prog, k) \/ k \in Children(nd) => Used(prog', k)
           /\ \A k \in DOMAIN prog'.nodes : k = Len(prog.nodes) + 1 \/ k \in DOMAIN prog.nodes
<1> DEFINE old == prog.nodes
           new == Append(prog.nodes, nd)
           l == Len(prog.nodes)
<1>1. prog' = [nodes |-> new, funcs |-> prog.funcs]
  BY DEF Inv
<1>2. prog'.nodes = new /\ prog'.funcs = prog.funcs
  BY <1>1
<1>3. /\ IsList(old) /\ l \in Nat /\ DOMAIN old = 1 .. l
      /\ IsList(new) /\ DOMAIN new = 1 .. (l + 1)
      /\ new[l + 1] = nd /\ \A k \in 1 .. l : new[k] = old[k]
  BY ListFacts, AppendFacts DEF Inv
<1>4. \A k \in 1 .. (l + 1) : NodeOK(new, k)
  <2>1. NodeFits(nd, {k \in DOMAIN old : old[k].type # "FUNC_DEF"},
                     {k \in DOMAIN old : old[k].type = "IDENT"})
    <3>1. /\ Kids = {k \in DOMAIN old : old[k].type # "FUNC_DEF"}
          /\ NodeIds("IDENT") = {k \in DOMAIN old : old[k].type = "IDENT"}
      BY DEF Kids, NodeIds
    <3> QED BY <3>1
  <2>2. NodeOK(new, l + 1)
    BY <1>3, <2>1, NewNodeOK
  <2>3. ASSUME NEW k \in 1 .. l PROVE NodeOK(new, k)
    <3>1. NodeOK(old, k)
      BY <1>3 DEF Inv, HeapOK
    <3> QED BY <1>3, <3>1, OldNodeOK
  <2>4. \A k \in 1 .. (l + 1) : k = l + 1 \/ k \in 1 .. l
    BY <1>3
  <2> QED BY <2>2, <2>3, <2>4
<1>5. prog.funcs \in Seq({n \in DOMAIN new : new[n].type = "FUNC_DEF"})
  <2>1. prog.funcs \in Seq({n \in DOMAIN old : old[n].type = "FUNC_DEF"})
    BY DEF Inv, HeapOK
  <2>2. {n \in DOMAIN old : old[n].type = "FUNC_DEF"} \subseteq
        {n \in DOMAIN new : new[n].type = "FUNC_DEF"}
    BY <1>3
  <2> HIDE DEF old, new
  <2> QED BY <2>1, <2>2
<1>6. IsVector(new)
  BY <1>3, ListIsVector DEF IsVector, Elements
<1> HIDE DEF new
<1>7. HeapOK(prog')
  BY <1>2, <1>3, <1>4, <1>5, <1>6 DEF HeapOK
<1>8. \A type : NodeIds(type) \subseteq NodeIds(type)'
  BY <1>2, <1>3 DEF NodeIds
<1>9. Kids \subseteq Kids'
  BY <1>2, <1>3 DEF Kids, NodeIds
<1>10. \A kind, x : Fits(kind, x) => Fits(kind, x)'
  BY <1>8, <1>9 DEF Fits
<1>11. l + 1 \in Nat /\ l + 1 \in NodeIds(nd.type)'
  BY <1>2, <1>3 DEF NodeIds
<1>12. ASSUME NEW k, Used(prog, k) \/ k \in Children(nd) PROVE Used(prog', k)
  <2>1. CASE k \in Children(nd)
    <3>1. l + 1 \in DOMAIN new /\ new[l + 1] = nd
      BY <1>3
    <3> QED BY <1>2, <2>1, <3>1 DEF Used
  <2>2. CASE \E m \in DOMAIN old : k \in Children(old[m])
    <3>1. PICK m \in DOMAIN old : k \in Children(old[m])
      BY <2>2
    <3>2. m \in DOMAIN new /\ new[m] = old[m]
      BY <1>3
    <3> QED BY <1>2, <3>1, <3>2 DEF Used
  <2>3. CASE k \in Elements(prog.funcs)
    BY <1>2, <2>3 DEF Used
  <2> QED BY <1>12, <2>1, <2>2, <2>3 DEF Used
<1>13. \A k \in 1 .. (l + 1) : k = l + 1 \/ k \in 1 .. l
  BY <1>3
<1>14. NoneShared(prog')
  <2>1. Rising(prog'.funcs)
    BY <1>2 DEF Inv, NoneShared
  <2>2. ASSUME NEW k \in DOMAIN new PROVE PartsRise(new[k])
    <3>1. CASE k = l + 1
      BY <1>3, <3>1
    <3>2. CASE k \in 1 .. l
      <4>1. new[k] = old[k] /\ k \in DOMAIN old
        BY <1>3, <3>2
      <4> QED BY <4>1 DEF Inv, NoneShared
    <3> QED BY <1>3, <1>13, <3>1, <3>2
  <2>3. ASSUME NEW j \in DOMAIN new, NEW k \in DOMAIN new, NEW x,
               x \in Children(new[j]), x \in Children(new[k])
        PROVE  j = k
    <3>1. CASE j \in 1 .. l /\ k \in 1 .. l
      <4>1. new[k] = old[k] /\ k \in DOMAIN old /\ new[j] = old[j] /\ j \in DOMAIN old
        BY <1>3, <3>1
      <4>2. Children(old[j]) \cap Children(old[k]) # {}
        BY <2>3, <4>1
      <4> QED BY <4>1, <4>2 DEF Inv, NoneShared
    <3>2. CASE j = l + 1 /\ k \in 1 .. l
      <4>1. x \in Children(nd) /\ k \in DOMAIN old /\ x \in Children(old[k])
        BY <1>3, <2>3, <3>2
      <4> QED BY <4>1 DEF Unused
    <3>3. CASE k = l + 1 /\ j \in 1 .. l
      <4>1. x \in Children(nd) /\ j \in DOMAIN old /\ x \in Children(old[j])
        BY <1>3, <2>3, <3>3
      <4> QED BY <4>1 DEF Unused
    <3> QED BY <1>3, <1>13, <3>1, <3>2, <3>3
  <2>4. \A j, k \in DOMAIN new : Children(new[j]) \cap Children(new[k]) # {} => j = k
    BY <2>3
  <2> HIDE DEF l, old
  <2> QED BY <1>2, <2>1, <2>2, <2>4 DEF NoneShared
<1>15. Unused(prog', l + 1)
  <2>1. ASSUME NEW m \in DOMAIN prog'.nodes PROVE l + 1 \notin Children(prog'.nodes[m])
    <3>1. Children(prog'.nodes[m]) \subseteq 1 .. (m - 1)
      BY <1>7, PartsMadeBefore
    <3>2. m \in 1 .. (l + 1)
      BY <1>2, <1>3
    <3> QED BY <1>3, <3>1, <3>2
  <2>2. ASSUME NEW i \in DOMAIN prog'.funcs PROVE prog'.funcs[i] < l + 1
    <3>1. prog.funcs \in Seq({n \in DOMAIN old : old[n].type = "FUNC_DEF"})
      BY DEF Inv, HeapOK
    <3>2. prog.funcs[i] \in 1 .. l
      BY <1>2, <1>3, <3>1
    <3> QED BY <1>2, <1>3, <3>2
  <2> QED BY <2>1, <2>2 DEF Unused
<1>16. ASSUME NEW x, Unused(prog, x), x \notin Children(nd) PROVE Unused(prog', x)
  <2>1. ASSUME NEW m \in DOMAIN new PROVE x \notin Children(new[m])
    BY <1>3, <1>13, <1>16 DEF Unused
  <2> QED BY <1>2, <1>16, <2>1 DEF Unused
<1> QED BY <1>1, <1>2, <1>3, <1>7, <1>10, <1>11, <1>12, <1>13, <1>14, <1>15, <1>16

LEMMA ShapeFacts ==
    ASSUME NEW values, NEW s \in Shapes, HasShape(values, s)
    PROVE  /\ IsList(values) /\ DOMAIN values = 1 .. Len(s) /\ Len(values) = Len(s)
           /\ Len(s) \in Nat
  BY DEF HasShape, IsList, Shapes

-----------------------------------------------------------------------------
(* The steps of the parser.                                                *)

LEMMA ItemEffect ==
    ASSUME Inv, NEW rule, P!Doing(rule)
    PROVE  /\ verdict = "parsing" /\ P!Item.do = rule
           /\ \E s, u \in Shapes : /\ HasShape(vals, s) /\ Kept(s)
                                   /\ Effect(P!Item, s, u)
                                   /\ Leads(Tail(todo), u, <<>>)
<1>1. PICK s \in Shapes : HasShape(vals, s) /\ Kept(s) /\ Leads(todo, s, <<>>)
  BY DEF Inv
<1>2. todo # <<>> /\ P!Item = Head(todo)
  BY DEF P!Doing, P!Item
<1>3. PICK u \in Shapes : Effect(Head(todo), s, u) /\ Leads(Tail(todo), u, <<>>)
  BY <1>1, <1>2, LeadsFrom
<1> QED BY <1>1, <1>2, <1>3 DEF P!Doing

LEMMA ReadsOn ==
    ASSUME Inv, P!Stay \/ P!NextToken, UNCHANGED tokens
    PROVE  (current \in 0 .. Len(tokens))'
  BY ListFacts DEF Inv, P!Stay, P!NextToken

LEMMA ThenKeeps ==
    ASSUME Inv, NEW rule, P!Doing(rule), NEW items, Unfolds(P!Item, items),
           P!Then(items), P!Stay \/ P!NextToken, UNCHANGED status
    PROVE  Inv'
<1>1. PICK s \in Shapes, u \in Shapes :
          HasShape(vals, s) /\ Kept(s) /\ Effect(P!Item, s, u) /\ Leads(Tail(todo), u, <<>>)
  BY ItemEffect
<1>2. Leads(items, s, u)
  BY <1>1 DEF Unfolds
<1>3. /\ todo' = items \o Tail(todo) /\ UNCHANGED <<tokens, vals, prog, verdict>>
      /\ verdict = "parsing"
  BY ItemEffect DEF P!Then
<1>4. Leads(todo', s, <<>>)
  BY <1>1, <1>2, <1>3, LeadsOn
<1>5. HasShape(vals, s)' /\ Kept(s)'
  BY <1>1, <1>3 DEF HasShape, Kept, Fits, Kids, NodeIds
<1>6. (current \in 0 .. Len(tokens))'
  BY <1>3, ReadsOn
<1> QED BY <1>3, <1>4, <1>5, <1>6 DEF Inv

LEMMA FailKeeps ==
    ASSUME Inv, verdict = "parsing", NEW v \in {"exit1", "crash"}, P!Fail(v), UNCHANGED status
    PROVE  Inv'
<1>1. UNCHANGED <<tokens, current, todo, vals, prog>> /\ verdict' = v
  BY DEF P!Fail
<1>2. PICK s \in Shapes : HasShape(vals, s) /\ Kept(s) /\ Leads(todo, s, <<>>)
  BY DEF Inv
<1>3. HasShape(vals, s)' /\ Kept(s)' /\ Leads(todo', s, <<>>)
  BY <1>1, <1>2 DEF HasShape, Kept, Fits, Kids, NodeIds
<1> QED BY <1>1, <1>3 DEF Inv

LEMMA CrashKeeps ==
    ASSUME Inv, verdict = "parsing", P!Crash, UNCHANGED status
    PROVE  Inv'
  BY FailKeeps DEF P!Crash

LEMMA Answers ==
    /\ \A pattern : P!Looks(pattern) \in {"yes", "no", "null"}
    /\ P!IsDeclaration \in {"yes", "no", "null"}
    /\ P!IsVarAsgn \in {"yes", "no", "null"}
    /\ P!IsFuncCallStart \in {"yes", "no", "null"}
<1>1. \A pattern : P!Looks(pattern) \in {"yes", "no", "null"}
  BY DEF P!Looks
<1> QED BY <1>1 DEF P!IsDeclaration, P!IsVarDec, P!IsVarDefStart, P!IsVarAsgn, P!IsFuncCallStart

LEMMA DecideKeeps ==
    ASSUME Inv, NEW rule, P!Doing(rule), NEW answer \in {"yes", "no", "null"},
           NEW items, NEW others, Unfolds(P!Item, items), Unfolds(P!Item, others),
           P!Decide(answer, items, others), UNCHANGED status
    PROVE  Inv'
<1>1. CASE answer = "yes"
  <2>1. P!Then(items) /\ P!Stay
    BY <1>1 DEF P!Decide
  <2> QED BY <2>1, ThenKeeps
<1>2. CASE answer = "no"
  <2>1. P!Then(others) /\ P!Stay
    BY <1>2 DEF P!Decide
  <2> QED BY <2>1, ThenKeeps
<1>3. CASE answer = "null"
  <2>1. P!Crash
    BY <1>3 DEF P!Decide
  <2> QED BY <2>1, CrashKeeps, ItemEffect
<1> QED BY <1>1, <1>2, <1>3

(* A value is pushed on what the item leaves.                              *)
LEMMA PushKeeps ==
    ASSUME Inv, NEW base \in Shapes, NEW w \in Seq(Nat), NEW kind \in Kinds, NEW x \in Nat,
           HasShape(w, base), \A k, y : Fits(k, y) => Fits(k, y)', Fits(kind, x)',
           vals' = Append(w, x), todo' = Tail(todo), UNCHANGED <<tokens, verdict, status>>,
           verdict = "parsing", Leads(Tail(todo), Append(base, kind), <<>>),
           (current \in 0 .. Len(tokens))',
           prog' = [nodes |-> prog'.nodes, funcs |-> prog'.funcs],
           IsList(prog'.nodes), HeapOK(prog'), NoneShared(prog'),
           \A n \in DOMAIN prog'.nodes :
               Used(prog', n) \/ Held(w, base, n) \/ (kind # "token" /\ n = x),
           Apart(prog', w, base),
           kind # "token" => /\ Unused(prog', x)
                             /\ \A k \in 1 .. Len(base) : base[k] # "token" => w[k] < x
    PROVE  Inv'
<1> DEFINE t == Append(base, kind)
<1>1. t \in Shapes
  BY Pushed
<1>2. HasShape(vals, t)'
  <2> DEFINE v == Append(w, x)
             l == Len(base)
  <2>1. l \in Nat /\ Len(t) = l + 1 /\ t[l + 1] = kind /\ \A k \in 1 .. l : t[k] = base[k]
    BY Pushed
  <2>2. Len(w) = l /\ \A k \in 1 .. l : Fits(base[k], w[k])
    BY DEF HasShape
  <2>3. /\ v \in Seq(Nat) /\ Len(v) = l + 1 /\ v[l + 1] = x /\ \A k \in 1 .. l : v[k] = w[k]
    BY <2>2
  <2> HIDE DEF v, t
  <2>4. ASSUME NEW k \in 1 .. Len(t) PROVE Fits(t[k], v[k])'
    <3>1. CASE k = l + 1
      BY <2>1, <2>3, <3>1
    <3>2. CASE k \in 1 .. l
      <4>1. Fits(base[k], w[k])
        BY <2>2, <3>2
      <4>2. Fits(base[k], w[k])'
        BY <4>1
      <4> QED BY <2>1, <2>3, <3>2, <4>2
    <3> QED BY <2>1, <3>1, <3>2
  <2>5. vals' = v
    BY DEF v
  <2> QED BY <2>1, <2>3, <2>4, <2>5 DEF HasShape
<1>3. Leads(todo', t, <<>>)
  OBVIOUS
<1>4. Kept(t)'
  <2> DEFINE v == Append(w, x)
             l == Len(base)
  <2>1. l \in Nat /\ Len(t) = l + 1 /\ t[l + 1] = kind /\ \A k \in 1 .. l : t[k] = base[k]
    BY Pushed
  <2>2. v[l + 1] = x /\ \A k \in 1 .. l : v[k] = w[k]
    <3>1. Len(w) = l
      BY DEF HasShape
    <3> QED BY <2>1, <3>1
  <2> HIDE DEF v, t, l
  <2>3. ASSUME NEW n, Held(w, base, n) PROVE Held(v, t, n)
    <3>1. PICK k \in 1 .. l : base[k] # "token" /\ w[k] = n
      BY <2>3 DEF Held, l
    <3>2. k \in 1 .. Len(t) /\ t[k] # "token" /\ v[k] = n
      BY <2>1, <2>2, <3>1
    <3> QED BY <3>2 DEF Held
  <2>4. ASSUME kind # "token" PROVE Held(v, t, x)
    <3>1. l + 1 \in 1 .. Len(t)
      BY <2>1
    <3> QED BY <2>1, <2>2, <2>4, <3>1 DEF Held
  <2>5. ASSUME NEW n \in DOMAIN prog'.nodes PROVE Used(prog', n) \/ Held(v, t, n)
    BY <2>3, <2>4
  <2>6. vals' = v
    BY DEF v
  <2>7. ASSUME NEW k \in 1 .. Len(t), t[k] # "token"
        PROVE  /\ Unused(prog', v[k])
               /\ \A j \in 1 .. (k - 1) : t[j] # "token" => v[j] < v[k]
    <3>1. CASE k = l + 1
      <4>1. v[k] = x /\ kind # "token" /\ k - 1 = l /\ l = Len(base)
        BY <2>1, <2>2, <2>7, <3>1 DEF l
      <4> QED BY <2>1, <2>2, <4>1
    <3>2. CASE k \in 1 .. l
      <4>1. v[k] = w[k] /\ base[k] # "token" /\ l = Len(base)
        BY <2>1, <2>2, <2>7, <3>2 DEF l
      <4>2. Unused(prog', w[k]) /\ \A j \in 1 .. (k - 1) : base[j] # "token" => w[j] < w[k]
        BY <3>2, <4>1 DEF Apart
      <4>3. \A j \in 1 .. (k - 1) : v[j] = w[j] /\ t[j] = base[j]
        BY <2>1, <2>2, <3>2
      <4> QED BY <4>1, <4>2, <4>3
    <3> QED BY <2>1, <3>1, <3>2
  <2>8. Apart(prog', v, t)
    BY <2>7 DEF Apart
  <2> QED BY <2>5, <2>6, <2>8 DEF Kept
<1> HIDE DEF t
<1> QED BY <1>1, <1>2, <1>3, <1>4 DEF Inv

LEMMA ExpectTokenStep ==
    ASSUME Inv, P!ExpectToken, UNCHANGED status
    PROVE  Inv'
<1>1. P!Doing("expect")
  BY DEF P!ExpectToken
<1>2. \/ P!Then(<<>>) /\ (P!Stay \/ P!NextToken)
      \/ P!Fail("exit1")
  BY DEF P!ExpectToken
<1>3. Unfolds(P!Item, <<>>)
  <2>1. P!Item.do = "expect"
    BY <1>1 DEF P!Doing, P!Item
  <2>2. \A s, u \in Shapes : Effect(P!Item, s, u) => u = s
    BY <2>1 DEF Effect, NodeRules, LoopRules
  <2> QED BY <2>2, LeadsNowhere DEF Unfolds
<1>4. CASE P!Fail("exit1")
  BY <1>1, <1>4, ItemEffect, FailKeeps
<1> QED BY <1>1, <1>2, <1>3, <1>4, ThenKeeps

LEMMA TakeTokenStep ==
    ASSUME Inv, P!TakeToken, UNCHANGED status
    PROVE  Inv'
<1>1. P!Doing("take") /\ verdict = "parsing"
  BY DEF P!TakeToken, P!Doing
<1>2. \/ P!Crash
      \/ P!Fail("exit1")
      \/ /\ P!Type # P!End
         /\ vals' = Append(vals, current + 1)
         /\ todo' = Tail(todo)
         /\ P!NextToken
         /\ UNCHANGED <<tokens, prog, verdict>>
  <2>1. P!Item.type # P!End
    BY <1>1, ItemEffect DEF Effect, NodeRules, LoopRules, P!End
  <2>2. P!Type = P!End \/ (P!Type # P!End /\ P!Type # P!Item.type) \/ P!Type = P!Item.type
    OBVIOUS
  <2> QED BY <2>1, <2>2 DEF P!TakeToken
<1>3. CASE P!Crash
  BY <1>1, <1>3, CrashKeeps
<1>4. CASE P!Fail("exit1")
  BY <1>1, <1>4, FailKeeps
<1>5. ASSUME P!Type # P!End, vals' = Append(vals, current + 1), todo' = Tail(todo),
             P!NextToken, UNCHANGED <<tokens, prog, verdict>>
      PROVE  Inv'
  <2>1. PICK s \in Shapes, u \in Shapes :
            HasShape(vals, s) /\ Kept(s) /\ Effect(P!Item, s, u) /\ Leads(Tail(todo), u, <<>>)
    BY <1>1, ItemEffect
  <2>2. u = Append(s, "token")
    BY <1>1, <2>1, ItemEffect DEF Effect, NodeRules, LoopRules
  <2>3. PICK x \in Nat : x = current + 1 /\ x \in DOMAIN tokens
    <3>1. current + 0 < Len(tokens)
      BY <1>5 DEF P!Type, P!TypeAt
    <3> QED BY <3>1, ListFacts DEF Inv
  <2>4. Fits("token", x)'
    BY <1>5, <2>3 DEF Fits
  <2>5. \A k, y : Fits(k, y) => Fits(k, y)'
    BY <1>5 DEF Fits, Kids, NodeIds
  <2>6. (current \in 0 .. Len(tokens))'
    BY <1>5, ReadsOn
  <2>7. vals \in Seq(Nat) /\ "token" \in Kinds
    BY <2>1 DEF HasShape, Kinds
  <2>8. prog' = [nodes |-> prog'.nodes, funcs |-> prog'.funcs] /\ IsList(prog'.nodes)
        /\ HeapOK(prog') /\ NoneShared(prog')
    BY <1>5 DEF Inv
  <2>9. /\ \A n \in DOMAIN prog'.nodes : Used(prog', n) \/ Held(vals, s, n)
        /\ Apart(prog', vals, s)
    BY <1>5, <2>1 DEF Kept
  <2> QED BY <1>1, <1>5, <2>1, <2>2, <2>3, <2>4, <2>5, <2>6, <2>7, <2>8, <2>9, PushKeeps
<1> QED BY <1>2, <1>3, <1>4, <1>5

(* What make_ast_* is given are the values on top, of the kinds it needs.  *)
LEMMA MakeNodeStep ==
    ASSUME Inv, P!MakeNode, UNCHANGED status
    PROVE  Inv'
<1> DEFINE rest == Len(vals) - P!Item.count
           v == SubSeq(vals, rest + 1, Len(vals))
           w == SubSeq(vals, 1, rest)
<1>0. PICK node : node = P!Built(P!Item, v)
  OBVIOUS
<1>1. /\ P!Doing("make") /\ verdict = "parsing"
      /\ prog' = [prog EXCEPT !.nodes = Append(@, node)]
      /\ vals' = Append(w, Len(prog.nodes) + 1)
      /\ todo' = Tail(todo)
      /\ UNCHANGED <<tokens, current, verdict>>
  BY <1>0 DEF P!MakeNode, P!Doing
<1>2. PICK s \in Shapes, u \in Shapes :
          HasShape(vals, s) /\ Kept(s) /\ Effect(P!Item, s, u) /\ Leads(Tail(todo), u, <<>>)
  BY <1>1, ItemEffect
<1>3. MakeOK(P!Item) /\ \E base \in Shapes, kind \in Made(P!Item.type) :
          Topped(s, base, P!Item.type, P!Item.count) /\ u = Append(base, kind)
  BY <1>1, <1>2, ItemEffect DEF Effect, NodeRules, LoopRules
<1>4. PICK base \in Shapes, kind \in Made(P!Item.type) :
          Topped(s, base, P!Item.type, P!Item.count) /\ u = Append(base, kind)
  BY <1>3
<1> DEFINE n == P!Item.count
<1>5. /\ Len(base) \in Nat /\ n \in Nat /\ Len(vals) = Len(base) + n /\ vals \in Seq(Nat)
      /\ rest = Len(base)
  <2>1. Len(base) \in Nat
    BY DEF Shapes
  <2>2. n \in Nat
    <3>1. n \in Counts(P!Item.type) /\ P!Item.type \in MadeTypes
      BY <1>3, <1>4 DEF Topped, MakeOK
    <3> HIDE DEF n
    <3> QED BY <3>1 DEF Counts, MadeTypes
  <2>3. Len(vals) = Len(base) + n /\ vals \in Seq(Nat)
    BY <1>2, <1>4 DEF HasShape, Topped
  <2> QED BY <2>1, <2>2, <2>3
<1>6. /\ w \in Seq(Nat) /\ Len(w) = Len(base)
      /\ \A k \in 1 .. Len(base) : w[k] = vals[k]
  <2> HIDE DEF n, v
  <2> QED BY <1>5
<1>7. /\ v \in Seq(Nat) /\ Len(v) = n
      /\ \A i \in 1 .. n : v[i] = vals[Len(base) + i]
  <2>1. v = SubSeq(vals, Len(base) + 1, Len(base) + n)
    BY <1>5
  <2> HIDE DEF v, n
  <2>2. v \in Seq(Nat) /\ Len(v) = n
    BY <1>5, <2>1, SMTT(30)
  <2>3. ASSUME NEW i \in 1 .. n PROVE v[i] = vals[Len(base) + i]
    <3>1. Len(base) + 1 + i - 1 = Len(base) + i
      BY <1>5
    <3>2. v[i] = vals[Len(base) + 1 + i - 1]
      BY <1>5, <2>1
    <3> QED BY <3>1, <3>2
  <2> QED BY <2>2, <2>3
<1>8. Len(s) = Len(base) + n /\ \A k \in 1 .. Len(s) : Fits(s[k], vals[k])
  BY <1>2, <1>4 DEF HasShape, Topped
<1>9. HasParts(P!Item, v)
  <2>1. ASSUME NEW i \in 1 .. n PROVE Fits(Part(P!Item.type, n, i), v[i])
    <3>1. Len(base) + i \in 1 .. Len(s)
      BY <1>5, <1>8
    <3>2. s[Len(base) + i] = Part(P!Item.type, n, i)
      BY <1>4 DEF Topped
    <3> HIDE DEF n
    <3> QED BY <1>7, <1>8, <3>1, <3>2
  <2> HIDE DEF v
  <2> QED BY <1>4, <1>7, <2>1 DEF HasParts, Topped
<1>10. HasShape(w, base)
  <2>1. ASSUME NEW k \in 1 .. Len(base) PROVE Fits(base[k], w[k])
    <3>1. k \in 1 .. Len(s) /\ s[k] = base[k]
      BY <1>4, <1>5, <1>8 DEF Topped
    <3> HIDE DEF w, n
    <3> QED BY <1>6, <1>8, <3>1
  <2> HIDE DEF w
  <2> QED BY <1>6, <2>1 DEF HasShape
<1>11. NodeFits(node, Kids, NodeIds("IDENT")) /\ node.type = P!Item.type
  BY <1>0, <1>3, <1>9, BuiltFits
<1>20. ASSUME NEW i \in 1 .. n, IsPart(P!Item, i)
       PROVE  /\ Unused(prog, v[i])
              /\ \A j \in 1 .. (i - 1) : IsPart(P!Item, j) => v[j] < v[i]
              /\ \A j \in 1 .. Len(base) : base[j] # "token" => w[j] < v[i]
  <2> DEFINE l == Len(base)
             k == l + i
  <2>1. /\ k \in 1 .. Len(s) /\ \A j \in 1 .. (i - 1) : l + j \in 1 .. (k - 1) /\ j \in 1 .. n
        /\ \A j \in 1 .. l : j \in 1 .. (k - 1) /\ j \in 1 .. Len(s)
    <3>1. PICK a, b, c : a = l /\ b = n /\ c = Len(s)
      OBVIOUS
    <3>2. a \in Nat /\ b \in Nat /\ c = a + b /\ i \in 1 .. b
      BY <1>5, <1>8, <3>1
    <3>3. /\ a + i \in 1 .. c
          /\ \A j \in 1 .. (i - 1) : a + j \in 1 .. (a + i - 1) /\ j \in 1 .. b
          /\ \A j \in 1 .. a : j \in 1 .. (a + i - 1) /\ j \in 1 .. c
      BY ONLY <3>2
    <3> QED BY <3>1, <3>3
  <2>2. \A j \in 1 .. n : s[l + j] # "token" <=> IsPart(P!Item, j)
    BY <1>4 DEF Topped, IsPart
  <2>3. Apart(prog, vals, s)
    BY <1>2 DEF Kept
  <2>4. /\ \A j \in 1 .. n : v[j] = vals[l + j]
        /\ \A j \in 1 .. l : w[j] = vals[j] /\ s[j] = base[j]
    BY <1>4, <1>6, <1>7 DEF Topped
  <2>5. s[k] # "token" /\ v[i] = vals[k]
    BY <1>20, <2>2, <2>4
  <2> HIDE DEF k, l, n, v, w, rest
  <2>6. Unused(prog, vals[k]) /\ \A j \in 1 .. (k - 1) : s[j] # "token" => vals[j] < vals[k]
    BY <2>1, <2>3, <2>5 DEF Apart
  <2>7. ASSUME NEW j \in 1 .. (i - 1), IsPart(P!Item, j) PROVE v[j] < v[i]
    BY <2>1, <2>2, <2>4, <2>5, <2>6, <2>7
  <2>8. ASSUME NEW j \in 1 .. l, base[j] # "token" PROVE w[j] < v[i]
    BY <2>1, <2>4, <2>5, <2>6, <2>8
  <2> QED BY <2>5, <2>6, <2>7, <2>8 DEF l
<1>21. InOrder(P!Item, v)
  <2> HIDE DEF v, w
  <2> SUFFICES ASSUME NEW i \in 1 .. n, NEW j \in 1 .. n, i < j, IsPart(P!Item, i), IsPart(P!Item, j)
               PROVE  v[i] < v[j]
    BY DEF InOrder
  <2>1. i \in 1 .. (j - 1)
    BY <1>5
  <2> QED BY <1>20, <2>1
<1>22. /\ \A k \in Children(node) : \E i \in 1 .. n : IsPart(P!Item, i) /\ k = v[i]
       /\ PartsRise(node)
  <2> HIDE DEF v, w
  <2> QED BY <1>0, <1>3, <1>9, <1>21, BuiltOfParts
<1>23. \A k \in Children(node) : Unused(prog, k)
  <2> HIDE DEF v, w
  <2> QED BY <1>20, <1>22
<1>12. /\ prog' = [nodes |-> prog'.nodes, funcs |-> prog'.funcs]
       /\ IsList(prog'.nodes)
       /\ HeapOK(prog') /\ NoneShared(prog')
       /\ Unused(prog', Len(prog.nodes) + 1)
       /\ \A x : Unused(prog, x) /\ x \notin Children(node) => Unused(prog', x)
       /\ \A k, x : Fits(k, x) => Fits(k, x)'
       /\ Len(prog.nodes) + 1 \in Nat
       /\ Len(prog.nodes) + 1 \in NodeIds(node.type)'
       /\ \A k : Used(prog, k) \/ k \in Children(node) => Used(prog', k)
       /\ \A k \in DOMAIN prog'.nodes : k = Len(prog.nodes) + 1 \/ k \in DOMAIN prog.nodes
  BY <1>1, <1>11, <1>22, <1>23, NodesGrow
<1>13. PICK x \in Nat : x = Len(prog.nodes) + 1
  BY <1>12
<1>14. PICK type : type = P!Item.type
  OBVIOUS
<1>15. kind \in Kinds /\ Fits(kind, x)'
  <2>1. x \in NodeIds(type)' /\ kind \in Made(type)
    <3>1. x \in NodeIds(node.type)' /\ node.type = type
      BY <1>11, <1>12, <1>13, <1>14
    <3> QED BY <3>1, <1>14 DEF NodeIds
  <2>2. CASE type = "FUNC_DEF"
    <3>1. kind = "func"
      BY <2>1, <2>2 DEF Made
    <3> QED BY <2>1, <2>2, <3>1 DEF Fits, Kinds
  <2>3. CASE type # "FUNC_DEF"
    <3>1. x \in Kids'
      BY <2>1, <2>3 DEF NodeIds, Kids
    <3>2. kind = "node" \/ (kind = "ident" /\ type = "IDENT")
      BY <2>1, <2>3 DEF Made
    <3> QED BY <2>1, <3>1, <3>2 DEF Fits, Kinds
  <2> QED BY <2>2, <2>3
<1>16. (current \in 0 .. Len(tokens))'
  BY <1>1 DEF Inv
<1>17. kind # "token"
  BY <1>4 DEF Made
<1>18. ASSUME NEW k, Held(vals, s, k) PROVE Held(w, base, k) \/ Used(prog', k)
  <2> HIDE DEF w, n, v, rest
  <2>1. PICK j \in 1 .. Len(s) : s[j] # "token" /\ vals[j] = k
    BY <1>18 DEF Held
  <2>2. CASE j \in 1 .. Len(base)
    BY <1>4, <1>6, <2>1, <2>2 DEF Held, Topped
  <2>3. CASE j \notin 1 .. Len(base)
    <3>1. PICK i \in 1 .. n : j = Len(base) + i
      <4>1. j - Len(base) \in 1 .. n /\ j = Len(base) + (j - Len(base))
        BY <1>5, <1>8, <2>3
      <4> QED BY <4>1
    <3>2. v[i] = k /\ s[j] = Part(P!Item.type, n, i)
      BY <1>4, <1>7, <2>1, <3>1 DEF Topped, n
    <3>3. k \in Children(node)
      BY <1>0, <1>3, <1>9, <2>1, <3>1, <3>2, PartsAreChildren DEF n
    <3> QED BY <1>12, <3>3
  <2> QED BY <2>2, <2>3
<1> HIDE DEF w, n, v, rest
<1>19. \A k \in DOMAIN prog'.nodes :
           Used(prog', k) \/ Held(w, base, k) \/ (kind # "token" /\ k = x)
  BY <1>2, <1>12, <1>13, <1>17, <1>18 DEF Kept
<1>24. ASSUME NEW k \in 1 .. Len(base), base[k] # "token"
       PROVE  /\ Unused(prog, w[k])
              /\ \A j \in 1 .. (k - 1) : base[j] # "token" => w[j] < w[k]
              /\ w[k] \in DOMAIN prog.nodes
  <2>9. k \in 1 .. Len(s) /\ \A j \in 1 .. (k - 1) : j \in 1 .. Len(base)
    BY <1>5, <1>8
  <2>1. /\ k \in 1 .. Len(s) /\ s[k] = base[k] /\ w[k] = vals[k]
        /\ \A j \in 1 .. (k - 1) : s[j] = base[j] /\ w[j] = vals[j]
    <3>1. \A j \in 1 .. Len(base) : s[j] = base[j] /\ w[j] = vals[j]
      BY <1>4, <1>6 DEF Topped
    <3> QED BY <2>9, <3>1
  <2>2. Unused(prog, vals[k]) /\ \A j \in 1 .. (k - 1) : s[j] # "token" => vals[j] < vals[k]
    BY <1>2, <1>24, <2>1 DEF Kept, Apart
  <2>3. base[k] \in Kinds
    BY DEF Shapes
  <2>4. w[k] \in DOMAIN prog.nodes
    BY <1>8, <1>24, <2>1, <2>3 DEF Fits, Kinds, Kids, NodeIds
  <2> QED BY <2>1, <2>2, <2>4
<1>25. Apart(prog', w, base)
  <2> SUFFICES ASSUME NEW k \in 1 .. Len(base), base[k] # "token"
               PROVE  Unused(prog', w[k])
    BY <1>24 DEF Apart
  <2>1. w[k] \notin Children(node)
    <3> SUFFICES ASSUME w[k] \in Children(node) PROVE FALSE
      OBVIOUS
    <3>1. PICK i \in 1 .. n : IsPart(P!Item, i) /\ w[k] = v[i]
      BY <1>22
    <3>2. w[k] < v[i]
      BY <1>20, <3>1
    <3>3. w[k] \in Nat
      BY <1>6
    <3> QED BY <3>1, <3>2, <3>3
  <2> QED BY <1>12, <1>24, <2>1
<1>26. \A k \in 1 .. Len(base) : base[k] # "token" => w[k] < x
  <2>1. DOMAIN prog.nodes = 1 .. Len(prog.nodes) /\ Len(prog.nodes) \in Nat
    BY ListFacts DEF Inv
  <2> QED BY <1>13, <1>24, <2>1
<1>27. Unused(prog', x)
  BY <1>12, <1>13
<1> QED BY <1>1, <1>2, <1>4, <1>6, <1>10, <1>12, <1>13, <1>15, <1>16, <1>19, <1>25, <1>26, <1>27, PushKeeps

LEMMA ParseIntConstStep ==
    ASSUME Inv, P!ParseIntConst, UNCHANGED status
    PROVE  Inv'
<1>0. PICK node : node = P!IntConst(tokens[current + 1].number)
  OBVIOUS
<1>1. P!Doing("primary") /\ verdict = "parsing"
  BY DEF P!ParseIntConst, P!Doing
<1>2. CASE P!Crash
  BY <1>1, <1>2, CrashKeeps
<1>3. ASSUME prog' = [prog EXCEPT !.nodes = Append(@, node)],
             vals' = Append(vals, Len(prog.nodes) + 1),
             todo' = Tail(todo), P!NextToken, UNCHANGED <<tokens, verdict>>
      PROVE  Inv'
  <2>1. PICK s \in Shapes, u \in Shapes :
            HasShape(vals, s) /\ Kept(s) /\ Effect(P!Item, s, u) /\ Leads(Tail(todo), u, <<>>)
    BY <1>1, ItemEffect
  <2>2. u = Append(s, "node")
    BY <1>1, <2>1, ItemEffect DEF Effect, NodeRules, LoopRules
  <2>3. NodeFits(node, Kids, NodeIds("IDENT")) /\ node.type = "INT_CONST"
    BY <1>0 DEF NodeFits, P!IntConst, ExprTypes
  <2>10. Children(node) = {} /\ PartsRise(node)
    BY <1>0 DEF P!IntConst, Children, PartsRise
  <2>4. /\ prog' = [nodes |-> prog'.nodes, funcs |-> prog'.funcs]
        /\ IsList(prog'.nodes)
        /\ HeapOK(prog') /\ NoneShared(prog')
        /\ Unused(prog', Len(prog.nodes) + 1)
        /\ \A y : Unused(prog, y) /\ y \notin Children(node) => Unused(prog', y)
        /\ \A k, x : Fits(k, x) => Fits(k, x)'
        /\ Len(prog.nodes) + 1 \in Nat
        /\ Len(prog.nodes) + 1 \in NodeIds(node.type)'
        /\ \A k : Used(prog, k) \/ k \in Children(node) => Used(prog', k)
        /\ \A k \in DOMAIN prog'.nodes : k = Len(prog.nodes) + 1 \/ k \in DOMAIN prog.nodes
    BY <1>3, <2>3, <2>10, NodesGrow
  <2>5. PICK x \in Nat : x = Len(prog.nodes) + 1
    BY <2>4
  <2>8. Fits("node", x)'
    BY <2>3, <2>4, <2>5 DEF Fits, NodeIds, Kids
  <2>6. (current \in 0 .. Len(tokens))'
    BY <1>3, ReadsOn
  <2>7. vals \in Seq(Nat) /\ "node" \in Kinds
    BY <2>1 DEF HasShape, Kinds
  <2>9. \A k \in DOMAIN prog'.nodes : Used(prog', k) \/ Held(vals, s, k) \/ k = x
    BY <2>1, <2>4, <2>5 DEF Kept
  <2>11. Apart(prog', vals, s)
    BY <2>1, <2>4, <2>10 DEF Kept, Apart
  <2>12. ASSUME NEW k \in 1 .. Len(s), s[k] # "token" PROVE vals[k] < x
    <3>1. s[k] \in Kinds /\ Fits(s[k], vals[k])
      BY <2>1 DEF Shapes, HasShape
    <3>2. vals[k] \in DOMAIN prog.nodes
      BY <2>12, <3>1 DEF Fits, Kinds, Kids, NodeIds
    <3>3. DOMAIN prog.nodes = 1 .. Len(prog.nodes) /\ Len(prog.nodes) \in Nat
      BY ListFacts DEF Inv
    <3> QED BY <2>5, <3>2, <3>3
  <2>13. Unused(prog', x)
    BY <2>4, <2>5
  <2> QED BY <1>1, <1>3, <2>1, <2>2, <2>4, <2>5, <2>6, <2>7, <2>8, <2>9, <2>11, <2>12, <2>13, PushKeeps
<1> QED BY <1>0, <1>2, <1>3 DEF P!ParseIntConst

(* The rules that return a node: one that goes on with items that do too.  *)
LEMMA NodeThenKeeps ==
    ASSUME Inv, NEW rule \in NodeRules, P!Doing(rule), NEW items,
           \A s \in Shapes : Leads(items, s, Append(s, "node")),
           P!Then(items), P!Stay \/ P!NextToken, UNCHANGED status
    PROVE  Inv'
<1>1. Unfolds(P!Item, items)
  BY ItemEffect, NodeRule
<1> QED BY <1>1, ThenKeeps

LEMMA NodeDecideKeeps ==
    ASSUME Inv, NEW rule \in NodeRules, P!Doing(rule), NEW answer \in {"yes", "no", "null"},
           NEW items, \A s \in Shapes : Leads(items, s, Append(s, "node")),
           NEW others, \A s \in Shapes : Leads(others, s, Append(s, "node")),
           P!Decide(answer, items, others), UNCHANGED status
    PROVE  Inv'
<1>1. Unfolds(P!Item, items) /\ Unfolds(P!Item, others)
  BY ItemEffect, NodeRule
<1> QED BY <1>1, DecideKeeps

LEMMA ParseExpressionStep ==
    ASSUME Inv, P!ParseExpression, UNCHANGED status
    PROVE  Inv'
<1>1. /\ P!Doing("expression")
      /\ P!Decide(P!IsVarAsgn, <<P!Call("var_asgn")>>, P!Operand(10))
  BY LevelFacts DEF P!ParseExpression
<1>2. "expression" \in NodeRules /\ "var_asgn" \in NodeRules
  BY DEF NodeRules
<1>3. \A s \in Shapes : Leads(<<P!Call("var_asgn")>>, s, Append(s, "node"))
  BY <1>2, OneCall
<1>4. \A s \in Shapes : Leads(P!Operand(10), s, Append(s, "node"))
  BY OperandLeads
<1> QED BY <1>1, <1>2, <1>3, <1>4, Answers, NodeDecideKeeps

LEMMA ParseVarAsgnStep ==
    ASSUME Inv, P!ParseVarAsgn, UNCHANGED status
    PROVE  Inv'
<1> DEFINE items == <<P!Take("IDENT"), P!Make("IDENT", 1), P!Make("LVAL", 1), P!Expect("="),
                      P!Call("expression"), P!Make("VAR_ASGN", 2)>>
<1>1. P!Doing("var_asgn") /\ P!Then(items) /\ P!Stay /\ "var_asgn" \in NodeRules
  BY DEF P!ParseVarAsgn, NodeRules
<1>2. \A s \in Shapes : Leads(items, s, Append(s, "node"))
  BY VarAsgnLeads
<1> HIDE DEF items
<1> QED BY <1>1, <1>2, NodeThenKeeps

LEMMA ParseOperatorsStep ==
    ASSUME Inv, P!ParseOperators, UNCHANGED status
    PROVE  Inv'
<1> DEFINE level == P!Item.level
           items == P!Operand(level - 1) \o <<P!MakeOp("BIN_EXP", 2, P!Type), P!Operators(level)>>
<1>1. P!Doing("operators") /\ verdict = "parsing" /\ P!Item.do = "operators"
  BY DEF P!ParseOperators, P!Doing, P!Item
<1>2. \/ P!Then(<<>>) /\ P!Stay
      \/ P!Crash
      \/ P!Then(items) /\ P!NextToken /\ P!Type \in P!Levels[level]
  BY DEF P!ParseOperators
<1>3. \A s, u \in Shapes : Effect(P!Item, s, u) =>
          /\ level \in 1 .. 10
          /\ \E base \in Shapes : s = Append(base, "node") /\ u = s
  BY <1>1 DEF Effect, NodeRules, LoopRules
<1>4. CASE P!Then(<<>>) /\ P!Stay
  <2>1. Unfolds(P!Item, <<>>)
    BY <1>3, LeadsNowhere DEF Unfolds
  <2> QED BY <1>1, <1>4, <2>1, ThenKeeps
<1>5. CASE P!Crash
  BY <1>1, <1>5, CrashKeeps
<1>6. ASSUME P!Then(items), P!NextToken, P!Type \in P!Levels[level]
      PROVE  Inv'
  <2>1. ASSUME NEW s \in Shapes, NEW u \in Shapes, Effect(P!Item, s, u)
        PROVE  Leads(items, s, u)
    <3>1. PICK base \in Shapes : s = Append(base, "node") /\ u = s
      BY <1>3, <2>1
    <3> DEFINE t == Append(s, "node")
    <3>2. level \in 1 .. 10
      BY <1>3, <2>1
    <3>3. level - 1 \in 0 .. 10 /\ P!Type \in BinOps
      BY <1>6, <3>2, LevelFacts
    <3> HIDE DEF level
    <3>4. Leads(P!Operand(level - 1), s, t)
      BY <3>3, OperandLeads
    <3>5. t \in Shapes
      BY NodePushed
    <3>6. Topped(t, base, "BIN_EXP", 2)
      BY <3>1, Topped2 DEF Kinds, Counts, Part, IsName
    <3>7. Effect(P!MakeOp("BIN_EXP", 2, P!Type), t, s)
      BY <3>1, <3>3, <3>6, MakeOpEffect
    <3>8. Effect(P!Operators(level), s, s)
      BY <3>1, <3>2, SimpleEffects
    <3> HIDE DEF t
    <3>9. Leads(<<P!MakeOp("BIN_EXP", 2, P!Type), P!Operators(level)>>, t, s)
      BY <3>5, <3>7, <3>8, Leads2
    <3> QED BY <3>1, <3>4, <3>9, LeadsOn
  <2>2. Unfolds(P!Item, items)
    BY <2>1 DEF Unfolds
  <2> HIDE DEF items
  <2> QED BY <1>1, <1>6, <2>2, ThenKeeps
<1> HIDE DEF items, level
<1> QED BY <1>2, <1>4, <1>5, <1>6

LEMMA ParseUnaryStep ==
    ASSUME Inv, P!ParseUnary, UNCHANGED status
    PROVE  Inv'
<1> DEFINE items == <<P!Call("primary"), P!MakeOp("UNARY_EXPR", 1, "!")>>
<1>1. P!Doing("unary") /\ verdict = "parsing" /\ "unary" \in NodeRules
  BY DEF P!ParseUnary, P!Doing, NodeRules
<1>2. P!Crash \/ (P!Then(items) /\ P!NextToken) \/ (P!Then(<<P!Call("primary")>>) /\ P!Stay)
  BY DEF P!ParseUnary
<1>3. \A s \in Shapes : Leads(items, s, Append(s, "node"))
  BY UnaryLeads
<1>4. \A s \in Shapes : Leads(<<P!Call("primary")>>, s, Append(s, "node"))
  BY OneCall DEF NodeRules
<1> HIDE DEF items
<1>5. CASE P!Crash
  BY <1>1, <1>5, CrashKeeps
<1> QED BY <1>1, <1>2, <1>3, <1>4, <1>5, NodeThenKeeps

LEMMA ParseIdentStep ==
    ASSUME Inv, P!ParseIdent, UNCHANGED status
    PROVE  Inv'
<1> DEFINE items == <<P!Take("IDENT"), P!Make("IDENT", 1)>>
<1>1. /\ P!Doing("primary") /\ "primary" \in NodeRules
      /\ P!Decide(P!IsFuncCallStart, <<P!Call("func_call")>>, items)
  BY DEF P!ParseIdent, NodeRules
<1>2. \A s \in Shapes : Leads(items, s, Append(s, "node"))
  BY NameLeads
<1>3. \A s \in Shapes : Leads(<<P!Call("func_call")>>, s, Append(s, "node"))
  BY OneCall DEF NodeRules
<1> HIDE DEF items
<1> QED BY <1>1, <1>2, <1>3, Answers, NodeDecideKeeps

LEMMA ParseParenthesesStep ==
    ASSUME Inv, P!ParseParentheses, UNCHANGED status
    PROVE  Inv'
<1> DEFINE items == <<P!Call("expression"), P!Expect(")")>>
<1>1. P!Doing("primary") /\ "primary" \in NodeRules /\ P!Then(items) /\ P!NextToken
  BY DEF P!ParseParentheses, NodeRules
<1>2. \A s \in Shapes : Leads(items, s, Append(s, "node"))
  BY ParenthesesLeads
<1> HIDE DEF items
<1> QED BY <1>1, <1>2, NodeThenKeeps

LEMMA ParseEmptyStep ==
    ASSUME Inv, P!ParseEmpty, UNCHANGED status
    PROVE  Inv'
<1> DEFINE items == <<P!Make("EMPTY_EXPR", 0)>>
<1>1. P!Doing("primary") /\ "primary" \in NodeRules /\ P!Then(items) /\ P!Stay
  BY DEF P!ParseEmpty, NodeRules
<1>2. \A s \in Shapes : Leads(items, s, Append(s, "node"))
  BY EmptyLeads
<1> HIDE DEF items
<1> QED BY <1>1, <1>2, NodeThenKeeps

LEMMA ParseFuncCallStep ==
    ASSUME Inv, P!ParseFuncCall, UNCHANGED status
    PROVE  Inv'
<1> DEFINE items == <<P!Take("IDENT"), P!Expect("("), P!Loop("args", 1)>>
<1>1. P!Doing("func_call") /\ "func_call" \in NodeRules /\ P!Then(items) /\ P!Stay
  BY DEF P!ParseFuncCall, NodeRules
<1>2. \A s \in Shapes : Leads(items, s, Append(s, "node"))
  BY FuncCallLeads
<1> HIDE DEF items
<1> QED BY <1>1, <1>2, NodeThenKeeps

(* The two sides of the loop over the arguments.                           *)
LEMMA ArgsStep ==
    ASSUME Inv, P!ParseArgs \/ P!ParseAfterArg, UNCHANGED status
    PROVE  Inv'
<1> DEFINE n == P!Item.count
           done == <<P!Expect(")"), P!Make("FUNC_CALL", n)>>
           more == <<P!Call("expression"), P!Loop("after_arg", n + 1)>>
           next == <<P!Expect(","), P!Loop("args", n)>>
<1>1. PICK rule \in {"args", "after_arg"} : P!Doing(rule)
  BY DEF P!ParseArgs, P!ParseAfterArg
<1>2. P!Item.do = rule /\ rule \in LoopRules /\ LoopMakes(rule) = "FUNC_CALL" /\ verdict = "parsing"
  BY <1>1, ItemEffect DEF LoopRules, LoopMakes
<1>3. P!Crash \/ (P!Stay /\ (P!Then(done) \/ P!Then(more) \/ P!Then(next)))
  BY DEF P!ParseArgs, P!ParseAfterArg, P!CallDone
<1>4. \A s, base \in Shapes : Topped(s, base, "FUNC_CALL", n) =>
          /\ Leads(done, s, Append(base, "node"))
          /\ Leads(more, s, Append(base, "node"))
          /\ Leads(next, s, Append(base, "node"))
  BY ArgsLead
<1> HIDE DEF done, more, next
<1>5. Unfolds(P!Item, done) /\ Unfolds(P!Item, more) /\ Unfolds(P!Item, next)
  BY <1>2, <1>4, LoopRule
<1> HIDE DEF n
<1>6. CASE P!Crash
  BY <1>2, <1>6, CrashKeeps
<1> QED BY <1>1, <1>3, <1>5, <1>6, ThenKeeps

LEMMA ParseStatementStep ==
    ASSUME Inv, P!ParseStatement, UNCHANGED status
    PROVE  Inv'
<1>1. P!Doing("statement") /\ verdict = "parsing" /\ "statement" \in NodeRules
  BY DEF P!ParseStatement, P!Doing, NodeRules
<1>2. \/ P!Crash
      \/ P!Type \in {"while", "for"} /\ P!Then(<<P!Call(P!Type)>>) /\ P!Stay
      \/ P!Decide(P!IsDeclaration, <<P!Call("declaration")>>, <<P!Call(P!OfStatement(P!Type))>>)
  BY DEF P!ParseStatement
<1>3. P!OfStatement(P!Type) \in NodeRules
  BY DEF P!OfStatement, NodeRules
<1>4. /\ \A s \in Shapes : Leads(<<P!Call("declaration")>>, s, Append(s, "node"))
      /\ \A s \in Shapes : Leads(<<P!Call(P!OfStatement(P!Type))>>, s, Append(s, "node"))
  BY <1>3, OneCall DEF NodeRules
<1>5. CASE P!Crash
  BY <1>1, <1>5, CrashKeeps
<1>6. CASE P!Type \in {"while", "for"} /\ P!Then(<<P!Call(P!Type)>>) /\ P!Stay
  <2>1. P!Type \in NodeRules
    BY <1>6 DEF NodeRules
  <2>2. \A s \in Shapes : Leads(<<P!Call(P!Type)>>, s, Append(s, "node"))
    BY <2>1, OneCall
  <2> QED BY <1>1, <1>6, <2>2, NodeThenKeeps
<1>7. CASE P!Decide(P!IsDeclaration, <<P!Call("declaration")>>,
                    <<P!Call(P!OfStatement(P!Type))>>)
  BY <1>1, <1>4, <1>7, Answers, NodeDecideKeeps
<1> QED BY <1>2, <1>5, <1>6, <1>7

LEMMA ParseDeclarationStep ==
    ASSUME Inv, P!ParseDeclaration, UNCHANGED status
    PROVE  Inv'
<1> DEFINE start == <<P!Take("TYPE"), P!Take("IDENT")>>
           def == start \o <<P!Expect("="), P!Call("expression"), P!Expect(";"),
                             P!Make("VAR_DEF", 3)>>
           dec == start \o <<P!Expect(";"), P!Make("VAR_DEC", 2)>>
<1>1. P!Doing("declaration") /\ "declaration" \in NodeRules /\ P!Stay
  BY DEF P!ParseDeclaration, NodeRules
<1>2. P!Then(def) \/ P!Then(dec)
  BY DEF P!ParseDeclaration
<1>3. /\ \A s \in Shapes : Leads(def, s, Append(s, "node"))
      /\ \A s \in Shapes : Leads(dec, s, Append(s, "node"))
  BY DeclarationLeads
<1> HIDE DEF def, dec
<1> QED BY <1>1, <1>2, <1>3, NodeThenKeeps

LEMMA ParseExprStmtStep ==
    ASSUME Inv, P!ParseExprStmt, UNCHANGED status
    PROVE  Inv'
<1> DEFINE items == <<P!Call("expression"), P!Expect(";"), P!Make("EXPR_STMT", 1)>>
<1>1. P!Doing("expr_stmt") /\ "expr_stmt" \in NodeRules /\ P!Then(items) /\ P!Stay
  BY DEF P!ParseExprStmt, NodeRules
<1>2. \A s \in Shapes : Leads(items, s, Append(s, "node"))
  BY ExprStmtLeads
<1> HIDE DEF items
<1> QED BY <1>1, <1>2, NodeThenKeeps

LEMMA ParseReturnStep ==
    ASSUME Inv, P!ParseReturn, UNCHANGED status
    PROVE  Inv'
<1> DEFINE items == <<P!Expect("return"), P!Call("expression"), P!Make("RET", 1), P!Expect(";")>>
<1>1. P!Doing("return") /\ "return" \in NodeRules /\ P!Then(items) /\ P!Stay
  BY DEF P!ParseReturn, NodeRules
<1>2. \A s \in Shapes : Leads(items, s, Append(s, "node"))
  BY ReturnLeads
<1> HIDE DEF items
<1> QED BY <1>1, <1>2, NodeThenKeeps

LEMMA ParseIfStep ==
    ASSUME Inv, P!ParseIf, UNCHANGED status
    PROVE  Inv'
<1> DEFINE items == <<P!Expect("if"), P!Expect("("), P!Call("expression"), P!Expect(")"),
                      P!Call("statement"), P!Call("else")>>
<1>1. P!Doing("if") /\ "if" \in NodeRules /\ P!Then(items) /\ P!Stay
  BY DEF P!ParseIf, NodeRules
<1>2. \A s \in Shapes : Leads(items, s, Append(s, "node"))
  BY IfLeads
<1> HIDE DEF items
<1> QED BY <1>1, <1>2, NodeThenKeeps

LEMMA ParseWhileStep ==
    ASSUME Inv, P!ParseWhile, UNCHANGED status
    PROVE  Inv'
<1> DEFINE items == <<P!Expect("while"), P!Expect("("), P!Call("expression"), P!Expect(")"),
                      P!Call("statement"), P!Make("WHILE", 2)>>
<1>1. P!Doing("while") /\ "while" \in NodeRules /\ P!Then(items) /\ P!Stay
  BY DEF P!ParseWhile, NodeRules
<1>2. \A s \in Shapes : Leads(items, s, Append(s, "node"))
  BY WhileLeads
<1> HIDE DEF items
<1> QED BY <1>1, <1>2, NodeThenKeeps

LEMMA ParseForStep ==
    ASSUME Inv, P!ParseFor, UNCHANGED status
    PROVE  Inv'
<1> DEFINE items == <<P!Expect("for"), P!Expect("("), P!Call("for_init"),
                      P!Call("expression"), P!Expect(";"), P!Call("expression"), P!Expect(")"),
                      P!Call("statement"), P!Make("FOR", 4)>>
<1>1. P!Doing("for") /\ "for" \in NodeRules /\ P!Then(items) /\ P!Stay
  BY DEF P!ParseFor, NodeRules
<1>2. \A s \in Shapes : Leads(items, s, Append(s, "node"))
  BY ForLeads
<1> HIDE DEF items
<1> QED BY <1>1, <1>2, NodeThenKeeps

LEMMA ParseCompStmtStep ==
    ASSUME Inv, P!ParseCompStmt, UNCHANGED status
    PROVE  Inv'
<1> DEFINE items == <<P!Expect("{"), P!Loop("statements", 0)>>
<1>1. P!Doing("comp_stmt") /\ "comp_stmt" \in NodeRules /\ P!Then(items) /\ P!Stay
  BY DEF P!ParseCompStmt, NodeRules
<1>2. \A s \in Shapes : Leads(items, s, Append(s, "node"))
  BY CompStmtLeads
<1> HIDE DEF items
<1> QED BY <1>1, <1>2, NodeThenKeeps

LEMMA ParseEnumStep ==
    ASSUME Inv, P!ParseEnum, UNCHANGED status
    PROVE  Inv'
<1> DEFINE items == <<P!Expect("enum"), P!Take("IDENT"), P!Expect("{"), P!Loop("enums", 1)>>
<1>1. P!Doing("enum") /\ "enum" \in NodeRules /\ P!Then(items) /\ P!Stay
  BY DEF P!ParseEnum, NodeRules
<1>2. \A s \in Shapes : Leads(items, s, Append(s, "node"))
  BY EnumLeads
<1> HIDE DEF items
<1> QED BY <1>1, <1>2, NodeThenKeeps

LEMMA ParseForInitStep ==
    ASSUME Inv, P!ParseForInit, UNCHANGED status
    PROVE  Inv'
<1> DEFINE items == <<P!Call("expression"), P!Expect(";")>>
<1>1. /\ P!Doing("for_init") /\ "for_init" \in NodeRules
      /\ P!Decide(P!IsDeclaration, <<P!Call("declaration")>>, items)
  BY DEF P!ParseForInit, NodeRules
<1>2. \A s \in Shapes : Leads(items, s, Append(s, "node"))
  BY ParenthesesLeads
<1>3. \A s \in Shapes : Leads(<<P!Call("declaration")>>, s, Append(s, "node"))
  BY OneCall DEF NodeRules
<1> HIDE DEF items
<1> QED BY <1>1, <1>2, <1>3, Answers, NodeDecideKeeps

LEMMA ParseElseStep ==
    ASSUME Inv, P!ParseElse, UNCHANGED status
    PROVE  Inv'
<1> DEFINE long == <<P!Expect("else"), P!Call("statement"), P!Make("IF", 3)>>
           short == <<P!Make("IF", 2)>>
<1>1. P!Doing("else") /\ P!Stay /\ (P!Then(long) \/ P!Then(short))
  BY DEF P!ParseElse
<1>2. \A s, u \in Shapes : Effect(P!Item, s, u) =>
          \E base \in Shapes : s = Append(Append(base, "node"), "node") /\ u = Append(base, "node")
  <2> DEFINE item == P!Item
  <2>1. item.do = "else"
    BY <1>1, ItemEffect
  <2>2. "else" \notin NodeRules /\ "else" \notin LoopRules
    BY DEF NodeRules, LoopRules
  <2> HIDE DEF item
  <2>3. \A s, u \in Shapes : Effect(item, s, u) =>
            \E base \in Shapes : s = Append(Append(base, "node"), "node") /\ u = Append(base, "node")
    BY ONLY <2>1, <2>2 DEF Effect
  <2> QED BY <2>3 DEF item
<1>3. \A base \in Shapes : \A s : s = Append(Append(base, "node"), "node") =>
          Leads(long, s, Append(base, "node")) /\ Leads(short, s, Append(base, "node"))
  BY ElseLeads
<1> HIDE DEF long, short
<1>4. Unfolds(P!Item, long) /\ Unfolds(P!Item, short)
  <2> SUFFICES ASSUME NEW s \in Shapes, NEW u \in Shapes, Effect(P!Item, s, u)
               PROVE  Leads(long, s, u) /\ Leads(short, s, u)
    BY DEF Unfolds
  <2>1. PICK base \in Shapes :
            s = Append(Append(base, "node"), "node") /\ u = Append(base, "node")
    BY <1>2
  <2> QED BY <1>3, <2>1
<1> QED BY <1>1, <1>4, ThenKeeps

LEMMA ParseStatementsStep ==
    ASSUME Inv, P!ParseStatements, UNCHANGED status
    PROVE  Inv'
<1> DEFINE n == P!Item.count
           more == <<P!Call("statement"), P!Loop("statements", n + 1)>>
           done == <<P!Expect("}"), P!Make("COMP_STMT", n)>>
<1>1. P!Doing("statements") /\ P!Stay /\ (P!Then(more) \/ P!Then(done))
  BY DEF P!ParseStatements
<1>2. /\ P!Item.do = "statements" /\ "statements" \in LoopRules
      /\ LoopMakes("statements") = "COMP_STMT"
  BY <1>1, ItemEffect DEF LoopRules, LoopMakes
<1>3. \A s, base \in Shapes : Topped(s, base, "COMP_STMT", n) =>
          Leads(more, s, Append(base, "node")) /\ Leads(done, s, Append(base, "node"))
  BY StatementsLead
<1> HIDE DEF more, done
<1>4. Unfolds(P!Item, more) /\ Unfolds(P!Item, done)
  BY <1>2, <1>3, LoopRule
<1> QED BY <1>1, <1>4, ThenKeeps

LEMMA EnumsStep ==
    ASSUME Inv, P!ParseEnums \/ P!ParseAfterEnum, UNCHANGED status
    PROVE  Inv'
<1> DEFINE n == P!Item.count
           more == <<P!Take("IDENT"), P!Loop("after_enum", n + 1)>>
           next == <<P!Expect(","), P!Loop("enums", n)>>
           done == <<P!Expect("}"), P!Expect(";"), P!Make("ENUM", n)>>
<1>1. PICK rule \in {"enums", "after_enum"} : P!Doing(rule)
  BY DEF P!ParseEnums, P!ParseAfterEnum
<1>2. P!Item.do = rule /\ rule \in LoopRules /\ LoopMakes(rule) = "ENUM"
  BY <1>1, ItemEffect DEF LoopRules, LoopMakes
<1>3. P!Stay /\ (P!Then(done) \/ P!Then(more) \/ P!Then(next))
  BY DEF P!ParseEnums, P!ParseAfterEnum, P!EnumDone
<1>4. \A s, base \in Shapes : Topped(s, base, "ENUM", n) =>
          /\ Leads(done, s, Append(base, "node"))
          /\ Leads(more, s, Append(base, "node"))
          /\ Leads(next, s, Append(base, "node"))
  BY EnumsLead
<1> HIDE DEF done, more, next
<1>5. Unfolds(P!Item, done) /\ Unfolds(P!Item, more) /\ Unfolds(P!Item, next)
  BY <1>2, <1>4, LoopRule
<1> HIDE DEF n
<1> QED BY <1>1, <1>3, <1>5, ThenKeeps

(* Functions.                                                              *)
LEMMA ParseFuncDefStep ==
    ASSUME Inv, P!ParseFuncDef, UNCHANGED status
    PROVE  Inv'
<1> DEFINE items == <<P!Take("TYPE"), P!Take("IDENT"), P!Expect("("), P!Loop("params", 2)>>
<1>1. P!Doing("func_def") /\ P!Then(items) /\ P!Stay
  BY DEF P!ParseFuncDef
<1>2. \A s, u \in Shapes : Effect(P!Item, s, u) => s = <<>> /\ u = <<>>
  BY <1>1, ItemEffect DEF Effect, NodeRules, LoopRules
<1>3. Unfolds(P!Item, items)
  BY <1>2, FuncDefLeads DEF Unfolds
<1> HIDE DEF items
<1> QED BY <1>1, <1>3, ThenKeeps

LEMMA ParamsStep ==
    ASSUME Inv, P!ParseFuncParams \/ P!ParseAfterParam, UNCHANGED status
    PROVE  Inv'
<1> DEFINE n == P!Item.count
           more == <<P!Take("TYPE"), P!Take("IDENT"), P!Loop("after_param", n + 2)>>
           next == <<P!Expect(","), P!Loop("params", n)>>
           rest == <<P!Expect(")"), P!Call("comp_stmt"), P!Make("FUNC_DEF", n + 1),
                     P!Call("push")>>
<1>1. PICK rule \in {"params", "after_param"} : P!Doing(rule)
  BY DEF P!ParseFuncParams, P!ParseAfterParam
<1>2. P!Item.do = rule /\ verdict = "parsing"
  BY <1>1, ItemEffect
<1>3. P!Crash \/ (P!Stay /\ (P!Then(rest) \/ P!Then(more) \/ P!Then(next)))
  BY DEF P!ParseFuncParams, P!ParseAfterParam, P!FuncRest
<1>4. \A s, u \in Shapes : Effect(P!Item, s, u) => n >= 2 /\ u = <<>> /\ Topped(s, u, "ENUM", n)
  BY <1>2 DEF Effect, NodeRules, LoopRules
<1>5. \A s, u \in Shapes : n >= 2 /\ u = <<>> /\ Topped(s, u, "ENUM", n) =>
          Leads(rest, s, u) /\ Leads(more, s, u) /\ Leads(next, s, u)
  BY ParamsLead
<1> HIDE DEF rest, more, next, n
<1>6. Unfolds(P!Item, rest) /\ Unfolds(P!Item, more) /\ Unfolds(P!Item, next)
  BY <1>4, <1>5 DEF Unfolds
<1>7. CASE P!Crash
  BY <1>2, <1>7, CrashKeeps
<1> QED BY <1>1, <1>3, <1>6, <1>7, ThenKeeps

LEMMA ParseProgStep ==
    ASSUME Inv, P!ParseProg, UNCHANGED status
    PROVE  Inv'
<1> DEFINE items == <<P!Call("func_def"), P!Call("prog")>>
<1>1. P!Doing("prog") /\ P!Then(items) /\ P!Stay
  BY DEF P!ParseProg
<1>2. \A s, u \in Shapes : Effect(P!Item, s, u) => s = <<>> /\ u = <<>>
  BY <1>1, ItemEffect DEF Effect, NodeRules, LoopRules
<1>3. Unfolds(P!Item, items)
  BY <1>2, ProgLeads DEF Unfolds
<1> HIDE DEF items
<1> QED BY <1>1, <1>3, ThenKeeps

LEMMA PushFuncStep ==
    ASSUME Inv, P!PushFunc, UNCHANGED status
    PROVE  Inv'
<1>1. /\ P!Doing("push") /\ verdict = "parsing"
      /\ prog' = [prog EXCEPT !.funcs = Append(@, P!Last(vals))]
      /\ vals' = P!Front(vals) /\ todo' = Tail(todo)
      /\ UNCHANGED <<tokens, current, verdict>>
  BY DEF P!PushFunc, P!Doing
<1>2. PICK s \in Shapes, u \in Shapes :
          HasShape(vals, s) /\ Kept(s) /\ Effect(P!Item, s, u) /\ Leads(Tail(todo), u, <<>>)
  BY <1>1, ItemEffect
<1>3. s = Append(u, "func") /\ u = <<>>
  BY <1>1, <1>2, ItemEffect DEF Effect, NodeRules, LoopRules
<1>4. /\ Len(u) \in Nat /\ Len(s) = Len(u) + 1 /\ s[Len(u) + 1] = "func"
      /\ \A k \in 1 .. Len(u) : s[k] = u[k]
  BY <1>3, Pushed DEF Kinds
<1>5. /\ vals \in Seq(Nat) /\ Len(vals) = Len(u) + 1
      /\ \A k \in 1 .. Len(s) : Fits(s[k], vals[k])
  BY <1>2, <1>4 DEF HasShape
<1>6. /\ vals' \in Seq(Nat) /\ Len(vals') = Len(u)
      /\ \A k \in 1 .. Len(u) : vals'[k] = vals[k]
  BY <1>1, <1>4, <1>5 DEF P!Front
<1> DEFINE f == vals[Len(u) + 1]
           funcs == prog.funcs
<1>7. f \in NodeIds("FUNC_DEF")
  <2>1. Len(u) + 1 \in 1 .. Len(s)
    BY <1>4
  <2>2. Fits("func", f)
    BY <1>4, <1>5, <2>1
  <2> QED BY <2>2 DEF Fits
<1>8. prog' = [nodes |-> prog.nodes, funcs |-> Append(funcs, f)]
  BY <1>1, <1>5 DEF Inv, P!Last
<1>9. prog'.nodes = prog.nodes /\ prog'.funcs = Append(funcs, f)
  BY <1>8
<1>10. Append(funcs, f) \in Seq(NodeIds("FUNC_DEF"))
  <2>1. funcs \in Seq(NodeIds("FUNC_DEF"))
    BY DEF Inv, HeapOK, NodeIds
  <2> HIDE DEF f, funcs
  <2> QED BY <1>7, <2>1
<1> HIDE DEF f, funcs
<1>11. HeapOK(prog')
  BY <1>9, <1>10 DEF Inv, HeapOK, NodeIds
<1>12. HasShape(vals, u)'
  <2>1. ASSUME NEW k \in 1 .. Len(u) PROVE Fits(u[k], vals'[k])
    <3>1. k \in 1 .. Len(s)
      BY <1>4
    <3> QED BY <1>4, <1>5, <1>6, <3>1
  <2>2. \A kind, x : Fits(kind, x) => Fits(kind, x)'
    BY <1>1, <1>9 DEF Fits, Kids, NodeIds
  <2>3. ASSUME NEW k \in 1 .. Len(u) PROVE Fits(u[k], vals[k])'
    <3>1. PICK y : y = vals'[k]
      OBVIOUS
    <3>2. Fits(u[k], y)
      BY <2>1, <3>1
    <3>3. Fits(u[k], y)'
      BY <2>2, <3>2
    <3> QED BY <3>1, <3>3 DEF Fits
  <2> QED BY <1>6, <2>3 DEF HasShape
<1>13. Leads(todo', u, <<>>)
  BY <1>1, <1>2
<1>14. prog' = [nodes |-> prog'.nodes, funcs |-> prog'.funcs] /\ IsList(prog'.nodes)
  BY <1>8, <1>9 DEF Inv
<1>15. /\ f \in Elements(prog'.funcs)
       /\ Elements(prog.funcs) \subseteq Elements(prog'.funcs)
  <2>1. IsList(funcs)
    BY DEF Inv, HeapOK, IsList, funcs
  <2>2. /\ DOMAIN funcs = 1 .. Len(funcs) /\ Len(funcs) \in Nat
        /\ DOMAIN Append(funcs, f) = 1 .. (Len(funcs) + 1)
        /\ Append(funcs, f)[Len(funcs) + 1] = f
        /\ \A k \in 1 .. Len(funcs) : Append(funcs, f)[k] = funcs[k]
    BY <2>1, ListFacts, AppendFacts
  <2>3. PICK now : now = Append(funcs, f)
    OBVIOUS
  <2>4. /\ DOMAIN now = 1 .. (Len(funcs) + 1) /\ now[Len(funcs) + 1] = f
        /\ \A k \in 1 .. Len(funcs) : now[k] = funcs[k]
    BY <2>2, <2>3
  <2>5. Len(funcs) + 1 \in DOMAIN now /\ 1 .. Len(funcs) \subseteq DOMAIN now
    BY <2>2, <2>4
  <2>6. f \in Elements(now) /\ Elements(funcs) \subseteq Elements(now)
    BY <2>2, <2>4, <2>5 DEF Elements
  <2> QED BY <1>9, <2>3, <2>6 DEF funcs
<1>16. ASSUME NEW n, Held(vals, s, n) PROVE Held(vals', u, n) \/ Used(prog', n)
  <2>1. PICK k \in 1 .. Len(s) : s[k] # "token" /\ vals[k] = n
    BY <1>16 DEF Held
  <2>2. CASE k = Len(u) + 1
    BY <1>15, <2>1, <2>2 DEF Used, f
  <2>3. CASE k \in 1 .. Len(u)
    BY <1>4, <1>6, <2>1, <2>3 DEF Held
  <2> QED BY <1>4, <2>2, <2>3
<1>17. Kept(u)'
  <2>1. \A n : Used(prog, n) => Used(prog', n)
    BY <1>9, <1>15 DEF Used
  <2>2. Apart(prog', vals', u)
    BY <1>3 DEF Apart
  <2> QED BY <1>2, <1>9, <1>16, <2>1, <2>2 DEF Kept
<1>18. NoneShared(prog')
  <2>1. \A i \in DOMAIN funcs : funcs[i] < f
    <3>1. Len(u) + 1 \in 1 .. Len(s) /\ s[Len(u) + 1] # "token"
      BY <1>4
    <3>2. Unused(prog, f)
      BY <1>2, <3>1 DEF Kept, Apart, f
    <3> QED BY <3>2 DEF Unused, funcs
  <2>2. PICK now : now = Append(funcs, f)
    OBVIOUS
  <2>3. IsList(funcs)
    BY DEF Inv, HeapOK, IsList, funcs
  <2>4. /\ DOMAIN funcs = 1 .. Len(funcs) /\ Len(funcs) \in Nat
        /\ DOMAIN now = 1 .. (Len(funcs) + 1) /\ now[Len(funcs) + 1] = f
        /\ \A k \in 1 .. Len(funcs) : now[k] = funcs[k]
    BY <2>2, <2>3, ListFacts, AppendFacts
  <2>5. Rising(funcs)
    BY DEF Inv, NoneShared, funcs
  <2>6. ASSUME NEW i \in DOMAIN now, NEW j \in DOMAIN now, i < j PROVE now[i] < now[j]
    <3>1. i \in 1 .. Len(funcs) /\ (j \in 1 .. Len(funcs) \/ j = Len(funcs) + 1)
      BY <2>4, <2>6
    <3> QED BY <2>1, <2>4, <2>5, <2>6, <3>1 DEF Rising
  <2>7. Rising(now)
    BY <2>6 DEF Rising
  <2> QED BY <1>9, <2>2, <2>7 DEF Inv, NoneShared
<1> QED BY <1>1, <1>11, <1>12, <1>13, <1>14, <1>17, <1>18 DEF Inv

(* When parse_prog returns nothing is left.                                *)
LEMMA ParseDoneStep ==
    ASSUME Inv, P!ParseDone, UNCHANGED status
    PROVE  Inv'
<1>1. /\ P!Doing("prog") /\ verdict = "parsing" /\ verdict' = "done"
      /\ UNCHANGED <<tokens, current, todo, vals, prog>>
  BY DEF P!ParseDone, P!Doing
<1>2. PICK s \in Shapes, u \in Shapes :
          HasShape(vals, s) /\ Effect(P!Item, s, u) /\ Leads(Tail(todo), u, <<>>)
  BY <1>1, ItemEffect
<1>3. s = <<>>
  BY <1>1, <1>2, ItemEffect DEF Effect, NodeRules, LoopRules
<1>4. vals = <<>>
  BY <1>2, <1>3 DEF HasShape
<1>5. PICK t \in Shapes : HasShape(vals, t) /\ Kept(t) /\ Leads(todo, t, <<>>)
  BY DEF Inv
<1>6. HasShape(vals, t)' /\ Kept(t)' /\ Leads(todo', t, <<>>)
  BY <1>1, <1>5 DEF HasShape, Kept, Fits, Kids, NodeIds
<1> QED BY <1>1, <1>4, <1>6 DEF Inv

(* Whatever the parser does next.                                          *)
LEMMA ParseKeeps ==
    ASSUME Inv, P!Parse, UNCHANGED status
    PROVE  Inv'
<1>1. CASE P!ExpectToken \/ P!TakeToken \/ P!MakeNode
  BY <1>1, ExpectTokenStep, TakeTokenStep, MakeNodeStep
<1>2. CASE P!ExpressionStep
  <2>1. CASE P!ParseExpression \/ P!ParseVarAsgn \/ P!ParseOperators \/ P!ParseUnary
    BY <2>1, ParseExpressionStep, ParseVarAsgnStep, ParseOperatorsStep, ParseUnaryStep
  <2>2. CASE P!ParseIntConst \/ P!ParseIdent \/ P!ParseParentheses \/ P!ParseEmpty
    BY <2>2, ParseIntConstStep, ParseIdentStep, ParseParenthesesStep, ParseEmptyStep
  <2>3. CASE P!ParseFuncCall \/ P!ParseArgs \/ P!ParseAfterArg
    BY <2>3, ParseFuncCallStep, ArgsStep
  <2> QED BY <1>2, <2>1, <2>2, <2>3 DEF P!ExpressionStep
<1>3. CASE P!StatementStep
  <2>1. CASE P!ParseStatement \/ P!ParseDeclaration \/ P!ParseExprStmt \/ P!ParseReturn
    BY <2>1, ParseStatementStep, ParseDeclarationStep, ParseExprStmtStep, ParseReturnStep
  <2>2. CASE P!ParseIf \/ P!ParseElse \/ P!ParseWhile \/ P!ParseFor \/ P!ParseForInit
    BY <2>2, ParseIfStep, ParseElseStep, ParseWhileStep, ParseForStep, ParseForInitStep
  <2>3. CASE P!ParseCompStmt \/ P!ParseStatements \/ P!ParseEnum \/ P!ParseEnums
             \/ P!ParseAfterEnum
    BY <2>3, ParseCompStmtStep, ParseStatementsStep, ParseEnumStep, EnumsStep
  <2> QED BY <1>3, <2>1, <2>2, <2>3 DEF P!StatementStep
<1>4. CASE P!ParseFuncDef \/ P!ParseFuncParams \/ P!ParseAfterParam
  BY <1>4, ParseFuncDefStep, ParamsStep
<1>5. CASE P!ParseProg \/ P!PushFunc \/ P!ParseDone
  BY <1>5, ParseProgStep, PushFuncStep, ParseDoneStep
<1> QED BY <1>1, <1>2, <1>3, <1>4, <1>5 DEF P!Parse

-----------------------------------------------------------------------------
(* The rest of the front end.                                              *)

(* The scanner runs before the parser, and only adds tokens.               *)
LEMMA LexAdds ==
    ASSUME Lex!Tokenize
    PROVE  status = "running" /\ (tokens' = tokens \/ \E t : tokens' = Append(tokens, t))
<1>1. CASE Lex!LexEnd \/ Lex!LexNoMemory \/ Lex!LexNewline \/ Lex!LexBlank \/ Lex!LexUnexpected
  BY <1>1 DEF Lex!LexEnd, Lex!LexNoMemory, Lex!LexNewline, Lex!LexBlank, Lex!LexUnexpected,
              Lex!Reads
<1>2. CASE Lex!LexPunctuation \/ Lex!LexPair \/ Lex!LexShort \/ Lex!LexNumber \/ Lex!LexWord
  BY <1>2 DEF Lex!LexPunctuation, Lex!LexPair, Lex!LexShort, Lex!LexNumber, Lex!LexWord,
              Lex!Reads, Lex!Push
<1>3. CASE Lex!LexComment
  BY <1>3 DEF Lex!LexComment, Lex!Reads
<1> QED BY <1>1, <1>2, <1>3 DEF Lex!Tokenize

LEMMA TokenizeKeeps ==
    ASSUME Inv, Tokenize
    PROVE  Inv'
<1>1. /\ status = "running" /\ UNCHANGED <<current, todo, vals, prog, verdict>>
      /\ tokens' = tokens \/ \E t : tokens' = Append(tokens, t)
  BY LexAdds DEF Tokenize, parseVars
<1>2. verdict = "idle"
  BY <1>1 DEF Inv
<1>3. /\ IsList(tokens') /\ Len(tokens) \in Nat /\ Len(tokens') \in Nat
      /\ Len(tokens') >= Len(tokens) /\ DOMAIN tokens \subseteq DOMAIN tokens'
  <2>1. IsList(tokens)
    BY DEF Inv
  <2>2. CASE tokens' = tokens
    <3>1. Len(tokens) \in Nat
      BY <2>1, ListFacts
    <3> QED BY <2>1, <2>2, <3>1
  <2>3. CASE \E t : tokens' = Append(tokens, t)
    <3>1. PICK t : tokens' = Append(tokens, t)
      BY <2>3
    <3>2. Len(tokens) \in Nat /\ DOMAIN tokens = 1 .. Len(tokens)
      BY <2>1, ListFacts
    <3>3. /\ IsList(tokens') /\ Len(tokens') = Len(tokens) + 1
          /\ DOMAIN tokens' = 1 .. (Len(tokens) + 1)
      BY <2>1, <3>1, AppendFacts
    <3> QED BY <3>2, <3>3
  <2> QED BY <1>1, <2>2, <2>3
<1>4. PICK s \in Shapes : HasShape(vals, s) /\ Kept(s) /\ Leads(todo, s, <<>>)
  BY DEF Inv
<1>5. ASSUME NEW kind, NEW x, Fits(kind, x)
      PROVE  Fits(kind, x)'
  BY <1>1, <1>3, <1>5 DEF Fits, Kids, NodeIds
<1>6. HasShape(vals, s)' /\ Kept(s)'
  BY <1>1, <1>4, <1>5 DEF HasShape, Kept
<1>7. Leads(todo', s, <<>>)
  BY <1>1, <1>4
<1>8. current' \in 0 .. Len(tokens')
  BY <1>1, <1>3 DEF Inv
<1>9. HeapOK(prog') /\ NoneShared(prog') /\ prog' = prog
  BY <1>1 DEF Inv
<1> QED BY <1>1, <1>2, <1>3, <1>6, <1>7, <1>8, <1>9 DEF Inv

LEMMA InitInv == Init => Inv
<1> SUFFICES ASSUME Init PROVE Inv
  OBVIOUS
<1>1. /\ tokens = <<>> /\ current = 0 /\ vals = <<>> /\ verdict = "idle"
      /\ todo = <<P!Call("prog")>> /\ prog = [nodes |-> <<>>, funcs |-> <<>>]
  BY DEF Init, Lex!Start
<1>2. IsList(<<>>) /\ Len(<<>>) = 0 /\ <<>> \in Shapes
  <2>1. <<>> \in Seq({})
    OBVIOUS
  <2> QED BY <2>1 DEF IsList, Shapes
<1>3. Leads(<<P!Call("prog")>>, <<>>, <<>>)
  <2>1. Effect(P!Call("prog"), <<>>, <<>>)
    BY DEF Effect, P!Call
  <2> QED BY <1>2, <2>1, Leads1
<1>4. HasShape(<<>>, <<>>)
  BY DEF HasShape
<1>5. /\ HeapOK(prog) /\ NoneShared(prog) /\ prog.nodes = <<>> /\ prog.funcs = <<>>
      /\ Kept(<<>>)
  BY <1>1 DEF HeapOK, NoneShared, Rising, IsVector, Kept, Apart
<1> QED BY <1>1, <1>2, <1>3, <1>4, <1>5 DEF Inv

(* In every state of the front end.                                        *)
THEOREM InvHolds == Spec => []Inv
<1>1. Inv /\ [Next]_vars => Inv'
  <2> SUFFICES ASSUME Inv, [Next]_vars PROVE Inv'
    OBVIOUS
  <2>1. CASE Tokenize
    BY <2>1, TokenizeKeeps
  <2>2. CASE StartParse
    <3>1. /\ status = "done" /\ verdict' = "parsing"
          /\ UNCHANGED <<tokens, status, current, todo, vals, prog>>
      BY <2>2 DEF StartParse, lexVars
    <3> QED BY <3>1 DEF Inv, HasShape, Kept, Fits, Kids, NodeIds
  <2>3. CASE Parse
    BY <2>3, ParseKeeps DEF Parse
  <2>4. CASE UNCHANGED vars
    <3>1. UNCHANGED <<tokens, status, current, todo, vals, prog, verdict>>
      BY <2>4 DEF vars, lexVars, parseVars
    <3> QED BY <3>1 DEF Inv, HasShape, Kept, Fits, Kids, NodeIds
  <2> QED BY <2>1, <2>2, <2>3, <2>4 DEF Next, Step, Stopped
<1> QED BY InitInv, <1>1, PTL DEF Spec

-----------------------------------------------------------------------------
(* The tree of an accepted file is one the semantic checker can walk (no   *)
(* null child, no child made after its parent, only operators that have a  *)
(* case), and the parser has used every result it computed: whatever the   *)
(* file, however much of it is missing, and whatever the scanner made of   *)
(* it.                                                                     *)
THEOREM TreesOK == Spec => []TreeOK
<1>1. Inv => TreeOK
  <2> SUFFICES ASSUME Inv, Accepted PROVE ProgramOK(prog) /\ vals = <<>>
    BY DEF TreeOK
  <2>1. HeapOK(prog) /\ NoneShared(prog) /\ vals = <<>>
    BY DEF Inv, Accepted
  <2>2. PICK s \in Shapes : HasShape(vals, s) /\ Kept(s)
    BY DEF Inv
  <2>3. Len(s) = 0
    BY <2>1, <2>2 DEF HasShape
  <2>4. \A n \in DOMAIN prog.nodes : Used(prog, n)
    BY <2>2, <2>3 DEF Kept, Held
  <2>5. NoneLoose(prog)
    BY <2>4 DEF Used, NoneLoose
  <2> QED BY <2>1, <2>5 DEF ProgramOK
<1> QED BY InvHolds, <1>1, PTL

(* The parser reads no token but those there are, keeps only the positions *)
(* of tokens and the ids of nodes, and has computed every part of a node   *)
(* when it makes it: the stack of make_ast_* is never too short.           *)
THEOREM NeverShort == Spec => []P!TypeOK
<1>1. Inv => P!TypeOK
  <2> SUFFICES ASSUME Inv PROVE P!TypeOK
    OBVIOUS
  <2>1. PICK s \in Shapes : HasShape(vals, s) /\ Leads(todo, s, <<>>)
    BY DEF Inv
  <2>2. /\ Len(tokens) \in Nat /\ DOMAIN tokens = 1 .. Len(tokens)
        /\ Len(prog.nodes) \in Nat /\ DOMAIN prog.nodes = 1 .. Len(prog.nodes)
    BY ListFacts DEF Inv
  <2>3. ASSUME NEW k \in DOMAIN vals
        PROVE  vals[k] \in 1 .. (Len(tokens) + Len(prog.nodes))
    <3>1. s[k] \in Kinds /\ Fits(s[k], vals[k])
      <4>1. k \in 1 .. Len(s)
        BY <2>1 DEF HasShape
      <4> QED BY <2>1, <4>1 DEF HasShape, Shapes
    <3>2. vals[k] \in DOMAIN tokens \/ vals[k] \in DOMAIN prog.nodes
      BY <3>1 DEF Kinds, Fits, Kids, NodeIds
    <3> QED BY <2>2, <3>2
  <2>4. \A k \in DOMAIN prog.funcs : prog.funcs[k] \in DOMAIN prog.nodes
    BY DEF Inv, HeapOK
  <2>5. ASSUME todo # <<>>, P!Item.do = "make"
        PROVE  P!Item.count <= Len(vals)
    <3>1. PICK u \in Shapes : Effect(P!Item, s, u)
      BY <2>1, <2>5, LeadsFrom DEF P!Item
    <3>2. PICK base \in Shapes : Topped(s, base, P!Item.type, P!Item.count)
      BY <2>5, <3>1 DEF Effect, NodeRules, LoopRules
    <3>3. MakeOK(P!Item)
      BY <2>5, <3>1 DEF Effect, NodeRules, LoopRules
    <3>4. P!Item.count \in Nat
      BY <3>2, <3>3 DEF Topped, Counts, MakeOK, MadeTypes
    <3>5. Len(base) \in Nat /\ Len(vals) = Len(base) + P!Item.count
      BY <2>1, <3>2 DEF HasShape, Topped, Shapes
    <3> QED BY <3>4, <3>5
  <2> QED BY <2>3, <2>4, <2>5 DEF Inv, P!TypeOK
<1> QED BY InvHolds, <1>1, PTL

-----------------------------------------------------------------------------
(* The scanner of the front end is the scanner of Lexer, so what is proved *)
(* of that one holds here.                                                 *)
Alone == INSTANCE LexerProofs WITH Texts <- {f.text : f \in Files}

LEMMA SameLetters ==
    /\ Alone!NUL = NUL /\ Alone!Newline = Newline /\ Alone!Blanks = Blanks
    /\ Alone!Punctuation = Punctuation /\ Alone!LookAhead = LookAhead
    /\ \A c : Alone!IsDigit(c) <=> IsDigit(c)
  BY DEF Alone!NUL, NUL, Alone!Newline, Newline, Alone!Blanks, Blanks, Alone!Punctuation,
     Punctuation, Alone!LookAhead, LookAhead, Alone!IsDigit, IsDigit, Alone!Digits, Digits

(* LexerAssumption, of the constants Lexer gets here.                      *)
LEMMA AloneAssumption ==
    /\ {f.text : f \in Files} \subseteq Seq(STRING)
    /\ Letters \cap (Alone!Punctuation \cup Alone!LookAhead \cup Alone!Blanks
                     \cup {Alone!Newline, Alone!NUL}) = {}
    /\ \A c \in Letters : ~Alone!IsDigit(c)
    /\ IntLimit \in Nat /\ IntLimit > 0
    /\ Memory \in Nat
    /\ JunkTypes \subseteq STRING /\ JunkTypes # {}
  BY FrontEndAssumption, SameLetters

LEMMA SameSum == \A s : Lex!Sum(s) = Alone!Sum(s)
  BY DEF Lex!Sum, Alone!Sum, Lex!FoldLeft, Alone!FoldLeft, Lex!MapThenFoldSet,
     Alone!MapThenFoldSet, Lex!Max, Alone!Max, Lex!AddDigit, Alone!AddDigit,
     Lex!WrapInt, Alone!WrapInt, Lex!DigitValue, Alone!DigitValue, Lex!Digits,
     Alone!Digits

LEMMA SameScanner == Lex!Tokenize => Alone!Tokenize
<1>1. Lex!LexEnd => Alone!LexEnd
  BY DEF Lex!LexEnd, Alone!LexEnd, Lex!Char, Alone!Char, Lex!NUL, Alone!NUL, Lex!After,
     Alone!After
<1>2. Lex!LexNoMemory => Alone!LexNoMemory
  BY DEF Lex!LexNoMemory, Alone!LexNoMemory, Lex!Char, Alone!Char, Lex!NUL, Alone!NUL
<1>3. Lex!LexPunctuation => Alone!LexPunctuation
  BY DEF Lex!LexPunctuation, Alone!LexPunctuation, Lex!Reads, Alone!Reads, Lex!Char,
     Alone!Char, Lex!NUL, Alone!NUL, Lex!Push, Alone!Push, Lex!Token, Alone!Token,
     Lex!Fixed, Alone!Fixed, Lex!Punctuation, Alone!Punctuation
<1>4. Lex!LexPair => Alone!LexPair
  BY DEF Lex!LexPair, Alone!LexPair, Lex!Reads, Alone!Reads, Lex!Char, Alone!Char,
     Lex!NUL, Alone!NUL, Lex!Push, Alone!Push, Lex!Token, Alone!Token, Lex!Fixed,
     Alone!Fixed, Lex!Pairs, Alone!Pairs, Lex!Pair, Alone!Pair
<1>5. Lex!LexShort => Alone!LexShort
  BY DEF Lex!LexShort, Alone!LexShort, Lex!Reads, Alone!Reads, Lex!Char, Alone!Char,
     Lex!NUL, Alone!NUL, Lex!Push, Alone!Push, Lex!Token, Alone!Token, Lex!Fixed,
     Alone!Fixed, Lex!Pairs, Alone!Pairs, Lex!Pair, Alone!Pair, Lex!LookAhead,
     Alone!LookAhead, Lex!Peeked, Alone!Peeked, Lex!After, Alone!After
<1>6. Lex!LexComment => Alone!LexComment
  BY DEF Lex!LexComment, Alone!LexComment, Lex!Reads, Alone!Reads, Lex!Char, Alone!Char,
     Lex!NUL, Alone!NUL, Lex!Token, Alone!Token, Lex!Unset, Alone!Unset, Lex!RunEnd,
     Alone!RunEnd, Lex!After, Alone!After, Lex!Newline, Alone!Newline
<1>7. Lex!LexNewline => Alone!LexNewline
  BY DEF Lex!LexNewline, Alone!LexNewline, Lex!Reads, Alone!Reads, Lex!Char, Alone!Char,
     Lex!NUL, Alone!NUL, Lex!Newline, Alone!Newline
<1>8. Lex!LexBlank => Alone!LexBlank
  BY DEF Lex!LexBlank, Alone!LexBlank, Lex!Reads, Alone!Reads, Lex!Char, Alone!Char,
     Lex!NUL, Alone!NUL, Lex!Blanks, Alone!Blanks
<1>9. Lex!LexNumber => Alone!LexNumber
  BY SameSum DEF Lex!LexNumber, Alone!LexNumber, Lex!Reads, Alone!Reads, Lex!Char,
     Alone!Char, Lex!NUL, Alone!NUL, Lex!Push, Alone!Push, Lex!Token, Alone!Token,
     Lex!Fixed, Alone!Fixed, Lex!IsDigit, Alone!IsDigit, Lex!Digits, Alone!Digits,
     Lex!RunEnd, Alone!RunEnd, Lex!Printed, Alone!Printed, Lex!Slice, Alone!Slice,
     Lex!AfterRun, Alone!AfterRun, Lex!After, Alone!After
<1>10. Lex!LexWord => Alone!LexWord
  BY DEF Lex!LexWord, Alone!LexWord, Lex!Reads, Alone!Reads, Lex!Char, Alone!Char,
     Lex!NUL, Alone!NUL, Lex!Push, Alone!Push, Lex!Token, Alone!Token, Lex!Fixed,
     Alone!Fixed, Lex!IsIdentStart, Alone!IsIdentStart, Lex!IsIdentChar,
     Alone!IsIdentChar, Lex!IsDigit, Alone!IsDigit, Lex!Digits, Alone!Digits,
     Lex!RunEnd, Alone!RunEnd, Lex!Slice, Alone!Slice, Lex!AfterRun, Alone!AfterRun,
     Lex!After, Alone!After, Lex!WordType, Alone!WordType, Lex!SpelledInt,
     Alone!SpelledInt, Lex!SpelledVoid, Alone!SpelledVoid, Lex!Keywords, Alone!Keywords,
     Lex!Spelled, Alone!Spelled
<1>11. Lex!LexUnexpected => Alone!LexUnexpected
  BY DEF Lex!LexUnexpected, Alone!LexUnexpected, Lex!Reads, Alone!Reads, Lex!Char,
     Alone!Char, Lex!NUL, Alone!NUL, Lex!Punctuation, Alone!Punctuation, Lex!LookAhead,
     Alone!LookAhead, Lex!Blanks, Alone!Blanks, Lex!Newline, Alone!Newline, Lex!IsDigit,
     Alone!IsDigit, Lex!Digits, Alone!Digits, Lex!IsIdentStart, Alone!IsIdentStart
<1> QED BY <1>1, <1>2, <1>3, <1>4, <1>5, <1>6, <1>7, <1>8, <1>9, <1>10, <1>11
           DEF Lex!Tokenize, Alone!Tokenize

(* The parser changes no token.                                            *)
LEMMA DecideTokens ==
    ASSUME NEW answer \in {"yes", "no", "null"}, NEW items, NEW others,
           P!Decide(answer, items, others)
    PROVE  tokens' = tokens
  BY DEF P!Decide, P!Then, P!Crash, P!Fail

LEMMA ParseTokens ==
    ASSUME P!Parse
    PROVE  tokens' = tokens
<1>1. CASE P!ExpectToken \/ P!TakeToken \/ P!MakeNode
  BY <1>1 DEF P!ExpectToken, P!TakeToken, P!MakeNode, P!Then, P!Crash, P!Fail
<1>2. CASE P!ExpressionStep
  <2>1. CASE P!ParseExpression \/ P!ParseVarAsgn \/ P!ParseIdent
    BY <2>1, Answers, DecideTokens DEF P!ParseExpression, P!ParseVarAsgn, P!ParseIdent, P!Then
  <2>2. CASE P!ParseOperators \/ P!ParseUnary \/ P!ParseIntConst \/ P!ParseParentheses
             \/ P!ParseEmpty \/ P!ParseFuncCall \/ P!ParseArgs \/ P!ParseAfterArg
    BY <2>2 DEF P!ParseOperators, P!ParseUnary, P!ParseIntConst, P!ParseParentheses,
       P!ParseEmpty, P!ParseFuncCall, P!ParseArgs, P!ParseAfterArg, P!Then, P!Crash, P!Fail
  <2> QED BY <1>2, <2>1, <2>2 DEF P!ExpressionStep
<1>3. CASE P!StatementStep
  <2>1. CASE P!ParseStatement \/ P!ParseForInit
    BY <2>1, Answers, DecideTokens DEF P!ParseStatement, P!ParseForInit, P!Then, P!Crash, P!Fail
  <2>2. CASE ~(P!ParseStatement \/ P!ParseForInit)
    BY <1>3, <2>2 DEF P!StatementStep, P!ParseDeclaration, P!ParseExprStmt, P!ParseReturn,
       P!ParseIf, P!ParseElse, P!ParseWhile, P!ParseFor, P!ParseCompStmt, P!ParseStatements,
       P!ParseEnum, P!ParseEnums, P!ParseAfterEnum, P!Then
  <2> QED BY <2>1, <2>2
<1>4. CASE P!ParseFuncDef \/ P!ParseFuncParams \/ P!ParseAfterParam
  BY <1>4 DEF P!ParseFuncDef, P!ParseFuncParams, P!ParseAfterParam, P!Then, P!Crash, P!Fail
<1>5. CASE P!ParseProg \/ P!PushFunc \/ P!ParseDone
  BY <1>5 DEF P!ParseProg, P!PushFunc, P!ParseDone, P!Then
<1> QED BY <1>1, <1>2, <1>3, <1>4, <1>5 DEF P!Parse

(* The front end scans as the scanner alone does: nothing the parser does  *)
(* disturbs it, and it never starts again.                                 *)
THEOREM ScansAsAlone == Spec => Alone!Spec
<1>1. Init => Alone!Init
  <2> SUFFICES ASSUME NEW f \in Files, Lex!Start(f.text) PROVE Alone!Init
    BY DEF Init
  <2>1. Alone!Start(f.text)
    BY DEF Lex!Start, Alone!Start
  <2> QED BY <2>1 DEF Alone!Init
<1>2. [Next]_vars => [Alone!Next]_Alone!vars
  <2> SUFFICES ASSUME [Next]_vars PROVE [Alone!Next]_Alone!vars
    OBVIOUS
  <2>1. CASE Tokenize
    BY <2>1, SameScanner DEF Tokenize, Alone!Next
  <2>2. CASE StartParse
    BY <2>2 DEF StartParse, lexVars, Alone!vars
  <2>3. CASE Parse
    <3>1. tokens' = tokens
      BY <2>3, ParseTokens DEF Parse
    <3> QED BY <2>3, <3>1 DEF Parse, Alone!vars
  <2>4. CASE UNCHANGED vars
    BY <2>4 DEF vars, lexVars, Alone!vars
  <2> QED BY <2>1, <2>2, <2>3, <2>4 DEF Next, Step, Stopped
<1> QED BY <1>1, <1>2, PTL DEF Spec, Alone!Spec

(* The scanner's types, whatever the parser does meanwhile, and a parser   *)
(* that never takes more from its stack than was pushed.                   *)
THEOREM FrontEndTypes == Spec => []TypeOK
<1>1. Alone!TypeOK => Lex!TypeOK
  <2>1. \A t : Alone!TokenOK(t) => Lex!TokenOK(t)
    BY DEF Lex!TokenOK, Alone!TokenOK, Lex!TokenTypes, Alone!TokenTypes, Lex!Fixed,
       Alone!Fixed, Lex!Unset, Alone!Unset, Lex!NUL, Alone!NUL, Lex!Slice, Alone!Slice,
       Lex!Punctuation, Alone!Punctuation, Lex!LookAhead, Alone!LookAhead, Lex!Pairs,
       Alone!Pairs, Lex!Pair, Alone!Pair, Lex!Keywords, Alone!Keywords
  <2> QED BY <2>1 DEF Alone!TypeOK, Lex!TypeOK
<1>2. Spec => []Alone!TypeOK
  BY ScansAsAlone, AloneAssumption, Alone!LexerTypes, PTL
<1> QED BY <1>1, <1>2, NeverShort, PTL DEF TypeOK

=============================================================================
