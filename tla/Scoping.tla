------------------------------- MODULE Scoping -------------------------------
(***************************************************************************)
(* The scoping rules of C for the programs of Ast: which declaration each  *)
(* use of a name stands for, and which programs break the rules.  This is  *)
(* a reference the compiler is compared with, not a model of code of the   *)
(* repository.                                                             *)
(*                                                                         *)
(* A declaration is <<node, 0>>, <<function node, i>> for the i-th         *)
(* parameter or <<enum node, i>> for the i-th constant.                    *)
(***************************************************************************)
EXTENDS Ast, Integers, SequencesExt

(* What f declares hides what g does; what is left without some names.     *)
Over(f, g) == [x \in DOMAIN f \cup DOMAIN g |-> IF x \in DOMAIN f THEN f[x] ELSE g[x]]
Without(f, names) == [x \in DOMAIN f \ names |-> f[x]]

(* The names of a list, declared one after the other by node n.            *)
Listed(n, names) == [x \in Elements(names) |-> <<n, Max({i \in DOMAIN names : names[i] = x})>>]
ParamNames(nd) == [i \in 1 .. Len(nd.params) |-> nd.params[i].value]

(* What a node declares in the scope it stands in.                         *)
Declarations == {"VAR_DEF", "VAR_DEC", "ENUM"}
Introduces(ns, n) ==
    LET nd == ns[n] IN
    CASE nd.type \in {"VAR_DEF", "VAR_DEC", "FUNC_DEF"} -> [x \in {nd.value} |-> <<n, 0>>]
      [] nd.type = "ENUM" -> Listed(n, nd.enums)
      [] OTHER -> [x \in {} |-> <<n, 0>>]

(* What the nodes of a list that are before node n declare.                *)
Before(ns, list, n) ==
    LET at    == CHOOSE i \in DOMAIN list : list[i] = n
        By(x) == {j \in 1 .. (at - 1) : x \in DOMAIN Introduces(ns, list[j])}
    IN  [x \in UNION {DOMAIN Introduces(ns, list[j]) : j \in 1 .. (at - 1)} |->
            Introduces(ns, list[Max(By(x))])[x]]

Parent(ns, n) == CHOOSE m \in DOMAIN ns : n \in Children(ns[m])

(* What is declared between the place of a node and that of its parent: a  *)
(* function's parameters, in front of its name; what the statements before *)
(* it declare; what the first clause of its for declares.                  *)
Added(p, n) ==
    LET ns == p.nodes
        m  == Parent(ns, n)
        nd == ns[m]
    IN CASE n \in Elements(p.funcs) -> Before(ns, p.funcs, n)
         [] n \notin Elements(p.funcs) /\ nd.type = "FUNC_DEF" ->
              Over(Listed(m, ParamNames(nd)), Introduces(ns, m))
         [] n \notin Elements(p.funcs) /\ nd.type = "COMP_STMT" -> Before(ns, nd.stmts, n)
         [] n \notin Elements(p.funcs) /\ nd.type = "FOR" /\ n # nd.init -> Introduces(ns, nd.init)
         [] OTHER -> [x \in {} |-> <<n, 0>>]

(* A variable has no value yet in its own initialiser: using it there      *)
(* counts as breaking the rules.                                           *)
Hidden(p, n) ==
    LET nd == p.nodes[Parent(p.nodes, n)] IN IF nd.type = "VAR_DEF" THEN {nd.value} ELSE {}

(* node -> the declarations that can be seen there, by name.               *)
Visible(p) ==
    LET vis[n \in DOMAIN p.nodes] ==
          IF n \in Elements(p.funcs) THEN Added(p, n)
          ELSE Over(Added(p, n), Without(vis[Parent(p.nodes, n)], Hidden(p, n)))
    IN vis

(* node -> the function it is a part of.                                   *)
FuncOf(p) ==
    LET of[n \in DOMAIN p.nodes] ==
          IF n \in Elements(p.funcs) THEN n ELSE of[Parent(p.nodes, n)]
    IN of

(* name use -> declaration.                                                *)
Uses(p) == {n \in DOMAIN p.nodes : p.nodes[n].type \in {"IDENT", "FUNC_CALL"}}
Bindings(p) ==
    LET vis == Visible(p)
    IN  [n \in {u \in Uses(p) : p.nodes[u].value \in DOMAIN vis[u]} |-> vis[n][p.nodes[n].value]]

(* Every name a declaration of the program introduces, and where it stands:*)
(* the parameters in the outermost block of the body.                      *)
Declared(p) ==
    LET nd(n)    == p.nodes[n]
        Own      == {n \in DOMAIN p.nodes : nd(n).type \in {"VAR_DEF", "VAR_DEC", "FUNC_DEF"}}
        Funcs    == {n \in DOMAIN p.nodes : nd(n).type = "FUNC_DEF"}
        Enums    == {n \in DOMAIN p.nodes : nd(n).type = "ENUM"}
    IN  {<<n, 0>> : n \in Own}
          \cup (UNION {{<<n, i>> : i \in DOMAIN nd(n).params} : n \in Funcs})
          \cup (UNION {{<<n, i>> : i \in DOMAIN nd(n).enums} : n \in Enums})
NameOf(p, d) ==
    LET nd == p.nodes[d[1]] IN
    IF d[2] = 0 THEN nd.value ELSE IF nd.type = "ENUM" THEN nd.enums[d[2]] ELSE nd.params[d[2]].value
BlockOf(p, d) ==
    LET nd == p.nodes[d[1]] IN
    IF nd.type # "FUNC_DEF" THEN Parent(p.nodes, d[1]) ELSE IF d[2] = 0 THEN NULL ELSE nd.body

(* No parameter has the name of a function.  This is no rule of C: it is   *)
(* what the compiler asks for without saying so.                           *)
ParamsApart(p) ==
    \A f, g \in {n \in DOMAIN p.nodes : p.nodes[n].type = "FUNC_DEF"} :
        \A i \in DOMAIN p.nodes[f].params : p.nodes[f].params[i].value # p.nodes[g].value

(* What the rules forbid: a declaration that is no item of a block nor the *)
(* first clause of a for, two of one name in a block, a name that stands   *)
(* for none, a call that does not fit what is called.                      *)
Misplaced(p) ==
    \E m \in DOMAIN p.nodes : \E n \in Children(p.nodes[m]) :
        /\ p.nodes[n].type \in Declarations
        /\ p.nodes[m].type # "COMP_STMT"
        /\ p.nodes[m].type = "FOR" => n # p.nodes[m].init
DeclaredTwice(p) ==
    \E d, e \in Declared(p) : d # e /\ NameOf(p, d) = NameOf(p, e) /\ BlockOf(p, d) = BlockOf(p, e)
FitsCall(p, n, d) ==
    LET nd == p.nodes[d[1]]
    IN  d[2] = 0 /\ nd.type = "FUNC_DEF" /\ Len(nd.params) = Len(p.nodes[n].args)
Illegal(p) ==
    LET bind == Bindings(p)
    IN  \/ Misplaced(p)
        \/ DeclaredTwice(p)
        \/ Uses(p) # DOMAIN bind
        \/ \E n \in DOMAIN bind : p.nodes[n].type = "FUNC_CALL" /\ ~FitsCall(p, n, bind[n])

=============================================================================
