---------------------------- MODULE ScopeProofs ----------------------------
(***************************************************************************)
(* Proofs that the semantic checker scopes names as C does, for every set  *)
(* of programs the parser can build, every word size and every content of  *)
(* unset memory.                                                           *)
(*                                                                         *)
(* Visible gives what C sees at a node, from its parent's view down; the   *)
(* checker has a chain of cloned tables and an agenda.  That both agree    *)
(* where a name is looked up is not inductive: it has to be known of all   *)
(* that is still on the agenda.  SeesLikeC says so: what C sees at the     *)
(* first item is in the innermost scope, what it sees at an item is what   *)
(* it sees behind the one before it, and behind an item that leaves a      *)
(* scope it is in the scope around that one.  Each case of sym_check       *)
(* puts items in front for which this holds (Row), and what it declares is *)
(* what C declares (Makes).  From it follow the bindings (Agree); Marked   *)
(* says whose symbols have parameters, Once that no node is checked twice  *)
(* and Entered that a scope's entries are named after what they declare,   *)
(* so that a name found where it is declared was used twice.               *)
(***************************************************************************)
EXTENDS SemaRef, SemaProofs

-----------------------------------------------------------------------------
(* What it means that a list is two others, one after the other.           *)
Joins(both, front, back) ==
    /\ IsList(both) /\ Len(front) \in Nat /\ Len(back) \in Nat
    /\ Len(both) = Len(front) + Len(back)
    /\ DOMAIN both = 1 .. (Len(front) + Len(back))
    /\ \A i \in 1 .. Len(front) : both[i] = front[i]
    /\ \A i \in 1 .. Len(back) : both[Len(front) + i] = back[i]
LEMMA JoinsAt ==
    ASSUME NEW front, IsList(front), NEW back, IsList(back)
    PROVE  Joins(front \o back, front, back)
<1>1. PICK both : both = front \o back
  OBVIOUS
<1>2. IsList(both) /\ Len(both) = Len(front) + Len(back)
  BY <1>1, JoinedLists
<1>3. /\ Len(front) \in Nat /\ Len(back) \in Nat
      /\ DOMAIN both = 1 .. (Len(front) + Len(back))
      /\ \A i \in 1 .. Len(front) : both[i] = front[i]
      /\ \A i \in 1 .. Len(back) : both[Len(front) + i] = back[i]
  BY <1>1, JoinedAt
<1> QED BY <1>1, <1>2, <1>3 DEF Joins

-----------------------------------------------------------------------------
(* The views.  A node has one parent, made after it, so that what is       *)
(* visible at a node is defined from the functions down.                   *)

(* A child is a node, no function, made before its one parent.             *)
LEMMA ParentFacts ==
    ASSUME NEW p, ProgramOK(p), NEW m \in DOMAIN p.nodes, NEW n \in Children(p.nodes[m])
    PROVE  /\ Parent(p.nodes, n) = m
           /\ n \in DOMAIN p.nodes /\ n < m /\ n \in Nat /\ m \in Nat
           /\ n \notin Elements(p.funcs) /\ p.nodes[n].type # "FUNC_DEF"
<1>1. /\ DOMAIN p.nodes = 1 .. Len(p.nodes) /\ Len(p.nodes) \in Nat
      /\ NodeOK(p.nodes, m) /\ NoneShared(p)
      /\ p.funcs \in Seq({k \in DOMAIN p.nodes : p.nodes[k].type = "FUNC_DEF"})
  BY DEF ProgramOK, HeapOK, IsVector
<1>2. n \in {k \in 1 .. (m - 1) : p.nodes[k].type # "FUNC_DEF"}
  BY <1>1, ChildrenPlain
<1>3. \A k \in DOMAIN p.nodes : n \in Children(p.nodes[k]) => k = m
  BY <1>1 DEF NoneShared
<1>4. Parent(p.nodes, n) = m
  BY <1>3 DEF Parent
<1>5. \A k \in Elements(p.funcs) : p.nodes[k].type = "FUNC_DEF"
  BY <1>1 DEF Elements
<1> QED BY <1>1, <1>2, <1>4, <1>5

(* The recursion of Visible.                                               *)
IsVisible(p, f) ==
    f = [n \in DOMAIN p.nodes |->
            IF n \in Elements(p.funcs) THEN Added(p, n)
            ELSE Over(Added(p, n), Without(f[Parent(p.nodes, n)], Hidden(p, n)))]

LEMMA VisibleExists ==
    ASSUME NEW p, NEW l \in Nat, DOMAIN p.nodes = 1 .. l,
           \A n \in 1 .. l : n \notin Elements(p.funcs) => Parent(p.nodes, n) \in (n + 1) .. l
    PROVE  IsVisible(p, Visible(p))
<1> DEFINE up(n) == Parent(p.nodes, n)
           Body(f, n) == IF n \in Elements(p.funcs) THEN Added(p, n)
                         ELSE Over(Added(p, n), Without(f[up(n)], Hidden(p, n)))
           Bad == {i \in 1 .. l : ~\E f : \A n \in i .. l : f[n] = Body(f, n)}
<1>1. ASSUME Bad # {} PROVE FALSE
  <2>1. PICK i \in Bad : \A j \in Bad : j <= i
    <3>1. Bad \in SUBSET (1 .. l)
      OBVIOUS
    <3> HIDE DEF Bad
    <3> QED BY <1>1, <3>1, LastPosition
  <2>2. PICK f : \A n \in (i + 1) .. l : f[n] = Body(f, n)
    <3>1. CASE i = l
      <4>1. (i + 1) .. l = {}
        BY <3>1
      <4> QED BY <4>1
    <3>2. CASE i # l
      <4>1. i + 1 \in 1 .. l /\ ~(i + 1 <= i)
        BY <3>2
      <4>2. i + 1 \notin Bad
        <5> HIDE DEF Bad
        <5> QED BY <2>1, <4>1
      <4> QED BY <4>1, <4>2
    <3> QED BY <3>1, <3>2
  <2> DEFINE g == [n \in 1 .. l |-> IF n = i THEN Body(f, i) ELSE f[n]]
  <2>3. i \in 1 .. l
    OBVIOUS
  <2>4. ASSUME NEW n \in i .. l PROVE g[n] = Body(g, n)
    <3>1. n \in 1 .. l
      BY <2>3
    <3>2. n \notin Elements(p.funcs) => up(n) \in 1 .. l /\ up(n) # i
      <4>1. n \notin Elements(p.funcs) => up(n) \in (n + 1) .. l
        BY <3>1
      <4> HIDE DEF up, Bad
      <4> QED BY <2>3, <4>1
    <3>3. n \notin Elements(p.funcs) => g[up(n)] = f[up(n)]
      BY <3>2
    <3>4. g[n] = Body(f, n)
      <4>1. CASE n = i
        BY <3>1, <4>1
      <4>2. CASE n # i
        <5>1. g[n] = f[n] /\ n \in (i + 1) .. l
          BY <2>3, <3>1, <4>2
        <5> QED BY <2>2, <5>1
      <4> QED BY <4>1, <4>2
    <3> HIDE DEF g, up
    <3> QED BY <3>3, <3>4
  <2> HIDE DEF g, Body
  <2>5. \E h : \A n \in i .. l : h[n] = Body(h, n)
    BY <2>4
  <2> QED BY <2>5
<1>2. PICK f : \A n \in 1 .. l : f[n] = Body(f, n)
  <2>1. CASE l = 0
    <3>1. 1 .. l = {}
      BY <2>1
    <3> QED BY <3>1
  <2>2. CASE l # 0
    <3>1. 1 \in 1 .. l
      BY <2>2
    <3> QED BY <1>1, <3>1
  <2> QED BY <2>1, <2>2
<1> DEFINE g == [n \in 1 .. l |-> f[n]]
<1>3. ASSUME NEW n \in 1 .. l PROVE g[n] = Body(g, n)
  <2>1. n \notin Elements(p.funcs) => up(n) \in 1 .. l
    <3>1. n \notin Elements(p.funcs) => up(n) \in (n + 1) .. l
      OBVIOUS
    <3> HIDE DEF up, Bad
    <3> QED BY <3>1
  <2>2. g[n] = f[n] /\ (n \notin Elements(p.funcs) => g[up(n)] = f[up(n)])
    BY <2>1
  <2> HIDE DEF g, up, Bad
  <2> QED BY <1>2, <2>2
<1>4. g = [n \in 1 .. l |-> g[n]]
  OBVIOUS
<1> HIDE DEF g, Bad
<1>5. g = [n \in 1 .. l |-> Body(g, n)]
  <2> HIDE DEF Body
  <2> QED BY <1>3, <1>4
<1>6. IsVisible(p, g)
  BY <1>5 DEF IsVisible
<1>7. Visible(p) = CHOOSE h : IsVisible(p, h)
  BY DEF Visible, IsVisible
<1> QED BY <1>6, <1>7

-----------------------------------------------------------------------------
(* What is visible on the agenda.                                          *)

(* What can be seen where an item is met, and behind it.                   *)
Within(e, f) == \A x \in DOMAIN e : x \in DOMAIN f /\ f[x] = e[x]
View(p, item) ==
    IF item.act = "define" THEN Without(Visible(p)[item.node], {p.nodes[item.node].value})
                           ELSE Visible(p)[item.node]
Behind(p, item) == Over(Introduces(p.nodes, item.node), View(p, item))

(* A table of symbols has the declarations of e.                           *)
Shows(made, e, table) == \A x \in DOMAIN e : x \in DOMAIN table /\ made[table[x]].decl = e[x]

(* An item sees what is declared when the one before it is done; when the  *)
(* item before it leaves a scope, what the scope around it has already.    *)
Linked(p, made, a, b, table) ==
    b.act # "leave" => IF a.act = "leave" THEN Shows(made, View(p, b), table)
                                          ELSE Within(View(p, b), Behind(p, a))
LaidBy(p, made, t, chain, d) ==
    /\ \A i \in 1 .. Len(t) : d[i + 1] = IF t[i].act = "leave" THEN d[i] - 1 ELSE d[i]
    /\ \A i, j \in 1 .. Len(t) + 1 : i <= j => d[j] <= d[i]
    /\ \A i \in 1 .. (Len(t) - 1) : Linked(p, made, t[i], t[i + 1], chain[d[i + 1]])
LaidOn(p, made, t, n, chain) ==
    \E d \in [1 .. Len(t) + 1 -> Nat \ {0}] : d[1] = n /\ LaidBy(p, made, t, chain, d)

(* What the first item sees is in the scope it is met in.                  *)
Opens(p, made, t, table) ==
    t # <<>> /\ t[1].act # "leave" => Shows(made, View(p, t[1]), table)

(* Taking the first item of an agenda.                                     *)
LEMMA LaidTail ==
    ASSUME NEW p, NEW made, NEW t, IsList(t), t # <<>>, NEW n, NEW chain,
           LaidOn(p, made, t, n, chain)
    PROVE  /\ IsList(Tail(t)) /\ n \in Nat \ {0}
           /\ t[1].act # "leave" => LaidOn(p, made, Tail(t), n, chain)
           /\ t[1].act = "leave" => /\ n - 1 \in Nat \ {0}
                                    /\ LaidOn(p, made, Tail(t), n - 1, chain)
           /\ t[1].act = "leave" => Opens(p, made, Tail(t), chain[n - 1])
           /\ t[1].act # "leave" /\ Tail(t) # <<>> /\ Tail(t)[1].act # "leave"
                => Within(View(p, Tail(t)[1]), Behind(p, t[1]))
<1> DEFINE m == Len(t) - 1
           u == Tail(t)
<1>1. /\ IsList(u) /\ Len(u) = m /\ \A i \in 1 .. m : u[i] = t[i + 1]
      /\ m \in Nat /\ Len(t) = m + 1
  <2>1. PICK S : t \in Seq(S)
    BY DEF IsList
  <2>2. u \in Seq(S) /\ Len(u) = m /\ \A i \in 1 .. m : u[i] = t[i + 1]
    BY <2>1, HeadTailProperties
  <2>3. m \in Nat /\ Len(t) = m + 1
    BY ListFacts
  <2> HIDE DEF u, m
  <2> QED BY <2>2, <2>3 DEF IsList
<1> HIDE DEF m, u
<1>2. PICK d \in [1 .. m + 1 + 1 -> Nat \ {0}] : d[1] = n /\ LaidBy(p, made, t, chain, d)
  BY <1>1 DEF LaidOn
<1> DEFINE e == [i \in 1 .. m + 1 |-> d[i + 1]]
<1>3. /\ e \in [1 .. m + 1 -> Nat \ {0}] /\ e[1] = d[2]
      /\ \A i \in 1 .. m + 1 : e[i] = d[i + 1]
      /\ \A i \in 1 .. m : e[i] = d[i + 1] /\ e[i + 1] = d[i + 1 + 1]
  BY <1>1
<1> HIDE DEF e
<1>4. LaidBy(p, made, u, chain, e)
  <2>1. ASSUME NEW i \in 1 .. m
        PROVE  e[i + 1] = IF u[i].act = "leave" THEN e[i] - 1 ELSE e[i]
    <3>1. i + 1 \in 1 .. Len(t) /\ u[i] = t[i + 1]
      BY <1>1
    <3> QED BY <3>1, <1>2, <1>3 DEF LaidBy
  <2>2. ASSUME NEW i \in 1 .. m + 1, NEW j \in 1 .. m + 1, i <= j PROVE e[j] <= e[i]
    <3>1. i + 1 \in 1 .. Len(t) + 1 /\ j + 1 \in 1 .. Len(t) + 1 /\ i + 1 <= j + 1
      BY <1>1, <2>2
    <3> QED BY <3>1, <1>2, <1>3 DEF LaidBy
  <2>3. ASSUME NEW i \in 1 .. (m - 1) PROVE Linked(p, made, u[i], u[i + 1], chain[e[i + 1]])
    <3>1. /\ i + 1 \in 1 .. (Len(t) - 1) /\ u[i] = t[i + 1] /\ u[i + 1] = t[i + 1 + 1]
          /\ i \in 1 .. m
      BY <1>1
    <3>2. Linked(p, made, t[i + 1], t[i + 1 + 1], chain[d[i + 1 + 1]])
      BY <3>1, <1>2 DEF LaidBy
    <3> QED BY <3>1, <3>2, <1>3
  <2> QED BY <2>1, <2>2, <2>3, <1>1 DEF LaidBy
<1>5. LaidOn(p, made, u, e[1], chain)
  BY <1>1, <1>3, <1>4 DEF LaidOn
<1>6. n \in Nat \ {0} /\ e[1] \in Nat \ {0} /\ e[1] = IF t[1].act = "leave" THEN n - 1 ELSE n
  <2>1. 1 \in 1 .. Len(t) /\ 1 \in 1 .. m + 1 + 1 /\ 1 \in 1 .. m + 1 /\ 1 + 1 = 2
    BY <1>1
  <2> QED BY <2>1, <1>2, <1>3 DEF LaidBy
<1>7. ASSUME u # <<>> PROVE Linked(p, made, t[1], u[1], chain[e[1]])
  <2>1. m # 0
    <3>1. Len(u) \in Nat \ {0}
      BY <1>1, <1>7, ListFacts
    <3> QED BY <3>1, <1>1
  <2>2. 1 \in 1 .. (Len(t) - 1) /\ 1 \in 1 .. m /\ 1 + 1 = 2
    BY <2>1, <1>1
  <2>3. u[1] = t[2] /\ Linked(p, made, t[1], t[2], chain[d[2]])
    BY <2>2, <1>1, <1>2 DEF LaidBy
  <2> QED BY <2>3, <1>3
<1>8. /\ t[1].act = "leave" => Opens(p, made, u, chain[n - 1])
      /\ t[1].act # "leave" /\ u # <<>> /\ u[1].act # "leave"
                => Within(View(p, u[1]), Behind(p, t[1]))
  BY <1>6, <1>7 DEF Linked, Opens
<1>9. t[1].act # "leave" => LaidOn(p, made, u, n, chain)
  BY <1>5, <1>6
<1>10. t[1].act = "leave" => n - 1 \in Nat \ {0} /\ LaidOn(p, made, u, n - 1, chain)
  BY <1>5, <1>6
<1> QED BY <1>1, <1>6, <1>8, <1>9, <1>10 DEF u

(* The scopes around the innermost one are all the agenda depends on.      *)
LEMMA LaidMoved ==
    ASSUME NEW p, NEW made, NEW t, IsList(t), NEW n, NEW chain, LaidOn(p, made, t, n, chain),
           NEW more, NEW next,
           \A j \in 1 .. (n - 1) : \A e : Shows(made, e, chain[j]) => Shows(more, e, next[j])
    PROVE  LaidOn(p, more, t, n, next)
<1>1. PICK d \in [1 .. Len(t) + 1 -> Nat \ {0}] : d[1] = n /\ LaidBy(p, made, t, chain, d)
  BY DEF LaidOn
<1>2. Len(t) \in Nat
  BY ListFacts
<1>3. ASSUME NEW i \in 1 .. (Len(t) - 1)
      PROVE  Linked(p, more, t[i], t[i + 1], next[d[i + 1]])
  <2>1. Linked(p, made, t[i], t[i + 1], chain[d[i + 1]])
    BY <1>1 DEF LaidBy
  <2>2. CASE t[i].act = "leave"
    <3>1. /\ i \in 1 .. Len(t) /\ i \in 1 .. Len(t) + 1 /\ 1 \in 1 .. Len(t) + 1 /\ 1 <= i
          /\ i + 1 \in 1 .. Len(t) + 1
      BY <1>2
    <3>2. d[i] \in Nat \ {0} /\ d[1] \in Nat \ {0} /\ d[i + 1] \in Nat \ {0}
      BY <1>1, <3>1
    <3>3. d[i + 1] = d[i] - 1 /\ d[i] <= d[1]
      BY <1>1, <2>2, <3>1 DEF LaidBy
    <3>4. d[i + 1] \in 1 .. (n - 1)
      BY <1>1, <3>2, <3>3
    <3> QED BY <2>1, <2>2, <3>4 DEF Linked
  <2>3. CASE t[i].act # "leave"
    BY <2>1, <2>3 DEF Linked
  <2> QED BY <2>2, <2>3
<1> QED BY <1>1, <1>3 DEF LaidBy, LaidOn

(* Items, none of which leaves a scope, each of which sees what is         *)
(* declared behind the one before it.                                      *)
Row(p, q) ==
    /\ IsList(q)
    /\ \A i \in 1 .. Len(q) : q[i].act # "leave"
    /\ \A i \in 1 .. (Len(q) - 1) : Within(View(p, q[i + 1]), Behind(p, q[i]))

(* Putting such items in front of an agenda.                               *)
LEMMA LaidInFront ==
    ASSUME NEW p, NEW made, NEW t, IsList(t), NEW n, NEW chain, LaidOn(p, made, t, n, chain),
           NEW q, Row(p, q), q # <<>>,
           t # <<>> /\ t[1].act # "leave" => Within(View(p, t[1]), Behind(p, q[Len(q)]))
    PROVE  IsList(q \o t) /\ LaidOn(p, made, q \o t, n, chain)
<1> DEFINE u == q \o t
<1>1. IsList(q)
  BY DEF Row
<1>2. PICK k : k = Len(q)
  OBVIOUS
<1>3. PICK m : m = Len(t)
  OBVIOUS
<1>4. /\ IsList(u) /\ k \in Nat \ {0} /\ m \in Nat /\ DOMAIN u = 1 .. (k + m)
      /\ \A i \in 1 .. k : u[i] = q[i]
      /\ \A i \in 1 .. m : u[k + i] = t[i]
  <2>1. /\ IsList(q \o t) /\ Len(q) \in Nat /\ Len(t) \in Nat
        /\ DOMAIN (q \o t) = 1 .. (Len(q) + Len(t))
        /\ \A i \in 1 .. Len(q) : (q \o t)[i] = q[i]
        /\ \A i \in 1 .. Len(t) : (q \o t)[Len(q) + i] = t[i]
    <3>1. Joins(q \o t, q, t)
      BY <1>1, JoinsAt
    <3> QED BY <3>1 DEF Joins
  <2>2. Len(q) \in Nat \ {0}
    BY <1>1, ListFacts
  <2> QED BY <2>1, <2>2, <1>2, <1>3
<1>5. Len(u) = k + m
  <2>1. DOMAIN u = 1 .. Len(u) /\ Len(u) \in Nat
    BY <1>4, ListFacts
  <2>2. PICK l : l = Len(u)
    OBVIOUS
  <2>3. 1 .. l = 1 .. (k + m) /\ l \in Nat /\ k \in Nat /\ m \in Nat
    BY <2>1, <2>2, <1>4
  <2>4. l = k + m
    BY ONLY <2>3
  <2> QED BY <2>2, <2>4
<1>6. PICK d \in [1 .. m + 1 -> Nat \ {0}] : d[1] = n /\ LaidBy(p, made, t, chain, d)
  BY <1>3 DEF LaidOn
<1>7. n \in Nat \ {0}
  BY <1>4, <1>6
<1> HIDE DEF u
<1> DEFINE e == [i \in 1 .. k + m + 1 |-> IF i <= k THEN n ELSE d[i - k]]
<1>8. /\ e \in [1 .. k + m + 1 -> Nat \ {0}]
      /\ \A i \in 1 .. k + 1 : e[i] = n
      /\ \A i \in 1 .. m + 1 : e[k + i] = d[i]
  <2>1. ASSUME NEW i \in 1 .. k + m + 1
        PROVE  /\ e[i] = IF i <= k THEN n ELSE d[i - k]
               /\ i > k => i - k \in 1 .. m + 1
               /\ e[i] \in Nat \ {0}
    BY <1>4, <1>6, <1>7
  <2>2. e \in [1 .. k + m + 1 -> Nat \ {0}]
    BY <2>1
  <2> HIDE DEF e
  <2>3. ASSUME NEW i \in 1 .. m + 1 PROVE e[k + i] = d[i]
    <3>1. PICK h : h = k + i
      OBVIOUS
    <3>2. h \in 1 .. k + m + 1 /\ ~(h <= k) /\ h - k = i
      BY <1>4, <3>1
    <3> QED BY <2>1, <3>1, <3>2
  <2>4. ASSUME NEW i \in 1 .. k + 1 PROVE e[i] = n
    <3>1. CASE i = k + 1
      <4>1. 1 \in 1 .. m + 1
        BY <1>4
      <4> QED BY <2>3, <3>1, <4>1, <1>6
    <3>2. CASE i # k + 1
      <4>1. i \in 1 .. k + m + 1 /\ i <= k
        BY <1>4, <3>2
      <4> QED BY <2>1, <4>1
    <3> QED BY <3>1, <3>2
  <2> QED BY <2>2, <2>3, <2>4
<1> HIDE DEF e
<1>9. ASSUME NEW i \in 1 .. k + m
      PROVE  e[i + 1] = IF u[i].act = "leave" THEN e[i] - 1 ELSE e[i]
  <2>1. CASE i <= k
    <3>1. i \in 1 .. k /\ i \in 1 .. k + 1 /\ i + 1 \in 1 .. k + 1
      BY <1>4, <2>1
    <3>2. u[i].act # "leave"
      BY <3>1, <1>2, <1>4 DEF Row
    <3> QED BY <3>1, <3>2, <1>8
  <2>2. CASE ~(i <= k)
    <3>1. PICK j \in 1 .. m : i = k + j
      <4>1. i - k \in 1 .. m /\ i = k + (i - k)
        BY <1>4, <2>2
      <4> QED BY <4>1
    <3>2. j \in 1 .. m + 1 /\ j + 1 \in 1 .. m + 1 /\ i + 1 = k + (j + 1)
      BY <3>1, <1>4
    <3>3. d[j + 1] = IF t[j].act = "leave" THEN d[j] - 1 ELSE d[j]
      BY <1>3, <1>6 DEF LaidBy
    <3> QED BY <3>1, <3>2, <3>3, <1>4, <1>8
  <2> QED BY <2>1, <2>2
<1>10. ASSUME NEW i \in 1 .. k + m + 1, NEW j \in 1 .. k + m + 1, i <= j PROVE e[j] <= e[i]
  <2>1. CASE j <= k
    <3>1. i \in 1 .. k + 1 /\ j \in 1 .. k + 1
      BY <1>4, <1>10, <2>1
    <3> QED BY <3>1, <1>7, <1>8
  <2>2. CASE ~(j <= k)
    <3>1. PICK b \in 1 .. m + 1 : j = k + b
      <4>1. j - k \in 1 .. m + 1 /\ j = k + (j - k)
        BY <1>4, <2>2
      <4> QED BY <4>1
    <3>2. PICK a \in 1 .. m + 1 : e[i] = d[a] /\ a <= b
      <4>1. CASE i <= k
        <5>1. i \in 1 .. k + 1 /\ 1 \in 1 .. m + 1 /\ 1 <= b
          BY <1>4, <4>1
        <5> QED BY <5>1, <1>6, <1>8
      <4>2. CASE ~(i <= k)
        <5>1. i - k \in 1 .. m + 1 /\ i = k + (i - k) /\ i - k <= b
          BY <1>4, <1>10, <3>1, <4>2
        <5> QED BY <5>1, <1>8
      <4> QED BY <4>1, <4>2
    <3>3. d[b] <= d[a]
      BY <3>2, <1>3, <1>6 DEF LaidBy
    <3> QED BY <3>1, <3>2, <3>3, <1>8
  <2> QED BY <2>1, <2>2
<1>11. ASSUME NEW i \in 1 .. (k + m - 1)
       PROVE  Linked(p, made, u[i], u[i + 1], chain[e[i + 1]])
  <2>1. CASE i < k
    <3>1. i \in 1 .. k /\ i + 1 \in 1 .. k /\ i \in 1 .. (Len(q) - 1)
      BY <1>2, <1>4, <2>1
    <3>2. u[i].act # "leave" /\ Within(View(p, u[i + 1]), Behind(p, u[i]))
      BY <3>1, <1>2, <1>4 DEF Row
    <3> QED BY <3>2 DEF Linked
  <2>2. CASE i = k
    <3>1. k \in 1 .. k /\ 1 \in 1 .. m
      BY <1>4, <2>2
    <3>2. u[k] = q[Len(q)] /\ u[k].act # "leave" /\ u[k + 1] = t[1]
      BY <3>1, <1>2, <1>4 DEF Row
    <3>3. t # <<>>
      BY <3>1, <1>3
    <3> QED BY <3>2, <3>3, <2>2 DEF Linked
  <2>3. CASE i > k
    <3>1. PICK j \in 1 .. (m - 1) : i = k + j
      <4>1. i - k \in 1 .. (m - 1) /\ i = k + (i - k)
        BY <1>4, <2>3
      <4> QED BY <4>1
    <3>2. j \in 1 .. m /\ j + 1 \in 1 .. m /\ j + 1 \in 1 .. m + 1 /\ i + 1 = k + (j + 1)
      BY <3>1, <1>4
    <3>3. Linked(p, made, t[j], t[j + 1], chain[d[j + 1]])
      BY <1>3, <1>6 DEF LaidBy
    <3> QED BY <3>1, <3>2, <3>3, <1>4, <1>8
  <2>4. i < k \/ i = k \/ i > k
    BY <1>4
  <2> QED BY <2>1, <2>2, <2>3, <2>4
<1>12. LaidBy(p, made, u, chain, e)
  <2>1. PICK l : l = Len(u)
    OBVIOUS
  <2>2. l = k + m
    BY <1>5, <2>1
  <2>3. \A i \in 1 .. l : e[i + 1] = IF u[i].act = "leave" THEN e[i] - 1 ELSE e[i]
    BY <1>9, <2>2
  <2>4. \A i, j \in 1 .. l + 1 : i <= j => e[j] <= e[i]
    BY <1>10, <2>2
  <2>5. ASSUME NEW i \in 1 .. (l - 1)
        PROVE  Linked(p, made, u[i], u[i + 1], chain[e[i + 1]])
    <3>1. i \in 1 .. (k + m - 1)
      BY <1>4, <2>2
    <3> QED BY ONLY <1>11, <3>1
  <2> QED BY <2>1, <2>3, <2>4, <2>5 DEF LaidBy
<1>13. 1 \in 1 .. k + 1
  BY <1>4
<1> QED BY <1>4, <1>5, <1>8, <1>12, <1>13 DEF LaidOn, u

(* Leaving a scope that has just been entered.                             *)
LEMMA LaidLeave ==
    ASSUME NEW p, NEW made, NEW t, IsList(t), NEW n, NEW chain, LaidOn(p, made, t, n, chain),
           Opens(p, made, t, chain[n])
    PROVE  /\ IsList(<<Leave>> \o t) /\ LaidOn(p, made, <<Leave>> \o t, n + 1, chain)
           /\ <<Leave>> \o t # <<>> /\ (<<Leave>> \o t)[1] = Leave
<1> DEFINE u == <<Leave>> \o t
<1>1. PICK m : m = Len(t)
  OBVIOUS
<1>2. /\ IsList(u) /\ m \in Nat /\ Len(u) = 1 + m /\ u[1] = Leave
      /\ \A i \in 1 .. m : u[1 + i] = t[i]
  <2> DEFINE l == <<Leave>>
  <2>1. IsList(l) /\ Len(l) = 1 /\ l[1] = Leave
    BY ListFacts
  <2> HIDE DEF l
  <2>2. Joins(l \o t, l, t)
    BY <2>1, JoinsAt
  <2>3. m \in Nat
    BY <1>1, ListFacts
  <2>4. 1 \in 1 .. 1
    OBVIOUS
  <2> QED BY <2>1, <2>2, <2>3, <2>4, <1>1 DEF Joins, l
<1>3. PICK d \in [1 .. m + 1 -> Nat \ {0}] : d[1] = n /\ LaidBy(p, made, t, chain, d)
  BY <1>1 DEF LaidOn
<1>4. n \in Nat \ {0}
  BY <1>2, <1>3
<1>5. u # <<>>
  <2>1. Len(u) # 0
    BY <1>2
  <2>2. Len(<<>>) = 0
    OBVIOUS
  <2> HIDE DEF u
  <2> QED BY <2>1, <2>2
<1> HIDE DEF u
<1> DEFINE e == [i \in 1 .. 1 + m + 1 |-> IF i = 1 THEN n + 1 ELSE d[i - 1]]
<1>6. /\ e \in [1 .. 1 + m + 1 -> Nat \ {0}] /\ e[1] = n + 1
      /\ \A i \in 1 .. m + 1 : e[1 + i] = d[i]
  <2>1. ASSUME NEW i \in 1 .. 1 + m + 1
        PROVE  /\ e[i] = IF i = 1 THEN n + 1 ELSE d[i - 1]
               /\ i # 1 => i - 1 \in 1 .. m + 1
               /\ e[i] \in Nat \ {0}
    BY <1>2, <1>3, <1>4
  <2>2. e \in [1 .. 1 + m + 1 -> Nat \ {0}]
    BY <2>1
  <2> HIDE DEF e
  <2>3. 1 \in 1 .. 1 + m + 1
    BY <1>2
  <2>4. ASSUME NEW i \in 1 .. m + 1 PROVE e[1 + i] = d[i]
    <3>1. 1 + i \in 1 .. 1 + m + 1 /\ 1 + i # 1 /\ 1 + i - 1 = i
      BY <1>2
    <3> QED BY <2>1, <3>1
  <2> QED BY <2>1, <2>2, <2>3, <2>4
<1> HIDE DEF e
<1>7. \A i \in 1 .. 1 + m + 1 : i = 1 \/ \E j \in 1 .. m + 1 : i = 1 + j
  <2>1. ASSUME NEW i \in 1 .. 1 + m + 1, i # 1 PROVE i - 1 \in 1 .. m + 1 /\ i = 1 + (i - 1)
    BY <1>2, <2>1
  <2> QED BY <2>1
<1>8. ASSUME NEW i \in 1 .. 1 + m
      PROVE  e[i + 1] = IF u[i].act = "leave" THEN e[i] - 1 ELSE e[i]
  <2>1. CASE i = 1
    <3>1. i + 1 = 1 + 1 /\ 1 \in 1 .. m + 1 /\ n + 1 - 1 = n
      BY <1>2, <1>4, <2>1
    <3>2. u[1].act = "leave"
      BY <1>2 DEF Leave
    <3> QED BY <3>1, <3>2, <1>3, <1>6, <2>1
  <2>2. CASE i # 1
    <3>1. PICK j \in 1 .. m : i = 1 + j
      <4>1. i - 1 \in 1 .. m /\ i = 1 + (i - 1)
        BY <1>2, <2>2
      <4> QED BY <4>1
    <3>2. j \in 1 .. m + 1 /\ j + 1 \in 1 .. m + 1 /\ i + 1 = 1 + (j + 1)
      BY <3>1, <1>2
    <3>3. d[j + 1] = IF t[j].act = "leave" THEN d[j] - 1 ELSE d[j]
      BY <1>1, <1>3 DEF LaidBy
    <3> QED BY <3>1, <3>2, <3>3, <1>2, <1>6
  <2> QED BY <2>1, <2>2
<1>9. ASSUME NEW i \in 1 .. 1 + m + 1, NEW j \in 1 .. 1 + m + 1, i <= j PROVE e[j] <= e[i]
  <2>1. 1 \in 1 .. m + 1 /\ \A b \in 1 .. m + 1 : 1 <= b /\ d[b] \in Nat
    BY <1>2, <1>3
  <2>2. \A a, b \in 1 .. m + 1 : a <= b => d[b] <= d[a]
    BY <1>1, <1>3 DEF LaidBy
  <2>3. CASE i = 1 /\ j = 1
    BY <2>3, <1>4, <1>6
  <2>4. CASE i = 1 /\ j # 1
    <3>1. PICK b \in 1 .. m + 1 : j = 1 + b
      BY <1>7, <2>4
    <3>2. e[j] = d[b] /\ d[b] <= n /\ d[b] \in Nat
      BY <1>3, <1>6, <2>1, <2>2, <3>1
    <3> QED BY <3>2, <1>4, <1>6, <2>4
  <2>5. CASE i # 1
    <3>1. PICK a \in 1 .. m + 1 : i = 1 + a
      BY <1>7, <2>5
    <3>2. j # 1
      BY <1>9, <2>5
    <3>3. PICK b \in 1 .. m + 1 : j = 1 + b
      BY <1>7, <3>2
    <3>4. a <= b
      BY <3>1, <3>3, <1>9, <1>2
    <3> QED BY <3>1, <3>3, <3>4, <1>6, <2>2
  <2> QED BY <2>3, <2>4, <2>5
<1>10. ASSUME NEW i \in 1 .. (1 + m - 1)
       PROVE  Linked(p, made, u[i], u[i + 1], chain[e[i + 1]])
  <2>1. CASE i = 1
    <3>1. 1 \in 1 .. m /\ 1 \in 1 .. m + 1
      BY <1>2, <2>1
    <3>2. u[1 + 1] = t[1] /\ e[1 + 1] = n /\ u[1].act = "leave"
      BY <3>1, <1>2, <1>3, <1>6 DEF Leave
    <3>3. t # <<>>
      BY <3>1, <1>1
    <3> QED BY <3>2, <3>3, <2>1 DEF Linked, Opens
  <2>2. CASE i # 1
    <3>1. PICK j \in 1 .. (m - 1) : i = 1 + j
      <4>1. i - 1 \in 1 .. (m - 1) /\ i = 1 + (i - 1)
        BY <1>2, <2>2
      <4> QED BY <4>1
    <3>2. j \in 1 .. m /\ j + 1 \in 1 .. m /\ j + 1 \in 1 .. m + 1 /\ i + 1 = 1 + (j + 1)
      BY <3>1, <1>2
    <3>3. Linked(p, made, t[j], t[j + 1], chain[d[j + 1]])
      BY <1>1, <1>3 DEF LaidBy
    <3> QED BY <3>1, <3>2, <3>3, <1>2, <1>6
  <2> QED BY <2>1, <2>2
<1>11. LaidBy(p, made, u, chain, e)
  BY <1>2, <1>8, <1>9, <1>10 DEF LaidBy
<1> QED BY <1>2, <1>5, <1>6, <1>11 DEF LaidOn, u

-----------------------------------------------------------------------------
(* Views of parts.                                                         *)

Same(e, f) == Within(e, f) /\ Within(f, e)

LEMMA WithinFacts ==
    /\ \A e : Within(e, e)
    /\ \A e, f, g : Within(e, f) /\ Within(f, g) => Within(e, g)
    /\ \A made, e, f, table : Within(e, f) /\ Shows(made, f, table) => Shows(made, e, table)
  BY DEF Within, Shows

(* Only declarations and functions introduce names.                        *)
Declaring == Declarations \cup {"FUNC_DEF"}
LEMMA NoneIntroduced ==
    ASSUME NEW ns, NEW n, ns[n].type \notin Declaring
    PROVE  DOMAIN Introduces(ns, n) = {}
  BY DEF Introduces, Declaring, Declarations

(* What it means that a function is one laid over another.                 *)
Overlays(both, top, under) ==
    /\ DOMAIN both = DOMAIN top \cup DOMAIN under
    /\ \A x \in DOMAIN top : both[x] = top[x]
    /\ \A x \in DOMAIN under \ DOMAIN top : both[x] = under[x]
LEMMA OverAt == ASSUME NEW top, NEW under PROVE Overlays(Over(top, under), top, under)
  BY DEF Over, Overlays

LEMMA OverFacts ==
    ASSUME NEW e, NEW f
    PROVE  /\ DOMAIN Over(e, f) = DOMAIN e \cup DOMAIN f
           /\ Within(e, Over(e, f))
           /\ \A x \in DOMAIN f \ DOMAIN e : Over(e, f)[x] = f[x]
           /\ \A x \in DOMAIN e : Over(e, f)[x] = e[x]
           /\ DOMAIN e = {} => Same(Over(e, f), f)
           /\ \A g : Same(f, g) => Same(Over(e, f), Over(e, g))
           /\ Same(Over(e, Without(f, {})), Over(e, f))
  BY DEF Over, Within, Same, Without

(* What is visible at a part of a node, from what is visible at the node.  *)
LEMMA ChildView ==
    ASSUME NEW p, ProgramOK(p), NEW m \in DOMAIN p.nodes, NEW n \in Children(p.nodes[m])
    PROVE  Visible(p)[n] = Over(Added(p, n), Without(Visible(p)[m], Hidden(p, n)))
<1>1. /\ DOMAIN p.nodes = 1 .. Len(p.nodes) /\ Len(p.nodes) \in Nat /\ NoneLoose(p)
  BY DEF ProgramOK, HeapOK, IsVector
<1>2. ASSUME NEW k \in DOMAIN p.nodes, k \notin Elements(p.funcs)
      PROVE  Parent(p.nodes, k) \in (k + 1) .. Len(p.nodes)
  <2>1. PICK j \in DOMAIN p.nodes : k \in Children(p.nodes[j])
    BY <1>1, <1>2 DEF NoneLoose
  <2>2. Parent(p.nodes, k) = j /\ k < j /\ k \in Nat /\ j \in Nat
    BY <2>1, ParentFacts
  <2> QED BY <2>2, <1>1
<1>3. IsVisible(p, Visible(p))
  BY <1>1, <1>2, VisibleExists
<1>4. Parent(p.nodes, n) = m /\ n \in DOMAIN p.nodes /\ n \notin Elements(p.funcs)
  BY ParentFacts
<1>5. \A f : IsVisible(p, f) => f[n] = Over(Added(p, n), Without(f[m], Hidden(p, n)))
  BY <1>4 DEF IsVisible
<1> QED BY <1>3, <1>5

(* And at a function.                                                      *)
LEMMA FuncView ==
    ASSUME NEW p, ProgramOK(p), NEW n \in Elements(p.funcs)
    PROVE  Visible(p)[n] = Before(p.nodes, p.funcs, n)
<1>1. /\ DOMAIN p.nodes = 1 .. Len(p.nodes) /\ Len(p.nodes) \in Nat /\ NoneLoose(p)
      /\ p.funcs \in Seq({k \in DOMAIN p.nodes : p.nodes[k].type = "FUNC_DEF"})
  BY DEF ProgramOK, HeapOK, IsVector
<1>2. ASSUME NEW k \in DOMAIN p.nodes, k \notin Elements(p.funcs)
      PROVE  Parent(p.nodes, k) \in (k + 1) .. Len(p.nodes)
  <2>1. PICK j \in DOMAIN p.nodes : k \in Children(p.nodes[j])
    BY <1>1, <1>2 DEF NoneLoose
  <2>2. Parent(p.nodes, k) = j /\ k < j /\ k \in Nat /\ j \in Nat
    BY <2>1, ParentFacts
  <2> QED BY <2>2, <1>1
<1>3. IsVisible(p, Visible(p))
  BY <1>1, <1>2, VisibleExists
<1>4. n \in DOMAIN p.nodes
  BY <1>1 DEF Elements
<1>5. \A f : IsVisible(p, f) => f[n] = Added(p, n)
  BY <1>4 DEF IsVisible
<1>6. Added(p, n) = Before(p.nodes, p.funcs, n)
  BY DEF Added
<1> QED BY <1>3, <1>5, <1>6

(* By the kind of node.                                                    *)
LEMMA PartView ==
    ASSUME NEW p, ProgramOK(p), NEW m \in DOMAIN p.nodes, NEW n \in Children(p.nodes[m]),
           NEW nd, nd = p.nodes[m], NEW vis, vis = Visible(p)
    PROVE  /\ nd.type \notin {"FUNC_DEF", "COMP_STMT", "FOR", "VAR_DEF"} => Same(vis[n], vis[m])
           /\ nd.type = "VAR_DEF" => Same(vis[n], Without(vis[m], {nd.value}))
           /\ nd.type = "FUNC_DEF" =>
                Same(vis[n], Over(Over(Listed(m, ParamNames(nd)), Introduces(p.nodes, m)), vis[m]))
           /\ nd.type = "FOR" /\ n = nd.init => Same(vis[n], vis[m])
           /\ nd.type = "FOR" /\ n # nd.init => Same(vis[n], Over(Introduces(p.nodes, nd.init), vis[m]))
           /\ nd.type = "COMP_STMT" => Same(vis[n], Over(Before(p.nodes, nd.stmts, n), vis[m]))
<1>1. Parent(p.nodes, n) = m /\ n \notin Elements(p.funcs)
  BY ParentFacts
<1>2. vis[n] = Over(Added(p, n), Without(vis[m], Hidden(p, n)))
  BY ChildView
<1>3. Hidden(p, n) = IF nd.type = "VAR_DEF" THEN {nd.value} ELSE {}
  BY <1>1 DEF Hidden
<1>4. \A e : Same(Over(e, Without(vis[m], {})), Over(e, vis[m]))
  BY OverFacts
<1>5. \A e, f : DOMAIN e = {} => Same(Over(e, f), f)
  BY OverFacts
<1>6. \A e, f, g : Same(e, f) /\ Same(f, g) => Same(e, g)
  BY DEF Same, Within
<1>7. CASE nd.type \notin {"FUNC_DEF", "COMP_STMT", "FOR", "VAR_DEF"} \/ (nd.type = "FOR" /\ n = nd.init)
  <2>1. DOMAIN Added(p, n) = {}
    BY <1>1, <1>7 DEF Added
  <2>2. Hidden(p, n) = {}
    BY <1>3, <1>7
  <2> QED BY <2>1, <2>2, <1>2, <1>4, <1>5, <1>6, <1>7
<1>8. CASE nd.type = "VAR_DEF"
  <2>1. DOMAIN Added(p, n) = {}
    BY <1>1, <1>8 DEF Added
  <2> QED BY <2>1, <1>2, <1>3, <1>5, <1>8
<1>9. CASE nd.type = "FUNC_DEF"
  <2>1. Added(p, n) = Over(Listed(m, ParamNames(nd)), Introduces(p.nodes, m))
    BY <1>1, <1>9 DEF Added
  <2> QED BY <2>1, <1>2, <1>3, <1>4, <1>9
<1>10. CASE nd.type = "FOR" /\ n # nd.init
  <2>1. Added(p, n) = Introduces(p.nodes, nd.init)
    BY <1>1, <1>10 DEF Added
  <2> QED BY <2>1, <1>2, <1>3, <1>4, <1>10
<1>11. CASE nd.type = "COMP_STMT"
  <2>1. Added(p, n) = Before(p.nodes, nd.stmts, n)
    BY <1>1, <1>11 DEF Added
  <2> QED BY <2>1, <1>2, <1>3, <1>4, <1>11
<1> QED BY <1>7, <1>8, <1>9, <1>10, <1>11

(* What the first i - 1 nodes of a list declare, as Before has it.         *)
Declarers(ns, list, i, x) == {j \in 1 .. (i - 1) : x \in DOMAIN Introduces(ns, list[j])}
Upto(ns, list, i) ==
    [x \in UNION {DOMAIN Introduces(ns, list[j]) : j \in 1 .. (i - 1)} |->
        Introduces(ns, list[Max(Declarers(ns, list, i, x))])[x]]

LEMMA BeforeIsUpto ==
    ASSUME NEW ns, NEW list \in Seq(Nat), Rising(list), NEW i \in 1 .. Len(list)
    PROVE  Before(ns, list, list[i]) = Upto(ns, list, i)
<1>1. \A j \in DOMAIN list : list[j] = list[i] => j = i
  <2>1. ASSUME NEW j \in DOMAIN list, list[j] = list[i], j # i PROVE FALSE
    <3>1. j \in Nat /\ i \in Nat /\ i \in DOMAIN list /\ list[i] \in Nat /\ list[j] \in Nat
      OBVIOUS
    <3>2. j < i \/ i < j
      BY <2>1, <3>1
    <3>3. list[j] < list[i] \/ list[i] < list[j]
      BY <3>1, <3>2 DEF Rising
    <3> QED BY <2>1, <3>1, <3>3
  <2> QED BY <2>1
<1>2. i \in DOMAIN list
  OBVIOUS
<1> DEFINE at == CHOOSE j \in DOMAIN list : list[j] = list[i]
<1>3. at = i
  BY <1>1, <1>2
<1>4. Before(ns, list, list[i]) = Upto(ns, list, at)
  BY DEF Before, Upto, Declarers
<1> HIDE DEF at
<1> QED BY <1>3, <1>4

LEMMA BeforeFirst ==
    ASSUME NEW ns, NEW list \in Seq(Nat), Rising(list), list # <<>>
    PROVE  DOMAIN Before(ns, list, list[1]) = {}
<1>1. 1 \in 1 .. Len(list) /\ 1 .. (1 - 1) = {}
  OBVIOUS
<1>2. Before(ns, list, list[1]) = Upto(ns, list, 1)
  BY <1>1, BeforeIsUpto
<1> QED BY <1>1, <1>2 DEF Upto

LEMMA BeforeNext ==
    ASSUME NEW ns, NEW list \in Seq(Nat), Rising(list), NEW i \in 1 .. (Len(list) - 1)
    PROVE  Same(Before(ns, list, list[i + 1]),
                Over(Introduces(ns, list[i]), Before(ns, list, list[i])))
<1> DEFINE f(j) == Introduces(ns, list[j])
           e == Upto(ns, list, i)
           g == Upto(ns, list, i + 1)
<1>1. i \in 1 .. Len(list) /\ i + 1 \in 1 .. Len(list) /\ i \in Nat /\ i + 1 - 1 = i
  OBVIOUS
<1>2. Before(ns, list, list[i]) = e /\ Before(ns, list, list[i + 1]) = g
  BY <1>1, BeforeIsUpto
<1>3. 1 .. i = 1 .. (i - 1) \cup {i}
  BY <1>1
<1>4. /\ DOMAIN e = UNION {DOMAIN f(j) : j \in 1 .. (i - 1)}
      /\ DOMAIN g = UNION {DOMAIN f(j) : j \in 1 .. i}
  BY <1>1 DEF Upto
<1>5. DOMAIN g = DOMAIN f(i) \cup DOMAIN e
  <2> HIDE DEF f, e, g
  <2> QED BY <1>3, <1>4
<1>6. ASSUME NEW x \in DOMAIN f(i) PROVE g[x] = f(i)[x]
  <2> DEFINE B == Declarers(ns, list, i + 1, x)
  <2>1. B \subseteq 1 .. i /\ i \in B
    BY <1>1, <1>6 DEF Declarers
  <2>2. \A j \in B : j <= i
    BY <2>1
  <2>3. Max(B) = i
    <3> HIDE DEF B
    <3>1. Max(B) \in B
      BY <1>1, <2>1, GreatestElement
    <3>2. \A k \in B : Max(B) >= k
      <4>1. \E j \in B : \A k \in B : k <= j
        BY <1>1, <2>1, LastPosition
      <4> QED BY <4>1, <2>1 DEF Max
    <3>3. PICK top : top = Max(B)
      OBVIOUS
    <3>4. top \in 1 .. i /\ top >= i /\ i \in Nat
      BY <1>1, <2>1, <3>1, <3>2, <3>3
    <3> QED BY <3>3, <3>4
  <2>4. x \in DOMAIN g
    BY <1>5
  <2>5. g[x] = f(Max(B))[x]
    BY <2>4 DEF Upto
  <2> QED BY <2>3, <2>5
<1>7. ASSUME NEW x \in DOMAIN e, x \notin DOMAIN f(i) PROVE g[x] = e[x]
  <2>1. Declarers(ns, list, i + 1, x) = Declarers(ns, list, i, x)
    BY <1>1, <1>3, <1>7 DEF Declarers
  <2>2. x \in DOMAIN g
    BY <1>5
  <2> QED BY <2>1, <2>2 DEF Upto
<1> HIDE DEF f, e, g
<1>8. \A x \in DOMAIN Over(f(i), e) : Over(f(i), e)[x] = IF x \in DOMAIN f(i) THEN f(i)[x] ELSE e[x]
  BY DEF Over
<1>9. DOMAIN Over(f(i), e) = DOMAIN f(i) \cup DOMAIN e
  BY DEF Over
<1>10. Same(g, Over(f(i), e))
  BY <1>5, <1>6, <1>7, <1>8, <1>9 DEF Same, Within
<1> QED BY <1>2, <1>10 DEF f

-----------------------------------------------------------------------------
(* What is visible on the agenda after a step.                             *)

LEMMA ListAlgebra ==
    ASSUME NEW s, IsList(s)
    PROVE  /\ <<>> \o s = s
           /\ \A q : IsList(q) => (q \o <<Leave>>) \o s = q \o (<<Leave>> \o s)
<1>1. PICK S : s \in Seq(S)
  BY DEF IsList
<1>2. <<>> \o s = s
  BY <1>1, ConcatEmptySeq
<1>3. ASSUME NEW q, IsList(q) PROVE (q \o <<Leave>>) \o s = q \o (<<Leave>> \o s)
  <2>1. PICK T : q \in Seq(T)
    BY <1>3 DEF IsList
  <2> DEFINE U == (S \cup T) \cup {Leave}
             l == <<Leave>>
  <2>2. q \in Seq(U) /\ s \in Seq(U) /\ l \in Seq(U)
    BY <1>1, <2>1
  <2> HIDE DEF U, l
  <2>3. (q \o l) \o s = q \o (l \o s)
    BY <2>2, ConcatAssociative, SMTT(30)
  <2> QED BY <2>3 DEF l
<1> QED BY <1>2, <1>3

(* A step that takes an item which leaves no scope, puts others in front   *)
(* and changes no scope but the innermost.                                 *)
LEMMA LaidOnward ==
    ASSUME NEW p, NEW made, NEW t, IsList(t), t # <<>>, t[1].act # "leave", NEW n, NEW chain,
           LaidOn(p, made, t, n, chain), NEW q, Row(p, q), NEW more, NEW next,
           \A j \in 1 .. (n - 1) : \A e : Shows(made, e, chain[j]) => Shows(more, e, next[j]),
           q # <<>> => /\ Shows(more, View(p, q[1]), next[n])
                       /\ Within(Behind(p, t[1]), Behind(p, q[Len(q)])),
           q = <<>> => Shows(more, Behind(p, t[1]), next[n])
    PROVE  LaidOn(p, more, q \o Tail(t), n, next) /\ Opens(p, more, q \o Tail(t), next[n])
<1> DEFINE r == Tail(t)
<1>1. /\ IsList(r) /\ n \in Nat \ {0} /\ LaidOn(p, made, r, n, chain)
      /\ r # <<>> /\ r[1].act # "leave" => Within(View(p, r[1]), Behind(p, t[1]))
  BY LaidTail
<1> HIDE DEF r
<1>2. LaidOn(p, more, r, n, next)
  BY <1>1, LaidMoved
<1>3. CASE q = <<>>
  <2>1. q \o r = r
    BY <1>1, <1>3, ListAlgebra
  <2>2. Opens(p, more, r, next[n])
    BY <1>1, <1>3, WithinFacts DEF Opens
  <2> QED BY <1>2, <2>1, <2>2 DEF r
<1>4. CASE q # <<>>
  <2>1. r # <<>> /\ r[1].act # "leave" => Within(View(p, r[1]), Behind(p, q[Len(q)]))
    BY <1>1, <1>4, WithinFacts
  <2>2. LaidOn(p, more, q \o r, n, next)
    BY <1>1, <1>2, <1>4, <2>1, LaidInFront
  <2>3. (q \o r)[1] = q[1]
    <3>1. IsList(q) /\ \A i \in 1 .. Len(q) : (q \o r)[i] = q[i]
      <4>1. IsList(q)
        BY DEF Row
      <4> QED BY <4>1, <1>1, JoinedLists
    <3>2. 1 \in 1 .. Len(q)
      <4>1. Len(q) \in Nat \ {0}
        BY <3>1, <1>4, ListFacts
      <4> QED BY <4>1
    <3> QED BY <3>1, <3>2
  <2> QED BY <1>4, <2>2, <2>3 DEF Opens, r
<1> QED BY <1>3, <1>4

(* A step that opens a scope for the items it puts in front.               *)
LEMMA LaidInside ==
    ASSUME NEW p, NEW made, NEW t, IsList(t), t # <<>>, t[1].act # "leave", NEW n, NEW chain,
           LaidOn(p, made, t, n, chain), NEW q, Row(p, q), NEW next,
           \A j \in 1 .. n : next[j] = chain[j],
           Shows(made, Behind(p, t[1]), chain[n]),
           q # <<>> => Shows(made, View(p, q[1]), next[n + 1])
    PROVE  /\ LaidOn(p, made, (q \o <<Leave>>) \o Tail(t), n + 1, next)
           /\ Opens(p, made, (q \o <<Leave>>) \o Tail(t), next[n + 1])
<1> DEFINE r == Tail(t)
           u == <<Leave>> \o r
<1>1. /\ IsList(r) /\ n \in Nat \ {0} /\ LaidOn(p, made, r, n, chain)
      /\ r # <<>> /\ r[1].act # "leave" => Within(View(p, r[1]), Behind(p, t[1]))
  BY LaidTail
<1>2. IsList(q) /\ (q \o <<Leave>>) \o r = q \o u
  <2>1. IsList(q)
    BY DEF Row
  <2> QED BY <2>1, <1>1, ListAlgebra
<1> HIDE DEF r
<1>3. Opens(p, made, r, chain[n])
  BY <1>1, WithinFacts DEF Opens
<1>4. /\ IsList(u) /\ LaidOn(p, made, u, n + 1, chain) /\ u # <<>> /\ u[1].act = "leave"
  <2>1. /\ IsList(u) /\ LaidOn(p, made, u, n + 1, chain) /\ u # <<>> /\ u[1] = Leave
    BY <1>1, <1>3, LaidLeave
  <2> QED BY <2>1 DEF Leave
<1> HIDE DEF u
<1>5. LaidOn(p, made, u, n + 1, next)
  <2>1. PICK h : h = n + 1
    OBVIOUS
  <2>2. \A j \in 1 .. (h - 1) : \A e : Shows(made, e, chain[j]) => Shows(made, e, next[j])
    <3>1. 1 .. (h - 1) = 1 .. n
      BY <1>1, <2>1
    <3> QED BY <3>1
  <2>3. IsList(u) /\ LaidOn(p, made, u, h, chain)
    BY <1>4, <2>1
  <2>4. LaidOn(p, made, u, h, next)
    BY ONLY <2>2, <2>3, LaidMoved
  <2> QED BY <2>1, <2>4
<1>6. CASE q = <<>>
  <2>1. q \o u = u
    BY <1>4, <1>6, ListAlgebra
  <2> QED BY <1>2, <1>4, <1>5, <2>1 DEF Opens, r
<1>7. CASE q # <<>>
  <2>1. LaidOn(p, made, q \o u, n + 1, next)
    BY <1>4, <1>5, <1>7, LaidInFront
  <2>2. (q \o u)[1] = q[1]
    <3>1. \A i \in 1 .. Len(q) : (q \o u)[i] = q[i]
      BY <1>2, <1>4, JoinedLists
    <3>2. 1 \in 1 .. Len(q)
      <4>1. Len(q) \in Nat \ {0}
        BY <1>2, <1>7, ListFacts
      <4> QED BY <4>1
    <3> QED BY <3>1, <3>2
  <2> QED BY <1>2, <1>7, <2>1, <2>2 DEF Opens, r
<1> QED BY <1>6, <1>7

-----------------------------------------------------------------------------
(* What C sees is in scope.                                                *)

(* While the symbols of a program are checked, what C sees where an item   *)
(* is met will be in the scope it is met in.                               *)
SeesLikeC ==
    verdict = "symbols" /\ LikeC => /\ LaidOn(prog, syms, todo, Len(scopes), scopes)
                                    /\ Opens(prog, syms, todo, scopes[Len(scopes)])

(* The item in front, as the invariants have it.                           *)
LEMMA SeenFacts ==
    ASSUME Inv, SeesLikeC, verdict = "symbols", todo # <<>>
    PROVE  /\ IsList(todo) /\ Head1 = todo[1] /\ ProgramOK(prog)
           /\ IsList(scopes) /\ Len(scopes) \in Nat \ {0} /\ Scope = scopes[Len(scopes)]
           /\ DOMAIN scopes = 1 .. Len(scopes)
           /\ LikeC => /\ ~Misplaced(prog) /\ ParamsApart(prog)
                       /\ LaidOn(prog, syms, todo, Len(scopes), scopes)
                       /\ Head1.act # "leave" => Shows(syms, View(prog, Head1), Scope)
<1>1. IsList(todo) /\ Head1 = todo[1]
  <2>1. todo \in Seq(Items(prog.nodes))
    BY DEF Inv
  <2>2. Head1 = todo[1]
    BY <2>1 DEF Head1
  <2> QED BY <2>1, <2>2 DEF IsList
<1>2. ProgramOK(prog)
  BY SemaAssumption DEF Inv
<1>3. IsList(scopes) /\ Len(scopes) \in Nat \ {0} /\ DOMAIN scopes = 1 .. Len(scopes)
  BY HeadFacts DEF Inv, ChainOK
<1>4. Scope = scopes[Len(scopes)]
  BY DEF Scope, Last
<1> QED BY <1>1, <1>2, <1>3, <1>4 DEF SeesLikeC, LikeC, Opens

(* Symbols are made, the old ones stay, and the innermost scope is         *)
(* replaced.                                                               *)
LEMMA DeclareSees ==
    ASSUME Inv, SeesLikeC, verdict = "symbols", todo # <<>>, Head1.act # "leave",
           UNCHANGED prog, \A s \in DOMAIN syms : syms'[s] = syms[s],
           NEW table, scopes' = Append(Front(scopes), table),
           NEW q, IsList(q), Visit(q),
           LikeC => /\ Row(prog, q)
                    /\ q # <<>> => /\ Shows(syms', View(prog, q[1]), table)
                                   /\ Within(Behind(prog, Head1), Behind(prog, q[Len(q)]))
                    /\ q = <<>> => Shows(syms', Behind(prog, Head1), table)
    PROVE  SeesLikeC'
<1> SUFFICES ASSUME LikeC
             PROVE  /\ LaidOn(prog, syms', todo', Len(scopes'), scopes')
                    /\ Opens(prog, syms', todo', scopes'[Len(scopes')])
  BY DEF SeesLikeC, LikeC
<1>1. /\ IsList(todo) /\ Head1 = todo[1] /\ IsList(scopes) /\ Len(scopes) \in Nat \ {0}
      /\ DOMAIN scopes = 1 .. Len(scopes) /\ LaidOn(prog, syms, todo, Len(scopes), scopes)
  BY SeenFacts
<1>2. /\ Len(scopes') = Len(scopes) /\ scopes'[Len(scopes)] = table
      /\ \A i \in 1 .. (Len(scopes) - 1) : scopes'[i] = scopes[i]
  <2> DEFINE f == Front(scopes)
  <2>1. scopes # <<>>
    BY <1>1
  <2>2. IsList(f) /\ Len(f) = Len(scopes) - 1 /\ \A i \in 1 .. (Len(scopes) - 1) : f[i] = scopes[i]
    BY <1>1, <2>1, FrontFacts
  <2> HIDE DEF f
  <2>3. /\ IsList(Append(f, table)) /\ Len(Append(f, table)) = Len(f) + 1
        /\ \A i \in 1 .. Len(f) : Append(f, table)[i] = f[i]
        /\ Append(f, table)[Len(f) + 1] = table
    BY <2>2, AppendFacts
  <2>4. scopes' = Append(f, table)
    BY DEF f
  <2>5. Len(f) + 1 = Len(scopes)
    BY <1>1, <2>2
  <2> QED BY <2>2, <2>3, <2>4, <2>5
<1>3. \A j \in 1 .. (Len(scopes) - 1) : \A e :
        Shows(syms, e, scopes[j]) => Shows(syms', e, scopes'[j])
  <2>1. ASSUME NEW j \in 1 .. (Len(scopes) - 1), NEW e, Shows(syms, e, scopes[j])
        PROVE  Shows(syms', e, scopes'[j])
    <3>1. j \in DOMAIN scopes /\ scopes'[j] = scopes[j]
      BY <1>1, <1>2
    <3>2. TableOK(scopes[j], DOMAIN syms)
      BY <3>1 DEF Inv, ChainOK
    <3> QED BY <2>1, <3>1, <3>2 DEF Shows, TableOK
  <2> QED BY <2>1
<1>4. todo' = q \o Tail(todo)
  BY DEF Visit
<1>5. PICK n : n = Len(scopes)
  OBVIOUS
<1>6. LaidOn(prog, syms', q \o Tail(todo), n, scopes') /\ Opens(prog, syms', q \o Tail(todo), scopes'[n])
  BY <1>1, <1>2, <1>3, <1>5, LaidOnward
<1> QED BY <1>2, <1>4, <1>5, <1>6

(* Nothing is declared.                                                    *)
LEMMA QuietSees ==
    ASSUME Inv, SeesLikeC, verdict = "symbols", todo # <<>>, Head1.act # "leave",
           UNCHANGED <<prog, syms, scopes>>,
           NEW q, IsList(q), Visit(q),
           LikeC => /\ Row(prog, q)
                    /\ q # <<>> => /\ Within(View(prog, q[1]), View(prog, Head1))
                                   /\ Within(Behind(prog, Head1), Behind(prog, q[Len(q)]))
                    /\ q = <<>> => Within(Behind(prog, Head1), View(prog, Head1))
    PROVE  SeesLikeC'
<1> SUFFICES ASSUME LikeC
             PROVE  /\ LaidOn(prog, syms, todo', Len(scopes), scopes)
                    /\ Opens(prog, syms, todo', scopes[Len(scopes)])
  BY DEF SeesLikeC, LikeC
<1>1. /\ IsList(todo) /\ Head1 = todo[1]
      /\ LaidOn(prog, syms, todo, Len(scopes), scopes)
      /\ Shows(syms, View(prog, Head1), scopes[Len(scopes)])
  BY SeenFacts
<1>2. todo' = q \o Tail(todo)
  BY DEF Visit
<1>3. /\ q # <<>> => Shows(syms, View(prog, q[1]), scopes[Len(scopes)])
      /\ q = <<>> => Shows(syms, Behind(prog, Head1), scopes[Len(scopes)])
  BY <1>1, WithinFacts
<1>4. PICK n : n = Len(scopes)
  OBVIOUS
<1>5. LaidOn(prog, syms, q \o Tail(todo), n, scopes) /\ Opens(prog, syms, q \o Tail(todo), scopes[n])
  BY <1>1, <1>3, <1>4, LaidOnward
<1> QED BY <1>2, <1>4, <1>5

(* A scope is opened.                                                      *)
LEMMA BlockSees ==
    ASSUME Inv, SeesLikeC, verdict = "symbols", todo # <<>>, Head1.act # "leave", EnterScope,
           UNCHANGED <<prog, syms>>,
           NEW q, IsList(q), Visit(q \o <<Leave>>),
           LikeC => /\ Row(prog, q)
                    /\ q # <<>> => Within(View(prog, q[1]), View(prog, Head1))
                    /\ Within(Behind(prog, Head1), View(prog, Head1))
    PROVE  SeesLikeC'
<1> SUFFICES ASSUME LikeC
             PROVE  /\ LaidOn(prog, syms, todo', Len(scopes'), scopes')
                    /\ Opens(prog, syms, todo', scopes'[Len(scopes')])
  BY DEF SeesLikeC, LikeC
<1>1. /\ IsList(todo) /\ Head1 = todo[1] /\ IsList(scopes) /\ Len(scopes) \in Nat \ {0}
      /\ LaidOn(prog, syms, todo, Len(scopes), scopes) /\ Scope = scopes[Len(scopes)]
      /\ Shows(syms, View(prog, Head1), Scope)
  BY SeenFacts
<1>2. /\ Len(scopes') = Len(scopes) + 1 /\ scopes'[Len(scopes) + 1] = Scope
      /\ \A i \in 1 .. Len(scopes) : scopes'[i] = scopes[i]
  BY <1>1, AppendFacts DEF EnterScope
<1>3. /\ q # <<>> => Shows(syms, View(prog, q[1]), Scope)
      /\ Shows(syms, Behind(prog, Head1), Scope)
  BY <1>1, WithinFacts
<1>4. todo' = (q \o <<Leave>>) \o Tail(todo)
  BY DEF Visit
<1>5. PICK n : n = Len(scopes)
  OBVIOUS
<1>6. /\ LaidOn(prog, syms, (q \o <<Leave>>) \o Tail(todo), n + 1, scopes')
      /\ Opens(prog, syms, (q \o <<Leave>>) \o Tail(todo), scopes'[n + 1])
  BY <1>1, <1>2, <1>3, <1>5, LaidInside
<1> QED BY <1>2, <1>4, <1>5, <1>6

(* A scope is closed.                                                      *)
LEMMA LeaveSees ==
    ASSUME Inv, SeesLikeC, LeaveScope
    PROVE  SeesLikeC'
<1>1. /\ verdict = "symbols" /\ todo # <<>> /\ Head1.act = "leave" /\ Visit(<<>>)
      /\ scopes' = Front(scopes) /\ UNCHANGED <<prog, syms, verdict>>
  BY DEF LeaveScope, At
<1> SUFFICES ASSUME LikeC
             PROVE  /\ LaidOn(prog, syms, todo', Len(scopes'), scopes')
                    /\ Opens(prog, syms, todo', scopes'[Len(scopes')])
  BY <1>1 DEF SeesLikeC, LikeC
<1>2. /\ IsList(todo) /\ Head1 = todo[1] /\ IsList(scopes) /\ Len(scopes) \in Nat \ {0}
      /\ LaidOn(prog, syms, todo, Len(scopes), scopes)
  BY <1>1, SeenFacts
<1>3. Len(scopes') = Len(scopes) - 1 /\ \A i \in 1 .. (Len(scopes) - 1) : scopes'[i] = scopes[i]
  <2>1. scopes # <<>>
    BY <1>2
  <2> QED BY <1>1, <1>2, <2>1, FrontFacts
<1>4. PICK n : n = Len(scopes)
  OBVIOUS
<1>5. /\ IsList(Tail(todo)) /\ LaidOn(prog, syms, Tail(todo), n - 1, scopes)
      /\ n - 1 \in Nat \ {0} /\ Opens(prog, syms, Tail(todo), scopes[n - 1])
  BY <1>1, <1>2, <1>4, LaidTail
<1>6. todo' = Tail(todo)
  <2>1. <<>> \o Tail(todo) = Tail(todo)
    BY <1>5, ListAlgebra
  <2> QED BY <1>1, <2>1 DEF Visit
<1>7. n - 1 \in 1 .. (n - 1) /\ \A j \in 1 .. (n - 1 - 1) : j \in 1 .. (n - 1)
  <2>1. n \in Nat
    BY <1>2, <1>4
  <2> QED BY <1>5, <2>1
<1>8. LaidOn(prog, syms, Tail(todo), n - 1, scopes')
  <2>1. \A j \in 1 .. (n - 1 - 1) : \A e : Shows(syms, e, scopes[j]) => Shows(syms, e, scopes'[j])
    BY <1>3, <1>4, <1>7
  <2> QED BY <1>5, <2>1, LaidMoved
<1>9. scopes'[n - 1] = scopes[n - 1]
  BY <1>3, <1>4, <1>7
<1> QED BY <1>3, <1>4, <1>5, <1>6, <1>8, <1>9

-----------------------------------------------------------------------------
(* The items a case puts in front.                                         *)

(* A part that may declare nothing shows behind it what it sees.           *)
LEMMA BehindPart ==
    ASSUME NEW p, NEW n, p.nodes[n].type \notin Declaring
    PROVE  /\ View(p, Check(n)) = Visible(p)[n]
           /\ Same(Behind(p, Check(n)), Visible(p)[n])
<1>1. View(p, Check(n)) = Visible(p)[n] /\ Check(n).node = n
  BY DEF View, Check
<1>2. DOMAIN Introduces(p.nodes, n) = {}
  BY NoneIntroduced
<1> QED BY <1>1, <1>2, OverFacts DEF Behind

LEMMA PlacedPart ==
    ASSUME NEW p, ProgramOK(p), ~Misplaced(p), NEW m \in DOMAIN p.nodes,
           NEW n \in Children(p.nodes[m]), p.nodes[m].type # "COMP_STMT",
           p.nodes[m].type = "FOR" => n # p.nodes[m].init
    PROVE  p.nodes[n].type \notin Declaring
<1>1. p.nodes[n].type # "FUNC_DEF"
  BY ParentFacts
<1>2. p.nodes[n].type \notin Declarations
  BY DEF Misplaced
<1> QED BY <1>1, <1>2 DEF Declaring

(* The checks of a list of nodes.                                          *)
LEMMA ChecksList ==
    ASSUME NEW ns, IsList(ns)
    PROVE  /\ IsList(Checks(ns)) /\ Len(Checks(ns)) = Len(ns) /\ Len(ns) \in Nat
           /\ \A i \in 1 .. Len(ns) : Checks(ns)[i] = Check(ns[i])
           /\ Checks(ns) # <<>> => /\ Len(ns) \in Nat \ {0} /\ 1 \in 1 .. Len(ns)
                                   /\ Checks(ns)[1] = Check(ns[1])
                                   /\ Checks(ns)[Len(Checks(ns))] = Check(ns[Len(ns)])
<1>1. PICK c, l : c = Checks(ns) /\ l = Len(ns)
  OBVIOUS
<1>2. l \in Nat /\ DOMAIN ns = 1 .. l
  BY <1>1, ListFacts
<1>3. c = [i \in 1 .. l |-> Check(ns[i])]
  BY <1>1 DEF Checks
<1>4. IsList(c) /\ Len(c) = l
  <2>1. c = [i \in 1 .. l |-> c[i]]
    BY <1>3
  <2> QED BY <1>2, <2>1, ListOf
<1>5. \A i \in 1 .. l : c[i] = Check(ns[i])
  BY <1>3
<1>6. c # <<>> => l \in Nat \ {0} /\ 1 \in 1 .. l /\ c[1] = Check(ns[1]) /\ c[Len(c)] = Check(ns[l])
  <2>1. ASSUME c # <<>> PROVE l \in Nat \ {0}
    BY <1>4, <2>1, ListFacts
  <2>2. l \in Nat \ {0} => 1 \in 1 .. l /\ l \in 1 .. l
    OBVIOUS
  <2> QED BY <2>1, <2>2, <1>4, <1>5
<1> QED BY <1>1, <1>2, <1>4, <1>5, <1>6

(* Parts that all see the same and declare nothing.                        *)
LEMMA ChecksRow ==
    ASSUME NEW p, NEW ns, IsList(ns), NEW e,
           \A i \in 1 .. Len(ns) : /\ p.nodes[ns[i]].type \notin Declaring
                                   /\ Same(Visible(p)[ns[i]], e)
    PROVE  /\ Row(p, Checks(ns))
           /\ Checks(ns) # <<>> => /\ Within(View(p, Checks(ns)[1]), e)
                                   /\ Within(e, Behind(p, Checks(ns)[Len(Checks(ns))]))
<1>1. PICK c, l : c = Checks(ns) /\ l = Len(ns)
  OBVIOUS
<1>2. /\ IsList(c) /\ Len(c) = l /\ l \in Nat /\ \A i \in 1 .. l : c[i] = Check(ns[i])
      /\ c # <<>> => l \in Nat \ {0} /\ 1 \in 1 .. l
  BY <1>1, ChecksList
<1>3. ASSUME NEW i \in 1 .. l
      PROVE  /\ c[i].act # "leave"
             /\ Within(View(p, c[i]), e) /\ Within(e, Behind(p, c[i]))
  <2>1. c[i] = Check(ns[i])
    BY <1>2
  <2>2. c[i].act # "leave"
    BY <2>1 DEF Check
  <2>3. Same(Visible(p)[ns[i]], e) /\ p.nodes[ns[i]].type \notin Declaring
    BY <1>1
  <2>4. View(p, Check(ns[i])) = Visible(p)[ns[i]] /\ Same(Behind(p, Check(ns[i])), Visible(p)[ns[i]])
    BY <2>3, BehindPart
  <2> QED BY <2>1, <2>2, <2>3, <2>4, WithinFacts DEF Same
<1>4. ASSUME NEW i \in 1 .. (l - 1) PROVE Within(View(p, c[i + 1]), Behind(p, c[i]))
  <2>1. i \in 1 .. l /\ i + 1 \in 1 .. l
    BY <1>2
  <2> QED BY <2>1, <1>3, WithinFacts
<1>5. Row(p, c)
  BY <1>2, <1>3, <1>4 DEF Row
<1>6. c # <<>> => 1 \in 1 .. l /\ l \in 1 .. l
  BY <1>2
<1> QED BY <1>1, <1>2, <1>3, <1>5, <1>6

(* The cases that only recurse, calls and returns: the parts see what the  *)
(* node sees.                                                              *)
Transparent == {"IF", "BIN_EXP", "VAR_ASGN", "WHILE", "EXPR_STMT", "UNARY_EXPR", "LVAL",
                "INT_CONST", "EMPTY_EXPR", "IDENT", "FUNC_CALL", "RET"}
LEMMA TransparentRow ==
    ASSUME NEW p, ProgramOK(p), ~Misplaced(p), NEW m \in DOMAIN p.nodes,
           p.nodes[m].type \in Transparent, NEW ns, IsList(ns),
           \A i \in 1 .. Len(ns) : ns[i] \in Children(p.nodes[m])
    PROVE  /\ Row(p, Checks(ns))
           /\ Checks(ns) # <<>> =>
                /\ Within(View(p, Checks(ns)[1]), View(p, Check(m)))
                /\ Within(Behind(p, Check(m)), Behind(p, Checks(ns)[Len(Checks(ns))]))
           /\ Within(Behind(p, Check(m)), View(p, Check(m)))
<1>1. p.nodes[m].type \notin Declaring \cup {"COMP_STMT", "FOR"}
  BY DEF Transparent, Declaring, Declarations
<1>2. /\ View(p, Check(m)) = Visible(p)[m] /\ Same(Behind(p, Check(m)), Visible(p)[m])
  BY <1>1, BehindPart
<1>3. ASSUME NEW i \in 1 .. Len(ns)
      PROVE  p.nodes[ns[i]].type \notin Declaring /\ Same(Visible(p)[ns[i]], Visible(p)[m])
  <2>1. ns[i] \in Children(p.nodes[m])
    OBVIOUS
  <2>2. p.nodes[m].type \notin {"FUNC_DEF", "COMP_STMT", "FOR", "VAR_DEF"}
    BY DEF Transparent
  <2>3. p.nodes[ns[i]].type \notin Declaring
    BY <2>1, <1>1, PlacedPart
  <2> QED BY <2>1, <2>2, <2>3, PartView
<1>4. PICK e : e = Visible(p)[m]
  OBVIOUS
<1>5. /\ Row(p, Checks(ns))
      /\ Checks(ns) # <<>> => /\ Within(View(p, Checks(ns)[1]), e)
                              /\ Within(e, Behind(p, Checks(ns)[Len(Checks(ns))]))
  BY <1>3, <1>4, ChecksRow
<1> QED BY <1>2, <1>4, <1>5, WithinFacts DEF Same

(* What Parts lists.                                                       *)
Distinct(ns) == \A i, j \in 1 .. Len(ns) : ns[i] = ns[j] => i = j
Lists(ns, S) == IsList(ns) /\ Distinct(ns) /\ \A i \in 1 .. Len(ns) : ns[i] \in S

LEMMA ShortLists ==
    /\ \A S : Lists(<<>>, S)
    /\ \A S : \A x \in S : Lists(<<x>>, S)
    /\ \A S : \A x, y \in S : x # y => Lists(<<x, y>>, S)
    /\ \A S : \A x, y, z \in S : x # y /\ x # z /\ y # z => Lists(<<x, y, z>>, S)
<1>1. \A S : Lists(<<>>, S)
  <2>1. Len(<<>>) = 0 /\ 1 .. 0 = {}
    OBVIOUS
  <2> QED BY <2>1, ListFacts DEF Lists, Distinct
<1>2. ASSUME NEW S, NEW x \in S PROVE Lists(<<x>>, S)
  <2>1. Len(<<x>>) = 1 /\ <<x>>[1] = x /\ 1 .. 1 = {1}
    OBVIOUS
  <2> QED BY <2>1, ListFacts DEF Lists, Distinct
<1>3. ASSUME NEW S, NEW x \in S, NEW y \in S, x # y PROVE Lists(<<x, y>>, S)
  <2> DEFINE s == <<x, y>>
  <2>1. s \in Seq(S) /\ Len(s) = 2 /\ s[1] = x /\ s[2] = y /\ 1 .. 2 = {1, 2}
    OBVIOUS
  <2> HIDE DEF s
  <2>2. Lists(s, S)
    BY <1>3, <2>1 DEF Lists, Distinct, IsList
  <2> QED BY <2>2 DEF s
<1>4. ASSUME NEW S, NEW x \in S, NEW y \in S, NEW z \in S, x # y, x # z, y # z
      PROVE  Lists(<<x, y, z>>, S)
  <2> DEFINE s == <<x, y, z>>
  <2>1. s \in Seq(S) /\ Len(s) = 3 /\ s[1] = x /\ s[2] = y /\ s[3] = z /\ 1 .. 3 = {1, 2, 3}
    OBVIOUS
  <2> HIDE DEF s
  <2>2. Lists(s, S)
    BY <1>4, <2>1 DEF Lists, Distinct, IsList
  <2> QED BY <2>2 DEF s
<1> QED BY <1>1, <1>2, <1>3, <1>4

(* A list that rises is one without repetitions.                           *)
LEMMA RisingDistinct ==
    ASSUME NEW list \in Seq(Nat), Rising(list)
    PROVE  Distinct(list)
<1>1. ASSUME NEW i \in 1 .. Len(list), NEW j \in 1 .. Len(list), list[i] = list[j], i # j
      PROVE  FALSE
  <2>1. /\ i \in Nat /\ j \in Nat /\ list[i] \in Nat /\ list[j] \in Nat
        /\ i \in DOMAIN list /\ j \in DOMAIN list
    OBVIOUS
  <2>2. i < j \/ j < i
    BY <1>1, <2>1
  <2>3. list[i] < list[j] \/ list[j] < list[i]
    BY <2>1, <2>2 DEF Rising
  <2> QED BY <1>1, <2>1, <2>3
<1> QED BY <1>1 DEF Distinct

(* A list of two and one of one make a list of three.                      *)
LEMMA ThreeParts ==
    ASSUME NEW x, NEW y, NEW z
    PROVE  <<x, y>> \o <<z>> = <<x, y, z>>
<1>1. PICK S : S = {x, y, z}
  OBVIOUS
<1>2. PICK s, t, u, v : s = <<x, y>> /\ t = <<x, y, z>> /\ u = <<z>> /\ v = s \o u
  OBVIOUS
<1>3. s \in Seq(S) /\ Len(s) = 2 /\ s[1] = x /\ s[2] = y /\ u \in Seq(S) /\ Len(u) = 1 /\ u[1] = z
  BY <1>1, <1>2
<1>4. t \in Seq(S) /\ Len(t) = 3 /\ t[1] = x /\ t[2] = y /\ t[3] = z
  BY <1>1, <1>2
<1>5. v \in Seq(S) /\ Len(v) = 3 /\ v[1] = x /\ v[2] = y /\ v[3] = z
  BY <1>2, <1>3
<1>6. 1 .. 3 = {1, 2, 3}
  OBVIOUS
<1>7. \A i \in 1 .. Len(v) : v[i] = t[i]
  BY <1>4, <1>5, <1>6
<1>8. v = t
  BY ONLY <1>4, <1>5, <1>7, SeqEqual
<1> QED BY <1>2, <1>8

(* The parts of a node that is checked by its parts.                       *)
LEMMA PartsAre ==
    ASSUME Inv, At("check"),
           Node.type \in {"IF", "BIN_EXP", "VAR_ASGN", "WHILE", "EXPR_STMT", "UNARY_EXPR",
                          "LVAL", "INT_CONST", "EMPTY_EXPR"}
    PROVE  Lists(Parts, Children(Node))
<1> DEFINE Kids == {k \in 1 .. (Head1.node - 1) : prog.nodes[k].type # "FUNC_DEF"}
<1>1. NodeOK(prog.nodes, Head1.node) /\ PartsRise(Node)
  <2>1. Head1.node \in DOMAIN prog.nodes /\ ProgramOK(prog)
    BY CheckedNode, SemaAssumption DEF Inv
  <2> QED BY <2>1, CheckedNode DEF ProgramOK, NoneShared, Node
<1>2. Kids \subseteq Nat \ {0}
  OBVIOUS
<1>3. CASE Node.type = "IF"
  <2>1. /\ Node.if_expr \in Kids /\ Node.if_body \in Kids /\ Node.else_body \in Kids \cup {NULL}
        /\ Node.if_expr < Node.if_body
        /\ Node.else_body # NULL => Node.if_body < Node.else_body
    BY <1>1, <1>3 DEF NodeOK, Node, PartsRise
  <2> DEFINE x == Node.if_body
             y == Node.if_expr
             z == Node.else_body
  <2>2. Parts = <<x, y>> \o (IF z = NULL THEN <<>> ELSE <<z>>)
    BY <1>3 DEF Parts
  <2>3. Children(Node) = {x, y, z} \ {NULL}
    BY <1>3 DEF Children
  <2>4. x \in Nat \ {0} /\ y \in Nat \ {0} /\ x # y /\ (z # NULL => x # z /\ y # z)
    BY <1>2, <2>1 DEF NULL
  <2> HIDE DEF x, y, z
  <2>5. CASE z = NULL
    <3>1. Parts = <<x, y>>
      BY <2>2, <2>5
    <3>2. x \in Children(Node) /\ y \in Children(Node)
      BY <2>3, <2>4 DEF NULL
    <3>3. Lists(<<x, y>>, Children(Node))
      BY <2>4, <3>2, ShortLists
    <3> QED BY <3>1, <3>3
  <2>6. CASE z # NULL
    <3>1. Parts = <<x, y, z>>
      <4>1. Parts = <<x, y>> \o <<z>>
        BY <2>2, <2>6
      <4> QED BY <4>1, ThreeParts
    <3>2. x \in Children(Node) /\ y \in Children(Node) /\ z \in Children(Node)
      BY <2>3, <2>4, <2>6 DEF NULL
    <3>3. Lists(<<x, y, z>>, Children(Node))
      BY <2>4, <2>6, <3>2, ShortLists
    <3> QED BY <3>1, <3>3
  <2> QED BY <2>5, <2>6
<1>4. CASE Node.type \in {"BIN_EXP", "VAR_ASGN", "WHILE"}
  <2>1. PICK x, y : Parts = <<x, y>> /\ Children(Node) = {x, y} /\ x \in Kids /\ y \in Kids /\ x < y
    <3>1. CASE Node.type = "BIN_EXP"
      <4>1. Node.left \in Kids /\ Node.right \in Kids /\ Node.left < Node.right
        BY <1>1, <3>1 DEF NodeOK, Node, PartsRise
      <4>2. Parts = <<Node.left, Node.right>> /\ Children(Node) = {Node.left, Node.right}
        BY <3>1 DEF Parts, Children
      <4> HIDE DEF Kids
      <4> QED BY <4>1, <4>2
    <3>2. CASE Node.type = "VAR_ASGN"
      <4>1. Node.lval \in Kids /\ Node.rval \in Kids /\ Node.lval < Node.rval
        BY <1>1, <3>2 DEF NodeOK, Node, PartsRise
      <4>2. Parts = <<Node.lval, Node.rval>> /\ Children(Node) = {Node.lval, Node.rval}
        BY <3>2 DEF Parts, Children
      <4> HIDE DEF Kids
      <4> QED BY <4>1, <4>2
    <3>3. CASE Node.type = "WHILE"
      <4>1. Node.expr \in Kids /\ Node.body \in Kids /\ Node.expr < Node.body
        BY <1>1, <3>3 DEF NodeOK, Node, PartsRise
      <4>2. Parts = <<Node.expr, Node.body>> /\ Children(Node) = {Node.expr, Node.body}
        BY <3>3 DEF Parts, Children
      <4> HIDE DEF Kids
      <4> QED BY <4>1, <4>2
    <3> HIDE DEF Kids
    <3> QED BY <1>4, <3>1, <3>2, <3>3
  <2>2. x # y
    BY <2>1
  <2>3. Lists(<<x, y>>, Children(Node))
    BY <2>1, <2>2, ShortLists
  <2> QED BY <2>1, <2>3
<1>5. CASE Node.type \in {"EXPR_STMT", "UNARY_EXPR", "LVAL"}
  <2>1. PICK x : Parts = <<x>> /\ Children(Node) = {x}
    BY <1>5 DEF Parts, Children
  <2>2. Lists(<<x>>, Children(Node))
    BY <2>1, ShortLists
  <2> QED BY <2>1, <2>2
<1>6. CASE Node.type \in {"INT_CONST", "EMPTY_EXPR"}
  <2>1. Parts = <<>>
    BY <1>6 DEF Parts
  <2>2. Lists(<<>>, Children(Node))
    BY ShortLists
  <2> QED BY <2>1, <2>2
<1> QED BY <1>3, <1>4, <1>5, <1>6

LEMMA OverLaws ==
    /\ \A e, f, g : Same(e, f) => Same(Over(e, g), Over(f, g))
    /\ \A e, f, g : Same(f, g) => Same(Over(e, f), Over(e, g))
    /\ \A e, f, g : Same(Over(Over(e, f), g), Over(e, Over(f, g)))
    /\ \A e, f : DOMAIN e = {} => Same(Over(e, f), f)
    /\ \A e, f, g : Same(e, f) /\ Same(f, g) => Same(e, g)
    /\ \A e, f : Same(e, f) => Same(f, e)
<1>1. ASSUME NEW e, NEW f, NEW g
      PROVE  /\ Same(e, f) => Same(Over(e, g), Over(f, g))
             /\ Same(f, g) => Same(Over(e, f), Over(e, g))
             /\ Same(Over(Over(e, f), g), Over(e, Over(f, g)))
             /\ DOMAIN e = {} => Same(Over(e, f), f)
  <2>1. PICK eg, fg, ef, l, r :
            /\ eg = Over(e, g) /\ fg = Over(f, g) /\ ef = Over(e, f)
            /\ l = Over(ef, g) /\ r = Over(e, fg)
    OBVIOUS
  <2>2. /\ Overlays(eg, e, g) /\ Overlays(fg, f, g) /\ Overlays(ef, e, f)
        /\ Overlays(l, ef, g) /\ Overlays(r, e, fg)
    BY ONLY <2>1, OverAt
  <2>3. Same(e, f) => Same(eg, fg)
    BY ONLY <2>2 DEF Overlays, Same, Within
  <2>4. Same(f, g) => Same(ef, eg)
    BY ONLY <2>2 DEF Overlays, Same, Within
  <2>5. Same(l, r)
    BY ONLY <2>2 DEF Overlays, Same, Within
  <2>6. DOMAIN e = {} => Same(ef, f)
    BY ONLY <2>2 DEF Overlays, Same, Within
  <2> QED BY ONLY <2>1, <2>3, <2>4, <2>5, <2>6
<1>2. \A e, f, g : Same(e, f) /\ Same(f, g) => Same(e, g)
  BY DEF Same, Within
<1>3. \A e, f : Same(e, f) => Same(f, e)
  BY DEF Same
<1> QED BY <1>1, <1>2, <1>3

(* Nodes each of which sees what those before it declare.                  *)
LEMMA SerialRow ==
    ASSUME NEW p, NEW list \in Seq(Nat), Rising(list), NEW e,
           \A i \in 1 .. Len(list) :
               Same(Visible(p)[list[i]], Over(Before(p.nodes, list, list[i]), e))
    PROVE  /\ Row(p, Checks(list))
           /\ Checks(list) # <<>> => Within(View(p, Checks(list)[1]), e)
<1>1. PICK c, l : c = Checks(list) /\ l = Len(list)
  OBVIOUS
<1>2. IsList(list)
  BY DEF IsList
<1>3. /\ IsList(c) /\ Len(c) = l /\ l \in Nat /\ \A i \in 1 .. l : c[i] = Check(list[i])
      /\ c # <<>> => l \in Nat \ {0} /\ 1 \in 1 .. l
  BY <1>1, <1>2, ChecksList
<1> DEFINE bef(i) == Before(p.nodes, list, list[i])
           int(i) == Introduces(p.nodes, list[i])
           vis(i) == Visible(p)[list[i]]
<1>4. ASSUME NEW i \in 1 .. l
      PROVE  /\ c[i].act # "leave" /\ View(p, c[i]) = vis(i) /\ Behind(p, c[i]) = Over(int(i), vis(i))
  <2>1. c[i] = Check(list[i])
    BY <1>3
  <2> QED BY <2>1 DEF View, Behind, Check
<1>5. ASSUME NEW i \in 1 .. (l - 1) PROVE Within(View(p, c[i + 1]), Behind(p, c[i]))
  <2>1. i \in 1 .. l /\ i + 1 \in 1 .. l
    BY <1>3
  <2>2. Same(vis(i), Over(bef(i), e)) /\ Same(vis(i + 1), Over(bef(i + 1), e))
    BY <2>1, <1>1
  <2>3. Same(bef(i + 1), Over(int(i), bef(i)))
    BY <1>1, BeforeNext
  <2> HIDE DEF vis, bef, int
  <2>4. Same(Over(bef(i + 1), e), Over(Over(int(i), bef(i)), e))
    BY <2>3, OverLaws
  <2>5. Same(Over(Over(int(i), bef(i)), e), Over(int(i), Over(bef(i), e)))
    BY OverLaws
  <2>6. Same(Over(int(i), Over(bef(i), e)), Over(int(i), vis(i)))
    <3>1. Same(Over(bef(i), e), vis(i))
      BY <2>2, OverLaws
    <3> QED BY <3>1, OverLaws
  <2>7. Same(vis(i + 1), Over(int(i), vis(i)))
    <3>1. Same(vis(i + 1), Over(Over(int(i), bef(i)), e))
      BY <2>2, <2>4, OverLaws
    <3>2. Same(vis(i + 1), Over(int(i), Over(bef(i), e)))
      BY <2>5, <3>1, OverLaws
    <3> QED BY <2>6, <3>2, OverLaws
  <2>8. View(p, c[i + 1]) = vis(i + 1) /\ Behind(p, c[i]) = Over(int(i), vis(i))
    BY <1>4, <2>1
  <2> QED BY <2>7, <2>8 DEF Same
<1>6. Row(p, c)
  BY <1>3, <1>4, <1>5 DEF Row
<1>7. ASSUME c # <<>> PROVE Within(View(p, c[1]), e)
  <2>1. 1 \in 1 .. l /\ list # <<>>
    BY <1>1, <1>3, <1>7
  <2>2. Same(vis(1), Over(bef(1), e))
    BY <2>1, <1>1
  <2>3. DOMAIN bef(1) = {}
    BY <2>1, BeforeFirst
  <2>4. View(p, c[1]) = vis(1)
    BY <2>1, <1>4
  <2> HIDE DEF vis, bef
  <2>5. Same(Over(bef(1), e), e)
    BY <2>3, OverLaws
  <2>6. Same(vis(1), e)
    BY <2>2, <2>5, OverLaws
  <2> QED BY <2>4, <2>6 DEF Same
<1> QED BY <1>1, <1>6, <1>7

(* The statements of a block.                                              *)
LEMMA StmtsRow ==
    ASSUME NEW p, ProgramOK(p), NEW m \in DOMAIN p.nodes, p.nodes[m].type = "COMP_STMT",
           NEW ns, ns = p.nodes[m].stmts
    PROVE  /\ Row(p, Checks(ns)) /\ Lists(ns, Children(p.nodes[m]))
           /\ Checks(ns) # <<>> => Within(View(p, Checks(ns)[1]), Visible(p)[m])
<1>1. NodeOK(p.nodes, m) /\ PartsRise(p.nodes[m])
  BY DEF ProgramOK, HeapOK, NoneShared
<1>2. ns \in Seq(Nat) /\ Rising(ns)
  <2> DEFINE Kids == {k \in 1 .. (m - 1) : p.nodes[k].type # "FUNC_DEF"}
  <2>1. ns \in Seq(Kids)
    BY <1>1 DEF NodeOK
  <2>2. Kids \subseteq Nat
    OBVIOUS
  <2> HIDE DEF Kids
  <2>3. ns \in Seq(Nat)
    BY <2>1, <2>2, SeqMonotonic
  <2> QED BY <2>3, <1>1 DEF PartsRise
<1>3. Children(p.nodes[m]) = Elements(ns)
  BY DEF Children
<1>4. \A i \in 1 .. Len(ns) : ns[i] \in Children(p.nodes[m])
  BY <1>2, <1>3 DEF Elements
<1>5. \A i \in 1 .. Len(ns) : Same(Visible(p)[ns[i]], Over(Before(p.nodes, ns, ns[i]), Visible(p)[m]))
  BY <1>4, PartView
<1>6. IsList(ns)
  BY <1>2 DEF IsList
<1> QED BY <1>2, <1>4, <1>5, <1>6, SerialRow, RisingDistinct DEF Lists

(* The functions of a program.                                             *)
LEMMA FuncsRow ==
    ASSUME NEW p, ProgramOK(p)
    PROVE  /\ Row(p, Checks(p.funcs)) /\ p.funcs \in Seq(Nat) /\ Distinct(p.funcs)
           /\ Checks(p.funcs) # <<>> => DOMAIN View(p, Checks(p.funcs)[1]) = {}
<1>1. p.funcs \in Seq(Nat) /\ Rising(p.funcs)
  <2>1. /\ DOMAIN p.nodes = 1 .. Len(p.nodes) /\ Rising(p.funcs)
        /\ p.funcs \in Seq({k \in DOMAIN p.nodes : p.nodes[k].type = "FUNC_DEF"})
    BY DEF ProgramOK, HeapOK, IsVector, NoneShared
  <2>2. {k \in DOMAIN p.nodes : p.nodes[k].type = "FUNC_DEF"} \subseteq Nat
    BY <2>1
  <2> QED BY <2>1, <2>2, SeqMonotonic
<1>2. PICK e : e = [x \in {} |-> x]
  OBVIOUS
<1>3. ASSUME NEW i \in 1 .. Len(p.funcs)
      PROVE  Same(Visible(p)[p.funcs[i]], Over(Before(p.nodes, p.funcs, p.funcs[i]), e))
  <2>1. p.funcs[i] \in Elements(p.funcs)
    BY <1>1 DEF Elements
  <2>2. Visible(p)[p.funcs[i]] = Before(p.nodes, p.funcs, p.funcs[i])
    BY <2>1, FuncView
  <2>3. \A f : Same(f, Over(f, e))
    BY <1>2 DEF Same, Within, Over
  <2> QED BY <2>2, <2>3
<1>4. /\ Row(p, Checks(p.funcs))
      /\ Checks(p.funcs) # <<>> => Within(View(p, Checks(p.funcs)[1]), e)
  BY <1>1, <1>3, SerialRow
<1>5. \A f : Within(f, e) => DOMAIN f = {}
  BY <1>2 DEF Within
<1> QED BY <1>1, <1>4, <1>5, RisingDistinct

(* The clauses of a for, in its order.                                     *)
LEMMA ClausesRow ==
    ASSUME NEW p, ProgramOK(p), NEW m \in DOMAIN p.nodes, NEW nd, nd = p.nodes[m], nd.type = "FOR",
           NEW ns, ns = <<nd.init, nd.cond, nd.step, nd.body>>
    PROVE  /\ Lists(ns, Children(nd))
           /\ ~Misplaced(p) => /\ Row(p, Checks(ns))
                               /\ Within(View(p, Checks(ns)[1]), Visible(p)[m])
<1> DEFINE Kids == {k \in 1 .. (m - 1) : p.nodes[k].type # "FUNC_DEF"}
<1>1. /\ nd.init \in Kids /\ nd.cond \in Kids /\ nd.step \in Kids /\ nd.body \in Kids
      /\ nd.init < nd.cond /\ nd.cond < nd.step /\ nd.step < nd.body
  <2>1. NodeOK(p.nodes, m) /\ PartsRise(nd)
    BY DEF ProgramOK, HeapOK, NoneShared
  <2> QED BY <2>1 DEF NodeOK, PartsRise
<1>2. /\ ns \in Seq(Kids) /\ Len(ns) = 4 /\ 1 .. 4 = {1, 2, 3, 4} /\ 1 .. (4 - 1) = {1, 2, 3}
      /\ ns[1] = nd.init /\ ns[2] = nd.cond /\ ns[3] = nd.step /\ ns[4] = nd.body
  <2>1. nd.init \in Kids /\ nd.cond \in Kids /\ nd.step \in Kids /\ nd.body \in Kids
    BY <1>1
  <2> HIDE DEF Kids
  <2> QED BY <2>1
<1>3. ns[1] # ns[2] /\ ns[1] # ns[3] /\ ns[1] # ns[4] /\ ns[2] # ns[3] /\ ns[2] # ns[4] /\ ns[3] # ns[4]
  BY <1>1, <1>2
<1> HIDE DEF Kids
<1>4. IsList(ns) /\ Distinct(ns)
  BY <1>2, <1>3 DEF IsList, Distinct
<1>5. Children(nd) = {ns[1], ns[2], ns[3], ns[4]}
  BY <1>2 DEF Children
<1>6. \A i \in 1 .. 4 : ns[i] \in Children(nd)
  BY <1>2, <1>5
<1>7. ASSUME ~Misplaced(p) PROVE Row(p, Checks(ns)) /\ Within(View(p, Checks(ns)[1]), Visible(p)[m])
  <2>1. PICK c : c = Checks(ns)
    OBVIOUS
  <2>2. /\ IsList(c) /\ Len(c) = 4 /\ \A i \in 1 .. 4 : c[i] = Check(ns[i])
    BY <1>2, <1>4, <2>1, ChecksList
  <2> DEFINE e == Over(Introduces(p.nodes, ns[1]), Visible(p)[m])
  <2>3. Same(Visible(p)[ns[1]], Visible(p)[m])
    <3>1. ns[1] \in Children(p.nodes[m]) /\ ns[1] = nd.init
      BY <1>2, <1>6
    <3> QED BY <3>1, PartView
  <2>4. ASSUME NEW i \in {2, 3, 4}
        PROVE  Same(Visible(p)[ns[i]], e) /\ p.nodes[ns[i]].type \notin Declaring
    <3>1. ns[i] \in Children(p.nodes[m]) /\ ns[i] # nd.init /\ ns[1] = nd.init
      BY <1>2, <1>3, <1>5
    <3>2. Same(Visible(p)[ns[i]], e)
      BY <3>1, PartView
    <3>3. p.nodes[ns[i]].type \notin Declaring
      BY <1>7, <3>1, PlacedPart
    <3> QED BY <3>2, <3>3
  <2>5. View(p, c[1]) = Visible(p)[ns[1]] /\ Same(Behind(p, c[1]), e)
    <3>1. c[1] = Check(ns[1])
      BY <1>2, <2>2
    <3>2. /\ View(p, c[1]) = Visible(p)[ns[1]]
          /\ Behind(p, c[1]) = Over(Introduces(p.nodes, ns[1]), Visible(p)[ns[1]])
      BY <3>1 DEF View, Behind, Check
    <3> QED BY <2>3, <3>2, OverLaws
  <2>6. ASSUME NEW i \in {2, 3, 4} PROVE Same(View(p, c[i]), e) /\ Same(Behind(p, c[i]), e)
    <3>1. c[i] = Check(ns[i])
      BY <1>2, <2>2
    <3>2. View(p, c[i]) = Visible(p)[ns[i]] /\ Same(Behind(p, c[i]), Visible(p)[ns[i]])
      BY <2>4, <3>1, BehindPart
    <3> HIDE DEF e
    <3> QED BY <2>4, <3>2, OverLaws
  <2> HIDE DEF e
  <2>7. \A i \in {1, 2, 3} : Within(View(p, c[i + 1]), Behind(p, c[i]))
    <3>1. /\ Same(View(p, c[2]), e) /\ Same(View(p, c[3]), e) /\ Same(View(p, c[4]), e)
          /\ Same(Behind(p, c[1]), e) /\ Same(Behind(p, c[2]), e) /\ Same(Behind(p, c[3]), e)
      BY <2>5, <2>6
    <3>2. /\ Within(View(p, c[2]), Behind(p, c[1])) /\ Within(View(p, c[3]), Behind(p, c[2]))
          /\ Within(View(p, c[4]), Behind(p, c[3]))
      BY <3>1, WithinFacts DEF Same
    <3>3. 1 + 1 = 2 /\ 2 + 1 = 3 /\ 3 + 1 = 4
      OBVIOUS
    <3> QED BY <3>2, <3>3
  <2>8. \A i \in 1 .. 4 : c[i].act # "leave"
    BY <2>2 DEF Check
  <2>9. Row(p, c)
    BY <1>2, <2>2, <2>7, <2>8 DEF Row
  <2> QED BY <2>1, <2>3, <2>5, <2>9 DEF Same
<1> QED BY <1>2, <1>4, <1>6, <1>7 DEF Lists

-----------------------------------------------------------------------------
(* What C sees is in scope after each case.                                *)

LEMMA ChecksShort ==
    /\ Checks(<<>>) = <<>>
    /\ \A n : Checks(<<n>>) = <<Check(n)>>
<1>1. Checks(<<>>) = <<>>
  <2>1. IsList(<<>>) /\ Len(<<>>) = 0
    BY ListFacts
  <2>2. Checks(<<>>) # <<>> => Len(<<>>) \in Nat \ {0}
    BY <2>1, ChecksList
  <2> QED BY <2>1, <2>2
<1>2. ASSUME NEW n PROVE Checks(<<n>>) = <<Check(n)>>
  <2>1. Len(<<n>>) = 1 /\ <<n>>[1] = n
    OBVIOUS
  <2>2. [i \in 1 .. 1 |-> Check(n)] = <<Check(n)>>
    OBVIOUS
  <2>3. Checks(<<n>>) = [i \in 1 .. 1 |-> Check(<<n>>[i])]
    BY <2>1 DEF Checks
  <2>4. \A i \in 1 .. 1 : <<n>>[i] = n
    OBVIOUS
  <2> QED BY <2>2, <2>3, <2>4
<1> QED BY <1>1, <1>2

(* What the cases that open no scope and declare nothing put in front.     *)
LEMMA PlainItems ==
    ASSUME Inv, CheckParts \/ CheckIdent \/ CheckFuncCall \/ CheckRet
    PROVE  /\ At("check") /\ Node.type \in Transparent
           /\ UNCHANGED <<prog, scopes, syms, verdict>>
           /\ \E ns : Lists(ns, Children(Node)) /\ Visit(Checks(ns))
<1>1. CASE CheckParts
  <2>1. /\ At("check") /\ Node.type \in Transparent /\ UNCHANGED <<prog, scopes, syms, verdict>>
        /\ Visit(Checks(Parts))
    BY <1>1 DEF CheckParts, Transparent
  <2>2. Lists(Parts, Children(Node))
    BY <1>1, PartsAre DEF CheckParts
  <2> QED BY <2>1, <2>2
<1>2. CASE CheckIdent
  <2>1. /\ At("check") /\ Node.type \in Transparent /\ UNCHANGED <<prog, scopes, syms, verdict>>
        /\ Visit(<<>>)
    BY <1>2 DEF CheckIdent, Transparent, Checking
  <2>2. Lists(<<>>, Children(Node)) /\ Checks(<<>>) = <<>>
    BY ShortLists, ChecksShort
  <2>3. PICK ns : ns = <<>>
    OBVIOUS
  <2>4. Lists(ns, Children(Node)) /\ Visit(Checks(ns))
    BY <2>1, <2>2, <2>3
  <2> QED BY <2>1, <2>4
<1>3. CASE CheckFuncCall
  <2>1. /\ At("check") /\ Node.type = "FUNC_CALL" /\ UNCHANGED <<prog, scopes, syms, verdict>>
        /\ Visit(Checks(Node.args))
    BY <1>3 DEF CheckFuncCall, Checking
  <2>2. Node.args \in Seq(Nat) /\ Rising(Node.args)
    <3>1. NodeOK(prog.nodes, Head1.node) /\ Head1.node \in DOMAIN prog.nodes /\ ProgramOK(prog)
      BY <2>1, CheckedNode, SemaAssumption DEF Inv
    <3> DEFINE Kids == {k \in 1 .. (Head1.node - 1) : prog.nodes[k].type # "FUNC_DEF"}
    <3>2. Node.args \in Seq(Kids)
      BY <2>1, <3>1 DEF NodeOK, Node
    <3>3. Kids \subseteq Nat
      OBVIOUS
    <3> HIDE DEF Kids
    <3>4. Node.args \in Seq(Nat)
      BY <3>2, <3>3, SeqMonotonic
    <3>5. PartsRise(Node)
      BY <3>1 DEF ProgramOK, NoneShared, Node
    <3> QED BY <2>1, <3>4, <3>5 DEF PartsRise
  <2>3. Children(Node) = Elements(Node.args)
    BY <2>1 DEF Children
  <2>4. \A i \in 1 .. Len(Node.args) : Node.args[i] \in Children(Node)
    BY <2>2, <2>3 DEF Elements
  <2>5. IsList(Node.args) /\ Distinct(Node.args)
    BY <2>2, RisingDistinct DEF IsList
  <2>6. Lists(Node.args, Children(Node))
    BY <2>4, <2>5 DEF Lists
  <2> QED BY <2>1, <2>6 DEF Transparent
<1>4. CASE CheckRet
  <2>1. /\ At("check") /\ Node.type = "RET" /\ UNCHANGED <<prog, scopes, syms, verdict>>
        /\ Visit(<<Check(Node.expr)>>)
    BY <1>4 DEF CheckRet, Checking
  <2>2. Node.expr \in Children(Node)
    BY <2>1 DEF Children
  <2>3. PICK ns : ns = <<Node.expr>>
    OBVIOUS
  <2>4. Lists(ns, Children(Node))
    BY <2>2, <2>3, ShortLists
  <2>5. Checks(ns) = <<Check(Node.expr)>>
    BY <2>3, ChecksShort
  <2> QED BY <2>1, <2>4, <2>5 DEF Transparent
<1> QED BY <1>1, <1>2, <1>3, <1>4

(* The item in front checks a node.                                        *)
LEMMA CheckView ==
    ASSUME Inv, At("check")
    PROVE  Head1 = Check(Head1.node) /\ Node = prog.nodes[Head1.node]
<1>1. Head1 \in Items(prog.nodes) /\ Head1.act = "check"
  BY HeadFacts DEF At
<1>2. Head1 = Check(Head1.node)
  BY <1>1 DEF Items, Leave, Check
<1> QED BY <1>2 DEF Node

LEMMA PlainSees ==
    ASSUME Inv, SeesLikeC, CheckParts \/ CheckIdent \/ CheckFuncCall \/ CheckRet
    PROVE  SeesLikeC'
<1>1. /\ At("check") /\ Node.type \in Transparent /\ UNCHANGED <<prog, scopes, syms, verdict>>
  BY PlainItems
<1>2. PICK ns : Lists(ns, Children(Node)) /\ Visit(Checks(ns))
  BY PlainItems
<1>3. PICK m \in DOMAIN prog.nodes : m = Head1.node
  BY <1>1, CheckedNode
<1>4. /\ verdict = "symbols" /\ todo # <<>> /\ Head1.act # "leave" /\ Node = prog.nodes[m]
      /\ Head1 = Check(m)
  BY <1>1, <1>3, CheckedNode, CheckView
<1>5. IsList(ns) /\ IsList(Checks(ns)) /\ \A i \in 1 .. Len(ns) : ns[i] \in Children(prog.nodes[m])
  BY <1>2, <1>4, ChecksList DEF Lists
<1>6. PICK q : q = Checks(ns)
  OBVIOUS
<1>7. LikeC => /\ Row(prog, q)
               /\ q # <<>> => /\ Within(View(prog, q[1]), View(prog, Head1))
                              /\ Within(Behind(prog, Head1), Behind(prog, q[Len(q)]))
               /\ Within(Behind(prog, Head1), View(prog, Head1))
  <2>1. ProgramOK(prog) /\ (LikeC => ~Misplaced(prog))
    BY <1>4, SeenFacts
  <2>2. prog.nodes[m].type \in Transparent
    BY <1>1, <1>4
  <2> QED BY <1>4, <1>5, <1>6, <2>1, <2>2, TransparentRow
<1>8. IsList(q) /\ Visit(q)
  BY <1>2, <1>5, <1>6
<1> QED BY <1>1, <1>4, <1>7, <1>8, QuietSees

(* What blocks and for loops put in front.                                 *)
LEMMA BlockItems ==
    ASSUME Inv, CheckCompStmt \/ CheckFor
    PROVE  /\ At("check") /\ Node.type \in {"COMP_STMT", "FOR"}
           /\ EnterScope /\ UNCHANGED <<prog, syms, verdict>>
           /\ \E ns : /\ Lists(ns, Children(Node)) /\ Visit(Checks(ns) \o <<Leave>>)
                      /\ ~Misplaced(prog) =>
                           /\ Row(prog, Checks(ns))
                           /\ Checks(ns) # <<>> =>
                                Within(View(prog, Checks(ns)[1]), Visible(prog)[Head1.node])
<1>1. /\ At("check") /\ Node.type \in {"COMP_STMT", "FOR"}
      /\ EnterScope /\ UNCHANGED <<prog, syms, verdict>>
  BY DEF CheckCompStmt, CheckFor, Checking
<1>2. PICK m \in DOMAIN prog.nodes : m = Head1.node
  BY <1>1, CheckedNode
<1>3. ProgramOK(prog) /\ Node = prog.nodes[m]
  BY <1>2, SemaAssumption DEF Inv, Node
<1>4. CASE CheckCompStmt
  <2>1. Node.type = "COMP_STMT" /\ Visit(Checks(Node.stmts) \o <<Leave>>)
    BY <1>4 DEF CheckCompStmt, Checking
  <2>2. PICK ns : ns = Node.stmts
    OBVIOUS
  <2>3. /\ Row(prog, Checks(ns)) /\ Lists(ns, Children(Node))
        /\ Checks(ns) # <<>> => Within(View(prog, Checks(ns)[1]), Visible(prog)[m])
    BY <1>3, <2>1, <2>2, StmtsRow
  <2> QED BY <1>1, <1>2, <2>1, <2>2, <2>3
<1>5. CASE CheckFor
  <2>1. PICK ns : ns = <<Node.init, Node.cond, Node.step, Node.body>>
    OBVIOUS
  <2>2. Node.type = "FOR" /\ Visit(Checks(ns) \o <<Leave>>)
    BY <1>5, <2>1 DEF CheckFor, Checking
  <2>3. /\ Lists(ns, Children(Node))
        /\ ~Misplaced(prog) => /\ Row(prog, Checks(ns))
                               /\ Within(View(prog, Checks(ns)[1]), Visible(prog)[m])
    BY <1>3, <2>1, <2>2, ClausesRow
  <2> QED BY <1>1, <1>2, <2>2, <2>3
<1> QED BY <1>4, <1>5

LEMMA BlocksSee ==
    ASSUME Inv, SeesLikeC, CheckCompStmt \/ CheckFor
    PROVE  SeesLikeC'
<1>1. /\ At("check") /\ Node.type \in {"COMP_STMT", "FOR"}
      /\ EnterScope /\ UNCHANGED <<prog, syms, verdict>>
  BY BlockItems
<1>2. PICK ns : /\ Lists(ns, Children(Node)) /\ Visit(Checks(ns) \o <<Leave>>)
                /\ ~Misplaced(prog) =>
                     /\ Row(prog, Checks(ns))
                     /\ Checks(ns) # <<>> =>
                          Within(View(prog, Checks(ns)[1]), Visible(prog)[Head1.node])
  BY BlockItems
<1>3. PICK m \in DOMAIN prog.nodes : m = Head1.node
  BY <1>1, CheckedNode
<1>4. /\ verdict = "symbols" /\ todo # <<>> /\ Head1.act # "leave" /\ Node = prog.nodes[m]
      /\ Head1 = Check(m)
  BY <1>1, <1>3, CheckedNode, CheckView
<1>5. View(prog, Head1) = Visible(prog)[m] /\ Same(Behind(prog, Head1), Visible(prog)[m])
  <2>1. prog.nodes[m].type \notin Declaring
    BY <1>1, <1>4 DEF Declaring, Declarations
  <2> QED BY <1>4, <2>1, BehindPart
<1>6. LikeC => ~Misplaced(prog)
  BY DEF LikeC
<1>7. PICK q : q = Checks(ns)
  OBVIOUS
<1>8. IsList(q) /\ Visit(q \o <<Leave>>)
  BY <1>2, <1>7, ChecksList DEF Lists
<1>9. LikeC => /\ Row(prog, q)
               /\ q # <<>> => Within(View(prog, q[1]), View(prog, Head1))
               /\ Within(Behind(prog, Head1), View(prog, Head1))
  BY <1>2, <1>3, <1>5, <1>6, <1>7 DEF Same
<1> QED BY <1>1, <1>4, <1>8, <1>9, BlockSees

-----------------------------------------------------------------------------
(* What a declaration makes.                                               *)

(* What the innermost scope has of node m when it has been declared: the   *)
(* name of a function comes last.                                          *)
Gives(p, m) ==
    IF p.nodes[m].type = "FUNC_DEF"
    THEN Over(Introduces(p.nodes, m), Listed(m, ParamNames(p.nodes[m])))
    ELSE Introduces(p.nodes, m)

(* Symbols are made for m, and the innermost scope becomes table.          *)
Makes(m, table) ==
    /\ scopes' = Append(Front(scopes), table)
    /\ \A s \in DOMAIN syms : s \in DOMAIN syms' /\ syms'[s] = syms[s]
    /\ \A s \in DOMAIN syms' \ DOMAIN syms : syms'[s].decl[1] = m
    /\ DOMAIN table = DOMAIN Scope \cup DOMAIN Gives(prog, m)
    /\ \A x \in DOMAIN Gives(prog, m) :
         table[x] \in DOMAIN syms' /\ syms'[table[x]].decl = Gives(prog, m)[x]
    /\ \A x \in DOMAIN Scope \ DOMAIN Gives(prog, m) : table[x] = Scope[x]

(* A variable.                                                             *)
LEMMA MakesVar ==
    ASSUME Inv, Framed, DeclareVar
    PROVE  /\ Makes(Head1.node, Bound(Scope, Node.value, NextSym))
           /\ Node.type \in {"VAR_DEC", "VAR_DEF"} /\ Node = prog.nodes[Head1.node]
           /\ Head1.node \in DOMAIN prog.nodes /\ verdict = "symbols" /\ todo # <<>>
           /\ \/ Head1 = Check(Head1.node) /\ Node.type = "VAR_DEC"
              \/ Head1.act = "define" /\ Node.type = "VAR_DEF"
           /\ Visit(<<>>) /\ UNCHANGED <<prog, params, verdict>>
           /\ Bind(Head1.node, NextSym) /\ NextSym \notin DOMAIN syms
<1> DEFINE m   == Head1.node
           sym == NewSym(Node.value, "VARIABLE", Node.ctype, frame[func], junk, func, <<m, 0>>)
           l   == Len(syms)
           table == Bound(Scope, Node.value, l + 1)
<1>1. /\ syms' = Append(syms, sym) /\ Bind(m, l + 1) /\ Visit(<<>>)
      /\ scopes' = Append(Front(scopes), table)
      /\ UNCHANGED <<prog, junk, params, func, used, verdict>>
  BY DEF DeclareVar, StackFrameAdd, ScopeAdd, NextSym
<1>2. /\ verdict = "symbols" /\ todo # <<>> /\ m \in DOMAIN prog.nodes
      /\ \/ Head1 = Check(m) /\ Node.type = "VAR_DEC"
         \/ Head1.act = "define" /\ Node.type = "VAR_DEF"
  <2>1. CASE Checking("VAR_DEC")
    BY <2>1, CheckedNode, CheckView DEF Checking
  <2>2. CASE At("define")
    <3>1. verdict = "symbols" /\ todo # <<>> /\ Head1.act = "define"
      BY <2>2 DEF At
    <3>2. m \in DOMAIN prog.nodes
      BY <3>1, HeadFacts
    <3>3. Head1 = todo[1] /\ 1 \in DOMAIN todo
      <4>1. todo \in Seq(Items(prog.nodes))
        BY DEF Inv
      <4> QED BY <3>1, <4>1 DEF Head1
    <3>4. Node.type = "VAR_DEF"
      BY <3>1, <3>3 DEF Framed, Node
    <3> QED BY <3>1, <3>2, <3>4
  <2> QED BY <2>1, <2>2 DEF DeclareVar
<1>3. IsList(syms) /\ l \in Nat /\ DOMAIN syms = 1 .. l
  BY <1>2, ScopeFacts
<1>4. sym.decl = <<m, 0>>
  BY DEF NewSym
<1> HIDE DEF sym
<1>5. /\ IsList(syms') /\ Len(syms') = l + 1 /\ \A i \in 1 .. l : syms'[i] = syms[i]
      /\ syms'[l + 1] = sym
  BY <1>1, <1>3, AppendFacts
<1>6. DOMAIN syms' = 1 .. (l + 1)
  BY <1>5, ListFacts
<1>7. /\ DOMAIN Gives(prog, m) = {Node.value} /\ Gives(prog, m)[Node.value] = <<m, 0>>
      /\ Node = prog.nodes[m]
  BY <1>2 DEF Gives, Introduces, Node
<1>8. PICK k : k = l + 1
  OBVIOUS
<1>9. /\ k \in Nat /\ k \in DOMAIN syms' /\ k \notin DOMAIN syms /\ syms'[k].decl = <<m, 0>>
      /\ \A s \in DOMAIN syms' \ DOMAIN syms : s = k
      /\ \A s \in DOMAIN syms : s \in DOMAIN syms'
  BY <1>3, <1>4, <1>5, <1>6, <1>8
<1>10. /\ DOMAIN table = DOMAIN Scope \cup {Node.value} /\ table[Node.value] = k
       /\ \A x \in DOMAIN Scope \ {Node.value} : table[x] = Scope[x]
  BY <1>8 DEF Bound
<1>11. Bound(Scope, Node.value, NextSym) = table /\ NextSym = k
  BY <1>8 DEF NextSym
<1> HIDE DEF table
<1>12. <<m, 0>>[1] = m
  OBVIOUS
<1>13. Makes(m, table)
  BY <1>1, <1>3, <1>5, <1>7, <1>9, <1>10, <1>12 DEF Makes
<1> QED BY <1>1, <1>2, <1>7, <1>8, <1>9, <1>11, <1>13

(* What BoundAll binds the names to.                                       *)
BindsAll(new, table, m, keys, from) ==
    /\ DOMAIN new = DOMAIN table \cup DOMAIN Listed(m, keys)
    /\ \A x \in DOMAIN table \ DOMAIN Listed(m, keys) : new[x] = table[x]
    /\ \A x \in DOMAIN Listed(m, keys) :
         \E i \in 1 .. Len(keys) : /\ Listed(m, keys)[x] = <<m, i>> /\ keys[i] = x
                                   /\ new[x] = from + i
LEMMA BoundAllIs ==
    ASSUME NEW table, NEW keys, IsList(keys), NEW m
    PROVE  BindsAll(BoundAll(table, keys), table, m, keys, Len(syms))
<1>1. Range(keys) = Elements(keys) /\ DOMAIN Listed(m, keys) = Elements(keys)
  BY DEF Range, Elements, Listed
<1>2. DOMAIN keys = 1 .. Len(keys) /\ Len(keys) \in Nat
  BY ListFacts
<1>3. ASSUME NEW x \in Elements(keys)
      PROVE  \E i \in 1 .. Len(keys) : /\ Listed(m, keys)[x] = <<m, i>> /\ keys[i] = x
                                       /\ BoundAll(table, keys)[x] = Len(syms) + i
  <2> DEFINE S == {i \in DOMAIN keys : keys[i] = x}
  <2>1. S \subseteq 1 .. Len(keys) /\ S # {} /\ \A i \in S : keys[i] = x
    BY <1>2 DEF Elements
  <2>2. Listed(m, keys)[x] = <<m, Max(S)>> /\ BoundAll(table, keys)[x] = Len(syms) + Max(S)
    BY <1>1 DEF Listed, BoundAll
  <2> HIDE DEF S
  <2>3. Max(S) \in S
    BY <1>2, <2>1, GreatestElement
  <2> QED BY <2>1, <2>2, <2>3
<1>4. /\ DOMAIN BoundAll(table, keys) = DOMAIN table \cup Elements(keys)
      /\ \A x \in DOMAIN table \ Elements(keys) : BoundAll(table, keys)[x] = table[x]
  BY <1>1 DEF BoundAll
<1> QED BY <1>1, <1>3, <1>4 DEF BindsAll

(* The constants of an enum.                                               *)
LEMMA MakesEnum ==
    ASSUME Inv, CheckEnum
    PROVE  /\ Makes(Head1.node, BoundAll(Scope, Node.enums))
           /\ Node.type = "ENUM" /\ Node = prog.nodes[Head1.node]
           /\ Head1.node \in DOMAIN prog.nodes /\ verdict = "symbols" /\ todo # <<>>
           /\ Head1 = Check(Head1.node)
           /\ Visit(<<>>) /\ UNCHANGED <<prog, params, symOf, verdict>>
<1> DEFINE m   == Head1.node
           es  == Node.enums
           new == [i \in 1 .. Len(es) |->
                     NewSym(es[i], "CONST", "int", junk, i - 1, func, <<m, i>>)]
           l   == Len(syms)
           k   == Len(es)
           table == BoundAll(Scope, es)
<1>1. /\ At("check") /\ Node.type = "ENUM" /\ Visit(<<>>)
      /\ syms' = syms \o new /\ scopes' = Append(Front(scopes), table)
      /\ UNCHANGED <<prog, junk, params, symOf, func, used, verdict>>
  BY DEF CheckEnum, Checking
<1>2. /\ IsList(es) /\ verdict = "symbols" /\ todo # <<>> /\ m \in DOMAIN prog.nodes
      /\ Head1 = Check(m) /\ Node = prog.nodes[m]
  BY <1>1, CheckedNode, CheckView DEF NodeOK, Node, IsVector, IsList
<1>3. IsList(syms) /\ l \in Nat /\ DOMAIN syms = 1 .. l /\ k \in Nat
  BY <1>1, <1>2, ScopeFacts, ListFacts
<1>4. IsList(new) /\ Len(new) = k /\ \A i \in 1 .. k : new[i].decl = <<m, i>>
  <2>1. \A i \in 1 .. k : new[i].decl = <<m, i>>
    BY DEF NewSym
  <2>2. new = [i \in 1 .. k |-> new[i]]
    OBVIOUS
  <2> HIDE DEF new, k
  <2> QED BY <1>3, <2>1, <2>2, ListOf
<1> HIDE DEF new
<1>5. /\ IsList(syms') /\ Len(syms') = l + k
      /\ \A i \in 1 .. l : syms'[i] = syms[i]
      /\ \A i \in 1 .. k : syms'[l + i].decl = <<m, i>>
  <2>1. /\ IsList(syms \o new) /\ Len(syms \o new) = l + Len(new)
        /\ \A i \in 1 .. l : (syms \o new)[i] = syms[i]
        /\ \A i \in 1 .. Len(new) : (syms \o new)[l + i] = new[i]
    BY <1>3, <1>4, JoinedLists
  <2> QED BY <2>1, <1>1, <1>4
<1>6. DOMAIN syms' = 1 .. (l + k)
  BY <1>5, ListFacts
<1>7. Gives(prog, m) = Listed(m, es)
  BY <1>1, <1>2 DEF Gives, Introduces
<1>8. /\ DOMAIN table = DOMAIN Scope \cup DOMAIN Listed(m, es)
      /\ \A x \in DOMAIN Scope \ DOMAIN Listed(m, es) : table[x] = Scope[x]
      /\ \A x \in DOMAIN Listed(m, es) :
           \E i \in 1 .. k : Listed(m, es)[x] = <<m, i>> /\ table[x] = l + i
  <2>1. BindsAll(table, Scope, m, es, l)
    BY <1>2, BoundAllIs
  <2> HIDE DEF table, l
  <2> QED BY <2>1 DEF BindsAll
<1> HIDE DEF table, l, k, es
<1>9. \A s \in DOMAIN syms : s \in DOMAIN syms'
  BY <1>3, <1>6
<1>10. ASSUME NEW s \in DOMAIN syms' \ DOMAIN syms PROVE syms'[s].decl[1] = m
  <2>1. PICK i \in 1 .. k : s = l + i
    <3>1. s - l \in 1 .. k /\ s = l + (s - l)
      BY <1>3, <1>6
    <3> QED BY <3>1
  <2>2. syms'[s].decl = <<m, i>>
    BY <1>5, <2>1
  <2> QED BY <2>2
<1>11. ASSUME NEW x \in DOMAIN Listed(m, es)
       PROVE  table[x] \in DOMAIN syms' /\ syms'[table[x]].decl = Listed(m, es)[x]
  <2>1. PICK i \in 1 .. k : Listed(m, es)[x] = <<m, i>> /\ table[x] = l + i
    BY <1>8
  <2>2. l + i \in DOMAIN syms'
    BY <1>3, <1>6
  <2> QED BY <1>5, <2>1, <2>2
<1>12. Makes(m, table)
  BY <1>1, <1>3, <1>5, <1>7, <1>8, <1>9, <1>10, <1>11 DEF Makes
<1> QED BY <1>1, <1>2, <1>12 DEF table, es

(* A function and its parameters.                                          *)
LEMMA MakesFunc ==
    ASSUME Inv, CheckFuncDef
    PROVE  \E table :
           /\ Makes(Head1.node, table)
           /\ Node.type = "FUNC_DEF" /\ Node = prog.nodes[Head1.node]
           /\ Head1.node \in DOMAIN prog.nodes /\ verdict = "symbols" /\ todo # <<>>
           /\ Head1 = Check(Head1.node)
           /\ Visit(<<Check(Node.body)>>) /\ UNCHANGED <<prog, verdict>>
           /\ \A s \in DOMAIN params : s \in DOMAIN syms => /\ s \in DOMAIN params'
                                                            /\ params'[s] = params[s]
           /\ \A s \in DOMAIN syms' \ DOMAIN syms :
                syms'[s].decl[2] = 0 => /\ s \in DOMAIN params'
                                        /\ Len(params'[s]) = Len(Node.params)
           /\ \E s : Bind(Head1.node, s)
<1> DEFINE m    == Head1.node
           ps   == Node.params
           l    == Len(syms)
           k    == Len(ps)
           f    == l + 1 + k
           keys == [i \in 1 .. k |-> ps[i].value]
           pars == [i \in 1 .. k |-> NewSym(ps[i].value, "VARIABLE", ps[i].ctype,
                                            junk, junk, f, <<m, i>>)]
           own  == NewSym(Node.value, "FUNCTION", Node.ctype, junk, junk, f, <<m, 0>>)
           ids  == [i \in 1 .. k |-> l + i]
           table == Bound(BoundAll(Scope, keys), Node.value, f)
<1>1. /\ At("check") /\ Node.type = "FUNC_DEF" /\ Visit(<<Check(Node.body)>>)
      /\ syms' = (syms \o pars) \o <<own>>
      /\ params' = Bound(params, f, ids)
      /\ scopes' = Append(Front(scopes), table) /\ Bind(m, f)
      /\ UNCHANGED <<prog, junk, used, verdict>>
  BY DEF CheckFuncDef, Checking, NextSym
<1>2. /\ IsList(ps) /\ verdict = "symbols" /\ todo # <<>> /\ m \in DOMAIN prog.nodes
      /\ Head1 = Check(m) /\ Node = prog.nodes[m]
  BY <1>1, CheckedNode, CheckView DEF NodeOK, Node, IsVector, IsList
<1>3. IsList(syms) /\ l \in Nat /\ DOMAIN syms = 1 .. l /\ k \in Nat
  BY <1>1, <1>2, ScopeFacts, ListFacts
<1>4. IsList(pars) /\ Len(pars) = k /\ \A i \in 1 .. k : pars[i].decl = <<m, i>>
  <2>1. \A i \in 1 .. k : pars[i].decl = <<m, i>>
    BY DEF NewSym
  <2>2. pars = [i \in 1 .. k |-> pars[i]]
    OBVIOUS
  <2> HIDE DEF pars, k
  <2> QED BY <1>3, <2>1, <2>2, ListOf
<1>5. own.decl = <<m, 0>>
  BY DEF NewSym
<1>6. IsList(keys) /\ Len(keys) = k /\ keys = ParamNames(Node)
  <2>1. keys = [i \in 1 .. k |-> keys[i]] /\ keys = ParamNames(Node)
    BY DEF ParamNames
  <2> HIDE DEF keys, k
  <2> QED BY <1>3, <2>1, ListOf
<1>7. Len(ids) = k
  <2>1. ids = [i \in 1 .. k |-> ids[i]]
    OBVIOUS
  <2> HIDE DEF ids, k
  <2> QED BY <1>3, <2>1, ListOf
<1> HIDE DEF pars, own, keys, ids
<1>8. /\ IsList(syms') /\ Len(syms') = f
      /\ \A i \in 1 .. l : syms'[i] = syms[i]
      /\ \A i \in 1 .. k : syms'[l + i] = pars[i]
      /\ syms'[f] = own
  <2> DEFINE mid == syms \o pars
  <2>1. /\ IsList(mid) /\ Len(mid) = l + Len(pars)
        /\ \A i \in 1 .. l : mid[i] = syms[i]
        /\ \A i \in 1 .. Len(pars) : mid[l + i] = pars[i]
    <3>1. Joins(mid, syms, pars)
      BY <1>3, <1>4, JoinsAt
    <3> HIDE DEF mid
    <3> QED BY <3>1 DEF Joins
  <2> HIDE DEF mid, l, k, f
  <2>2. syms' = Append(mid, own)
    <3>1. syms' = mid \o <<own>>
      BY <1>1 DEF mid
    <3>2. PICK S : mid \in Seq(S)
      BY <2>1 DEF IsList
    <3>3. mid \in Seq(S \cup {own}) /\ own \in S \cup {own}
      BY <3>2, SeqMonotonic
    <3>4. mid \o <<own>> = Append(mid, own)
      BY <3>3, SMTT(30)
    <3> QED BY <3>1, <3>4
  <2>3. /\ IsList(Append(mid, own)) /\ Len(Append(mid, own)) = Len(mid) + 1
        /\ \A i \in 1 .. Len(mid) : Append(mid, own)[i] = mid[i]
        /\ Append(mid, own)[Len(mid) + 1] = own
    BY <2>1, AppendFacts
  <2>4. Len(mid) = l + k /\ Len(mid) + 1 = f
    BY <1>3, <1>4, <2>1 DEF f
  <2>5. ASSUME NEW i \in 1 .. l PROVE syms'[i] = syms[i]
    <3>1. i \in 1 .. Len(mid)
      BY <1>3, <2>4
    <3> QED BY <3>1, <2>1, <2>2, <2>3
  <2>6. ASSUME NEW i \in 1 .. k PROVE syms'[l + i] = pars[i]
    <3>1. l + i \in 1 .. Len(mid) /\ mid[l + i] = pars[i]
      BY <1>3, <1>4, <2>1, <2>4
    <3> QED BY <3>1, <2>2, <2>3
  <2> QED BY <2>2, <2>3, <2>4, <2>5, <2>6
<1>9. DOMAIN syms' = 1 .. f
  BY <1>8, ListFacts
<1>10. /\ \A s \in 1 .. l : s \in 1 .. f
       /\ \A s \in 1 .. f : s \in 1 .. l \/ s = f \/ \E i \in 1 .. k : s = l + i
       /\ \A i \in 1 .. k : l + i \in 1 .. f /\ l + i \notin 1 .. l /\ i # 0
       /\ f \in 1 .. f /\ f \notin 1 .. l
  <2> HIDE DEF l, k
  <2>1. ASSUME NEW s \in 1 .. f, s \notin 1 .. l, s # f PROVE \E i \in 1 .. k : s = l + i
    <3>1. s - l \in 1 .. k /\ s = l + (s - l)
      BY <1>3, <2>1
    <3> QED BY <3>1
  <2>2. /\ \A s \in 1 .. l : s \in 1 .. f
        /\ \A i \in 1 .. k : l + i \in 1 .. f /\ l + i \notin 1 .. l /\ i # 0
        /\ f \in 1 .. f /\ f \notin 1 .. l
    BY <1>3
  <2> QED BY <2>1, <2>2
<1> HIDE DEF f, l, k
<1>11. /\ DOMAIN BoundAll(Scope, keys) = DOMAIN Scope \cup DOMAIN Listed(m, keys)
       /\ \A x \in DOMAIN Scope \ DOMAIN Listed(m, keys) : BoundAll(Scope, keys)[x] = Scope[x]
       /\ \A x \in DOMAIN Listed(m, keys) :
            \E i \in 1 .. k : /\ Listed(m, keys)[x] = <<m, i>>
                              /\ BoundAll(Scope, keys)[x] = l + i
  <2>1. BindsAll(BoundAll(Scope, keys), Scope, m, keys, l)
    BY <1>6, BoundAllIs DEF l
  <2> QED BY <1>6, <2>1 DEF BindsAll
<1>12. /\ DOMAIN table = DOMAIN Scope \cup DOMAIN Listed(m, keys) \cup {Node.value}
       /\ table[Node.value] = f
       /\ \A x \in DOMAIN Scope \cup DOMAIN Listed(m, keys) :
            x # Node.value => table[x] = BoundAll(Scope, keys)[x]
  BY <1>11 DEF Bound
<1> HIDE DEF table
<1>13. /\ DOMAIN Gives(prog, m) = {Node.value} \cup DOMAIN Listed(m, keys)
       /\ Gives(prog, m)[Node.value] = <<m, 0>>
       /\ \A x \in DOMAIN Listed(m, keys) \ {Node.value} : Gives(prog, m)[x] = Listed(m, keys)[x]
  BY <1>1, <1>2, <1>6 DEF Gives, Introduces, Over
<1>14. \A s \in DOMAIN syms : s \in DOMAIN syms' /\ syms'[s] = syms[s]
  BY <1>3, <1>8, <1>9, <1>10
<1>15. ASSUME NEW s \in DOMAIN syms' \ DOMAIN syms
       PROVE  /\ syms'[s].decl[1] = m
              /\ syms'[s].decl[2] = 0 => s = f
  <2>1. CASE s = f
    BY <1>5, <1>8, <2>1
  <2>2. CASE s # f
    <3>1. PICK i \in 1 .. k : s = l + i
      BY <1>3, <1>9, <1>10, <2>2
    <3>2. syms'[s].decl = <<m, i>> /\ i # 0
      BY <1>4, <1>8, <1>10, <3>1
    <3> QED BY <3>2
  <2> QED BY <2>1, <2>2
<1>16. ASSUME NEW x \in DOMAIN Gives(prog, m)
       PROVE  table[x] \in DOMAIN syms' /\ syms'[table[x]].decl = Gives(prog, m)[x]
  <2>1. CASE x = Node.value
    BY <1>5, <1>8, <1>9, <1>10, <1>12, <1>13, <2>1
  <2>2. CASE x # Node.value
    <3>1. x \in DOMAIN Listed(m, keys)
      BY <1>13, <2>2
    <3>2. PICK i \in 1 .. k : /\ Listed(m, keys)[x] = <<m, i>>
                              /\ BoundAll(Scope, keys)[x] = l + i
      BY <1>11, <3>1
    <3>3. table[x] = l + i /\ Gives(prog, m)[x] = <<m, i>>
      BY <1>12, <1>13, <2>2, <3>1, <3>2
    <3>4. l + i \in DOMAIN syms' /\ syms'[l + i].decl = <<m, i>>
      BY <1>4, <1>8, <1>9, <1>10
    <3> QED BY <3>3, <3>4
  <2> QED BY <2>1, <2>2
<1>17. ASSUME NEW x \in DOMAIN Scope \ DOMAIN Gives(prog, m) PROVE table[x] = Scope[x]
  <2>1. x # Node.value /\ x \in DOMAIN Scope \ DOMAIN Listed(m, keys)
    BY <1>13
  <2> QED BY <2>1, <1>11, <1>12
<1>18. Makes(m, table)
  <2>1. DOMAIN table = DOMAIN Scope \cup DOMAIN Gives(prog, m)
    BY <1>12, <1>13
  <2> QED BY <1>1, <1>14, <1>15, <1>16, <1>17, <2>1 DEF Makes
<1>19. f \in DOMAIN params' /\ Len(params'[f]) = Len(Node.params)
  BY <1>1, <1>7 DEF Bound, k
<1>20. \A s \in DOMAIN params : s \in DOMAIN syms => s \in DOMAIN params' /\ params'[s] = params[s]
  <2>1. f \notin DOMAIN syms
    BY <1>3, <1>10
  <2> QED BY <1>1, <2>1 DEF Bound
<1> QED BY <1>1, <1>2, <1>15, <1>18, <1>19, <1>20

(* What is visible behind a declaration is in the new table.               *)
LEMMA MakesShows ==
    ASSUME Inv, verdict = "symbols", todo # <<>>, NEW m, NEW table, Makes(m, table),
           NEW e, Shows(syms, e, Scope)
    PROVE  Shows(syms', Over(Gives(prog, m), e), table)
<1>1. TableOK(Scope, DOMAIN syms)
  BY ScopeFacts
<1>2. PICK g, h : g = Gives(prog, m) /\ h = Over(g, e)
  OBVIOUS
<1>3. Overlays(h, g, e)
  BY <1>2, OverAt
<1>4. ASSUME NEW x \in DOMAIN h
      PROVE  x \in DOMAIN table /\ syms'[table[x]].decl = h[x]
  <2>1. DOMAIN table = DOMAIN Scope \cup DOMAIN g
    BY <1>2 DEF Makes
  <2>2. CASE x \in DOMAIN g
    <3>1. syms'[table[x]].decl = g[x]
      BY <1>2, <2>2 DEF Makes
    <3> QED BY <1>3, <2>1, <2>2, <3>1 DEF Overlays
  <2>3. CASE x \notin DOMAIN g
    <3>1. x \in DOMAIN e /\ h[x] = e[x]
      BY <1>3, <2>3 DEF Overlays
    <3>2. x \in DOMAIN Scope /\ syms[Scope[x]].decl = e[x] /\ Scope[x] \in DOMAIN syms
      BY <1>1, <3>1 DEF Shows, TableOK
    <3>3. table[x] = Scope[x] /\ syms'[Scope[x]] = syms[Scope[x]]
      BY <1>2, <2>3, <3>2 DEF Makes
    <3> QED BY <2>1, <3>1, <3>2, <3>3
  <2> QED BY <2>2, <2>3
<1> QED BY <1>2, <1>4 DEF Shows

(* A variable or the constants of an enum come into view.                  *)
LEMMA DeclaresSee ==
    ASSUME Inv, Framed, SeesLikeC, DeclareVar \/ CheckEnum
    PROVE  SeesLikeC'
<1>1. PICK table : /\ Makes(Head1.node, table) /\ Node.type # "FUNC_DEF"
                   /\ Node = prog.nodes[Head1.node] /\ Head1.act # "leave"
                   /\ verdict = "symbols" /\ todo # <<>> /\ Visit(<<>>)
                   /\ UNCHANGED <<prog, verdict>>
  <2>1. CASE DeclareVar
    <3>1. Makes(Head1.node, Bound(Scope, Node.value, NextSym))
      BY <2>1, MakesVar
    <3>2. /\ Node.type # "FUNC_DEF"
          /\ Node = prog.nodes[Head1.node] /\ Head1.act # "leave"
          /\ verdict = "symbols" /\ todo # <<>> /\ Visit(<<>>)
          /\ UNCHANGED <<prog, verdict>>
      BY <2>1, MakesVar DEF Check
    <3> QED BY <3>1, <3>2
  <2>2. CASE CheckEnum
    <3>1. Makes(Head1.node, BoundAll(Scope, Node.enums))
      BY <2>2, MakesEnum
    <3>2. /\ Node.type # "FUNC_DEF"
          /\ Node = prog.nodes[Head1.node] /\ Head1.act # "leave"
          /\ verdict = "symbols" /\ todo # <<>> /\ Visit(<<>>)
          /\ UNCHANGED <<prog, verdict>>
      BY <2>2, MakesEnum DEF Check
    <3> QED BY <3>1, <3>2
  <2> QED BY <2>1, <2>2
<1>2. LikeC => Shows(syms, View(prog, Head1), Scope)
  BY <1>1, SeenFacts
<1>3. Behind(prog, Head1) = Over(Gives(prog, Head1.node), View(prog, Head1))
  BY <1>1 DEF Behind, Gives
<1>4. LikeC => Shows(syms', Behind(prog, Head1), table)
  BY <1>1, <1>2, <1>3, MakesShows
<1>5. PICK q : q = <<>>
  OBVIOUS
<1>6. IsList(q) /\ Row(prog, q)
  <2>1. Len(q) = 0 /\ 1 .. 0 = {} /\ 1 .. (0 - 1) = {} /\ IsList(q)
    BY <1>5, ListFacts
  <2> QED BY <2>1 DEF Row
<1>7. \A s \in DOMAIN syms : syms'[s] = syms[s]
  BY <1>1 DEF Makes
<1>8. scopes' = Append(Front(scopes), table) /\ Visit(q)
  BY <1>1, <1>5 DEF Makes
<1> QED BY <1>1, <1>4, <1>5, <1>6, <1>7, <1>8, DeclareSees

(* A variable's initialiser, then its definition.                          *)
LEMMA VarDefSees ==
    ASSUME Inv, SeesLikeC, CheckVarDef
    PROVE  SeesLikeC'
<1>1. /\ At("check") /\ Node.type = "VAR_DEF" /\ UNCHANGED <<prog, scopes, syms, verdict>>
      /\ Visit(<<Check(Node.expr), DefineVar(Head1.node)>>)
  BY DEF CheckVarDef, Checking
<1>2. PICK m \in DOMAIN prog.nodes : m = Head1.node
  BY <1>1, CheckedNode
<1>3. /\ verdict = "symbols" /\ todo # <<>> /\ Head1.act # "leave" /\ Node = prog.nodes[m]
      /\ Head1 = Check(m)
  BY <1>1, <1>2, CheckedNode, CheckView
<1>4. PICK q, n, x : /\ q = <<Check(n), DefineVar(m)>> /\ n = Node.expr /\ x = Node.value
  OBVIOUS
<1>5. /\ IsList(q) /\ Len(q) = 2 /\ q[1] = Check(n) /\ q[2] = DefineVar(m)
      /\ 1 .. 2 = {1, 2} /\ 1 .. (2 - 1) = {1} /\ 1 + 1 = 2
  <2>1. q \in Seq({Check(n), DefineVar(m)})
    BY <1>4
  <2>2. IsList(q)
    BY <2>1 DEF IsList
  <2> QED BY <1>4, <2>2
<1>6. ASSUME LikeC
      PROVE  /\ Row(prog, q)
             /\ Within(View(prog, q[1]), View(prog, Head1))
             /\ Within(Behind(prog, Head1), Behind(prog, q[Len(q)]))
  <2>1. ProgramOK(prog) /\ ~Misplaced(prog)
    BY <1>3, <1>6, SeenFacts
  <2>2. n \in Children(prog.nodes[m])
    BY <1>1, <1>3, <1>4 DEF Children
  <2>3. prog.nodes[n].type \notin Declaring
    BY <1>1, <1>3, <2>1, <2>2, PlacedPart
  <2>4. PICK f, g, h : /\ f = Visible(prog)[m] /\ g = Without(f, {x}) /\ h = Introduces(prog.nodes, m)
    OBVIOUS
  <2>5. Same(Visible(prog)[n], g)
    BY <1>1, <1>3, <1>4, <2>1, <2>2, <2>4, PartView
  <2>6. View(prog, Check(n)) = Visible(prog)[n] /\ Same(Behind(prog, Check(n)), Visible(prog)[n])
    BY <2>3, BehindPart
  <2>7. View(prog, Head1) = f /\ Behind(prog, Head1) = Over(h, f)
    BY <1>3, <2>4 DEF View, Behind, Check
  <2>8. View(prog, DefineVar(m)) = g /\ Behind(prog, DefineVar(m)) = Over(h, g)
    BY <1>3, <1>4, <2>4 DEF View, Behind, DefineVar
  <2>9. DOMAIN h = {x}
    BY <1>1, <1>3, <1>4, <2>4 DEF Introduces
  <2>10. Within(g, f) /\ Within(Over(h, f), Over(h, g))
    BY <2>4, <2>9 DEF Within, Over, Without
  <2>11. Within(View(prog, q[2]), Behind(prog, q[1]))
    BY <1>5, <2>5, <2>6, <2>8, WithinFacts DEF Same
  <2>12. q[1].act # "leave" /\ q[2].act # "leave"
    BY <1>5 DEF Check, DefineVar
  <2>13. Row(prog, q)
    BY <1>5, <2>11, <2>12 DEF Row
  <2> QED BY <1>5, <2>5, <2>6, <2>7, <2>8, <2>10, <2>13, WithinFacts DEF Same
<1>7. q # <<>> /\ Visit(q)
  BY <1>1, <1>2, <1>4
<1> QED BY <1>1, <1>3, <1>5, <1>6, <1>7, QuietSees

(* A function is one of the program's.                                     *)
LEMMA FuncListed ==
    ASSUME NEW p, ProgramOK(p), NEW m \in DOMAIN p.nodes, p.nodes[m].type = "FUNC_DEF"
    PROVE  m \in Elements(p.funcs)
<1>1. ASSUME m \notin Elements(p.funcs) PROVE FALSE
  <2>1. PICK k \in DOMAIN p.nodes : m \in Children(p.nodes[k])
    BY <1>1 DEF ProgramOK, NoneLoose
  <2> QED BY <2>1, ParentFacts
<1> QED BY <1>1

(* What is visible where a function is defined are functions.              *)
LEMMA FuncsVisible ==
    ASSUME NEW p, ProgramOK(p), NEW m \in Elements(p.funcs), NEW x \in DOMAIN Visible(p)[m]
    PROVE  \E g \in DOMAIN p.nodes : p.nodes[g].type = "FUNC_DEF" /\ p.nodes[g].value = x
<1>1. x \in DOMAIN Before(p.nodes, p.funcs, m)
  BY FuncView
<1>2. PICK at : at = CHOOSE i \in DOMAIN p.funcs : p.funcs[i] = m
  OBVIOUS
<1>3. at \in DOMAIN p.funcs
  BY <1>2 DEF Elements
<1>4. PICK j \in 1 .. (at - 1) : x \in DOMAIN Introduces(p.nodes, p.funcs[j])
  BY <1>1, <1>2 DEF Before
<1>5. p.funcs \in Seq({n \in DOMAIN p.nodes : p.nodes[n].type = "FUNC_DEF"})
  BY DEF ProgramOK, HeapOK
<1>6. j \in DOMAIN p.funcs
  BY <1>3, <1>4, <1>5
<1>7. p.funcs[j] \in DOMAIN p.nodes /\ p.nodes[p.funcs[j]].type = "FUNC_DEF"
  BY <1>5, <1>6
<1>8. x = p.nodes[p.funcs[j]].value
  BY <1>4, <1>7 DEF Introduces
<1> QED BY <1>7, <1>8

(* A function's parameters come into view, and its own name.               *)
LEMMA FuncDefSees ==
    ASSUME Inv, SeesLikeC, CheckFuncDef
    PROVE  SeesLikeC'
<1>1. PICK table : /\ Makes(Head1.node, table)
                   /\ Node.type = "FUNC_DEF" /\ Node = prog.nodes[Head1.node]
                   /\ Head1.node \in DOMAIN prog.nodes /\ verdict = "symbols" /\ todo # <<>>
                   /\ Head1 = Check(Head1.node)
                   /\ Visit(<<Check(Node.body)>>) /\ UNCHANGED <<prog, verdict>>
  BY MakesFunc
<1>2. PICK m \in DOMAIN prog.nodes : m = Head1.node
  BY <1>1
<1>3. PICK q, n : q = <<Check(n)>> /\ n = Node.body
  OBVIOUS
<1>4. /\ IsList(q) /\ Len(q) = 1 /\ q[1] = Check(n) /\ 1 .. 1 = {1} /\ 1 .. (1 - 1) = {}
      /\ Head1.act # "leave"
  BY <1>1, <1>3, ListFacts DEF Check
<1>5. ASSUME LikeC
      PROVE  /\ Row(prog, q)
             /\ Shows(syms', View(prog, q[1]), table)
             /\ Within(Behind(prog, Head1), Behind(prog, q[Len(q)]))
  <2>1. ProgramOK(prog) /\ ~Misplaced(prog) /\ ParamsApart(prog)
    BY <1>1, <1>5, SeenFacts
  <2>2. n \in Children(prog.nodes[m])
    BY <1>1, <1>2, <1>3 DEF Children
  <2>3. prog.nodes[n].type \notin Declaring
    BY <1>1, <1>2, <2>1, <2>2, PlacedPart
  <2>4. PICK f, g, h : /\ f = Visible(prog)[m] /\ h = Introduces(prog.nodes, m)
                       /\ g = Listed(m, ParamNames(prog.nodes[m]))
    OBVIOUS
  <2>5. Same(Visible(prog)[n], Over(Over(g, h), f))
    BY <1>1, <1>2, <2>1, <2>2, <2>4, PartView
  <2>6. View(prog, Check(n)) = Visible(prog)[n] /\ Same(Behind(prog, Check(n)), Visible(prog)[n])
    BY <2>3, BehindPart
  <2>7. View(prog, Head1) = f /\ Behind(prog, Head1) = Over(h, f)
    BY <1>1, <1>2, <2>4 DEF View, Behind, Check
  <2>8. Gives(prog, m) = Over(h, g)
    BY <1>1, <1>2, <2>4 DEF Gives
  <2>9. ASSUME NEW x \in DOMAIN g PROVE x \notin DOMAIN h /\ x \notin DOMAIN f
    <3>1. x \in Elements(ParamNames(prog.nodes[m]))
      BY <2>4 DEF Listed
    <3>2. PICK i \in DOMAIN prog.nodes[m].params : prog.nodes[m].params[i].value = x
      <4>1. PICK i \in DOMAIN ParamNames(prog.nodes[m]) : ParamNames(prog.nodes[m])[i] = x
        BY <3>1 DEF Elements
      <4>2. IsList(prog.nodes[m].params)
        BY <1>1, <1>2, <2>1 DEF ProgramOK, HeapOK, NodeOK, IsVector, IsList
      <4>3. i \in DOMAIN prog.nodes[m].params
        BY <4>1, <4>2, ListFacts DEF ParamNames
      <4> QED BY <4>1, <4>3 DEF ParamNames
    <3>3. \A k \in DOMAIN prog.nodes : prog.nodes[k].type = "FUNC_DEF" => prog.nodes[k].value # x
      BY <1>1, <1>2, <2>1, <3>2 DEF ParamsApart
    <3>4. x \notin DOMAIN h
      BY <1>1, <1>2, <2>4, <3>3 DEF Introduces
    <3>5. x \notin DOMAIN f
      <4>1. m \in Elements(prog.funcs)
        BY <1>1, <1>2, <2>1, FuncListed
      <4> QED BY <2>1, <2>4, <3>3, <4>1, FuncsVisible
    <3> QED BY <3>4, <3>5
  <2>10. Within(Over(h, f), Over(Over(g, h), f)) /\ Within(Over(Over(g, h), f), Over(Over(h, g), f))
    <3>1. PICK hf, gh, hg, ghf :
              hf = Over(h, f) /\ gh = Over(g, h) /\ hg = Over(h, g) /\ ghf = Over(gh, f)
      OBVIOUS
    <3>2. /\ Overlays(hf, h, f) /\ Overlays(gh, g, h) /\ Overlays(hg, h, g)
          /\ Overlays(ghf, gh, f)
      BY ONLY <3>1, OverAt
    <3>3. Within(hf, ghf)
      BY ONLY <2>9, <3>2 DEF Overlays, Within
    <3>4. Same(gh, hg)
      BY ONLY <2>9, <3>2 DEF Overlays, Within, Same
    <3>5. Same(Over(gh, f), Over(hg, f))
      BY <3>4, OverLaws
    <3> QED BY <3>1, <3>3, <3>5 DEF Same
  <2>11. Shows(syms', Over(Over(h, g), f), table)
    <3>1. Shows(syms, f, Scope)
      BY <1>1, <1>4, <1>5, <2>7, SeenFacts
    <3> QED BY <1>1, <1>2, <2>8, <3>1, MakesShows
  <2>12. Row(prog, q)
    <3>1. q[1].act # "leave"
      BY <1>4 DEF Check
    <3> QED BY <1>4, <3>1 DEF Row
  <2>13. Shows(syms', View(prog, q[1]), table)
    BY <1>4, <2>5, <2>6, <2>10, <2>11, WithinFacts DEF Same
  <2> QED BY <1>4, <2>5, <2>6, <2>7, <2>10, <2>12, <2>13, WithinFacts DEF Same
<1>6. q # <<>> /\ Visit(q)
  BY <1>1, <1>3
<1>7. scopes' = Append(Front(scopes), table) /\ \A s \in DOMAIN syms : syms'[s] = syms[s]
  BY <1>1 DEF Makes
<1> QED BY <1>1, <1>4, <1>5, <1>6, <1>7, DeclareSees

(* Before anything is checked the functions are on the agenda.             *)
LEMMA SeesInit ==
    ASSUME Init, Inv
    PROVE  SeesLikeC
<1>1. /\ todo = Checks(prog.funcs) /\ scopes = << <<>> >> /\ ProgramOK(prog)
  BY SemaAssumption DEF Init, Inv
<1>2. PICK q : q = Checks(prog.funcs)
  OBVIOUS
<1>3. Row(prog, q) /\ (q # <<>> => DOMAIN View(prog, q[1]) = {})
  BY <1>1, <1>2, FuncsRow
<1>4. Len(scopes) = 1 /\ scopes[1] = <<>>
  BY <1>1
<1>5. IsList(q) /\ Len(q) \in Nat
  BY <1>3, ListFacts DEF Row
<1>6. PICK l : l = Len(q)
  OBVIOUS
<1>7. PICK d : d = [i \in 1 .. l + 1 |-> 1]
  OBVIOUS
<1>8. d \in [1 .. l + 1 -> Nat \ {0}] /\ d[1] = 1 /\ \A i \in 1 .. l + 1 : d[i] = 1
  BY <1>5, <1>6, <1>7
<1>9. \A i \in 1 .. l : q[i].act # "leave" /\ i \in 1 .. l + 1 /\ i + 1 \in 1 .. l + 1
  BY <1>3, <1>5, <1>6 DEF Row
<1>10. \A i \in 1 .. (l - 1) : i \in 1 .. l /\ Within(View(prog, q[i + 1]), Behind(prog, q[i]))
  BY <1>3, <1>5, <1>6 DEF Row
<1>11. LaidBy(prog, syms, q, scopes, d)
  <2>1. \A i \in 1 .. l : d[i + 1] = IF q[i].act = "leave" THEN d[i] - 1 ELSE d[i]
    BY <1>8, <1>9
  <2>2. \A i, j \in 1 .. l + 1 : i <= j => d[j] <= d[i]
    BY <1>8
  <2>3. \A i \in 1 .. (l - 1) : Linked(prog, syms, q[i], q[i + 1], scopes[d[i + 1]])
    BY <1>9, <1>10 DEF Linked
  <2> QED BY <1>6, <2>1, <2>2, <2>3 DEF LaidBy
<1>12. LaidOn(prog, syms, q, 1, scopes)
  BY <1>6, <1>8, <1>11 DEF LaidOn
<1>13. Opens(prog, syms, q, scopes[1])
  BY <1>3 DEF Opens, Shows
<1> QED BY <1>1, <1>2, <1>4, <1>12, <1>13 DEF SeesLikeC

LEMMA SeesNext ==
    ASSUME Inv, Reached, SeesLikeC, [Next]_vars
    PROVE  SeesLikeC'
<1>0. Framed
  BY DEF Reached
<1>1. CASE CheckCompStmt \/ CheckFor
  BY <1>1, BlocksSee
<1>2. CASE LeaveScope
  BY <1>2, LeaveSees
<1>3. CASE CheckParts \/ CheckIdent \/ CheckFuncCall \/ CheckRet
  BY <1>3, PlainSees
<1>4. CASE CheckVarDef
  BY <1>4, VarDefSees
<1>5. CASE DeclareVar \/ CheckEnum
  BY <1>0, <1>5, DeclaresSee
<1>6. CASE CheckFuncDef
  BY <1>6, FuncDefSees
<1>7. CASE Redeclaration \/ UndefinedIdent \/ BadCall
  <2>1. verdict' # "symbols"
    BY <1>7 DEF Redeclaration, UndefinedIdent, BadCall, Die
  <2> QED BY <2>1 DEF SeesLikeC
<1>8. CASE SymbolsDone \/ TypeCheck
  <2>1. verdict' # "symbols"
    BY <1>8 DEF SymbolsDone, TypeCheck
  <2> QED BY <2>1 DEF SeesLikeC
<1>9. CASE UNCHANGED vars
  BY <1>9 DEF vars, SeesLikeC, LikeC
<1> QED BY <1>1, <1>2, <1>3, <1>4, <1>5, <1>6, <1>7, <1>8, <1>9 DEF Next, Case, Stopped

LEMMA SeesHolds == Spec => []SeesLikeC
<1>1. Init => SeesLikeC
  BY InitInv, SeesInit
<1>2. Inv /\ Reached /\ SeesLikeC /\ [Next]_vars => SeesLikeC'
  BY SeesNext
<1> QED BY <1>1, <1>2, Invariance, ReachedHolds, PTL DEF Spec

-----------------------------------------------------------------------------
(* What uses are bound to.                                                 *)

(* So far, uses are bound as C binds them.                                 *)
Agree ==
    LikeC => \A n \in DOMAIN symOf \cap DOMAIN Bindings(prog) :
                 syms[symOf[n]].decl = Bindings(prog)[n]

(* A symbol made for a function has the function's parameters.             *)
Marked ==
    \A s \in DOMAIN syms :
        syms[s].decl[2] = 0 /\ prog.nodes[syms[s].decl[1]].type = "FUNC_DEF"
          => s \in DOMAIN params /\ Len(params[s]) = Len(prog.nodes[syms[s].decl[1]].params)

(* A name of the innermost scope is found there.                           *)
LEMMA FoundHere ==
    ASSUME Inv, verdict = "symbols", todo # <<>>, NEW x \in DOMAIN Scope
    PROVE  InScope(x) /\ Lookup(x) = Scope[x] /\ Lookup(x) \in DOMAIN syms
<1>1. PICK n : n = Len(scopes)
  OBVIOUS
<1>2. n \in Nat \ {0} /\ DOMAIN scopes = 1 .. n
  BY <1>1, HeadFacts
<1>3. Scope = scopes[n]
  BY <1>1 DEF Scope, Last
<1>4. n \in Holders(x) /\ \A i \in Holders(x) : n >= i
  BY <1>2, <1>3 DEF Holders
<1>5. \A i \in Holders(x) : (\A j \in Holders(x) : i >= j) => i = n
  BY <1>2, <1>4 DEF Holders
<1>6. Max(Holders(x)) = n
  BY <1>4, <1>5 DEF Max
<1>7. InScope(x) /\ Lookup(x) = Scope[x]
  BY <1>3, <1>4, <1>6 DEF InScope, Lookup
<1>8. TableOK(Scope, DOMAIN syms)
  BY ScopeFacts
<1> QED BY <1>7, <1>8 DEF TableOK

(* What a use stands for is what is found when it is met.                  *)
LEMMA UseFound ==
    ASSUME Inv, SeesLikeC, LikeC, At("check"), Head1.node \in DOMAIN Bindings(prog)
    PROVE  /\ InScope(Node.value) /\ Lookup(Node.value) \in DOMAIN syms
           /\ syms[Lookup(Node.value)].decl = Bindings(prog)[Head1.node]
<1>1. PICK m, x, e : m = Head1.node /\ x = Node.value /\ e = Visible(prog)[m]
  OBVIOUS
<1>2. /\ verdict = "symbols" /\ todo # <<>> /\ Head1.act # "leave"
      /\ Head1 = Check(m) /\ Node = prog.nodes[m]
  BY <1>1, CheckedNode, CheckView
<1>3. x \in DOMAIN e /\ Bindings(prog)[m] = e[x]
  BY <1>1, <1>2 DEF Bindings
<1>4. View(prog, Head1) = e
  BY <1>1, <1>2 DEF View, Check
<1>5. Shows(syms, e, Scope)
  BY <1>2, <1>4, SeenFacts
<1>6. x \in DOMAIN Scope /\ syms[Scope[x]].decl = e[x]
  BY <1>3, <1>5 DEF Shows
<1> QED BY <1>1, <1>2, <1>3, <1>6, FoundHere

LEMMA UsesTyped ==
    ASSUME NEW p, NEW n \in DOMAIN Bindings(p)
    PROVE  n \in DOMAIN p.nodes /\ p.nodes[n].type \in {"IDENT", "FUNC_CALL"}
  BY DEF Bindings, Uses

(* Bindings stay, and new ones are as C has them.                          *)
LEMMA AgreeStep ==
    ASSUME Inv, Agree, UNCHANGED prog,
           \A s \in DOMAIN syms : syms'[s] = syms[s],
           \A n \in DOMAIN symOf' \cap DOMAIN Bindings(prog) :
               \/ n \in DOMAIN symOf /\ symOf'[n] = symOf[n]
               \/ LikeC => syms'[symOf'[n]].decl = Bindings(prog)[n]
    PROVE  Agree'
<1> SUFFICES ASSUME LikeC, NEW n \in DOMAIN symOf' \cap DOMAIN Bindings(prog)
             PROVE  syms'[symOf'[n]].decl = Bindings(prog)[n]
  BY DEF Agree, LikeC
<1>1. CASE n \in DOMAIN symOf /\ symOf'[n] = symOf[n]
  <2>1. symOf[n] \in DOMAIN syms
    BY <1>1 DEF Inv, TableOK
  <2>2. syms[symOf[n]].decl = Bindings(prog)[n]
    BY <1>1 DEF Agree
  <2> QED BY <1>1, <2>1, <2>2
<1>2. CASE LikeC => syms'[symOf'[n]].decl = Bindings(prog)[n]
  BY <1>2
<1> QED BY <1>1, <1>2

(* One node is bound, which is no use of a name.                           *)
LEMMA OthersAgree ==
    ASSUME Inv, Agree, UNCHANGED prog, \A s \in DOMAIN syms : syms'[s] = syms[s],
           NEW s, Bind(Head1.node, s), prog.nodes[Head1.node].type \notin {"IDENT", "FUNC_CALL"}
    PROVE  Agree'
<1>1. ASSUME NEW n \in DOMAIN symOf' \cap DOMAIN Bindings(prog)
      PROVE  n \in DOMAIN symOf /\ symOf'[n] = symOf[n]
  <2>1. n # Head1.node
    BY UsesTyped
  <2> QED BY <2>1, BoundNode
<1> QED BY <1>1, AgreeStep

LEMMA AgreeNext ==
    ASSUME Inv, Framed, SeesLikeC, Agree, [Next]_vars
    PROVE  Agree'
<1>1. CASE CheckIdent \/ CheckFuncCall
  <2>1. /\ At("check") /\ UNCHANGED <<prog, syms>> /\ Bind(Head1.node, Lookup(Node.value))
    BY <1>1 DEF CheckIdent, CheckFuncCall, Checking
  <2>2. ASSUME NEW n \in DOMAIN symOf' \cap DOMAIN Bindings(prog), LikeC, n = Head1.node
        PROVE  syms'[symOf'[n]].decl = Bindings(prog)[n]
    <3>1. syms[Lookup(Node.value)].decl = Bindings(prog)[n]
      BY <2>1, <2>2, UseFound
    <3>2. symOf'[n] = Lookup(Node.value)
      BY <2>1, <2>2, BoundNode
    <3> QED BY <2>1, <3>1, <3>2
  <2>3. ASSUME NEW n \in DOMAIN symOf' \cap DOMAIN Bindings(prog), n # Head1.node
        PROVE  n \in DOMAIN symOf /\ symOf'[n] = symOf[n]
    <3>1. PICK h, s : h = Head1.node /\ s = Lookup(Node.value)
      OBVIOUS
    <3>2. /\ DOMAIN symOf' = DOMAIN symOf \cup {h}
          /\ \A m \in DOMAIN symOf \ {h} : symOf'[m] = symOf[m]
      BY <2>1, <3>1, BoundNode
    <3> QED BY <2>3, <3>1, <3>2
  <2> QED BY <2>1, <2>2, <2>3, AgreeStep
<1>2. CASE CheckRet
  <2>1. /\ At("check") /\ Node.type = "RET" /\ UNCHANGED <<prog, syms>>
        /\ Bind(Head1.node, Lookup(syms[func].key))
    BY <1>2 DEF CheckRet, Checking
  <2>2. prog.nodes[Head1.node].type \notin {"IDENT", "FUNC_CALL"}
    BY <2>1 DEF Node
  <2> QED BY <2>1, <2>2, OthersAgree
<1>3. CASE DeclareVar
  <2>1. Makes(Head1.node, Bound(Scope, Node.value, NextSym))
    BY <1>3, MakesVar
  <2>2. /\ UNCHANGED prog /\ Bind(Head1.node, NextSym)
        /\ prog.nodes[Head1.node].type \notin {"IDENT", "FUNC_CALL"}
    BY <1>3, MakesVar
  <2>3. \A s \in DOMAIN syms : syms'[s] = syms[s]
    BY <2>1 DEF Makes
  <2> QED BY <2>2, <2>3, OthersAgree
<1>4. CASE CheckFuncDef
  <2>1. PICK table : /\ Makes(Head1.node, table) /\ Node.type = "FUNC_DEF"
                     /\ Node = prog.nodes[Head1.node] /\ UNCHANGED prog
                     /\ \E s : Bind(Head1.node, s)
    BY <1>4, MakesFunc
  <2>2. \A s \in DOMAIN syms : syms'[s] = syms[s]
    BY <2>1 DEF Makes
  <2>3. prog.nodes[Head1.node].type \notin {"IDENT", "FUNC_CALL"}
    BY <2>1
  <2> QED BY <2>1, <2>2, <2>3, OthersAgree
<1>5. CASE CheckEnum
  <2>1. Makes(Head1.node, BoundAll(Scope, Node.enums)) /\ UNCHANGED <<prog, symOf>>
    BY <1>5, MakesEnum
  <2>2. \A s \in DOMAIN syms : syms'[s] = syms[s]
    BY <2>1 DEF Makes
  <2> QED BY <2>1, <2>2, AgreeStep
<1>6. CASE UNCHANGED <<prog, syms, symOf>>
  BY <1>6 DEF Agree, LikeC
<1>7. CASE \/ CheckCompStmt \/ LeaveScope \/ CheckParts \/ CheckFor \/ CheckVarDef
           \/ SymbolsDone \/ TypeCheck \/ UNCHANGED vars
  BY <1>6, <1>7 DEF CheckCompStmt, LeaveScope, CheckParts, CheckFor, CheckVarDef,
     SymbolsDone, TypeCheck, vars
<1>8. CASE Redeclaration \/ UndefinedIdent \/ BadCall
  BY <1>6, <1>8 DEF Redeclaration, UndefinedIdent, BadCall, Die
<1> QED BY <1>1, <1>2, <1>3, <1>4, <1>5, <1>7, <1>8 DEF Next, Case, Stopped

LEMMA AgreeHolds == Spec => []Agree
<1>1. Init => Agree
  BY DEF Init, Agree
<1>2. Inv /\ Reached /\ SeesLikeC /\ Agree /\ [Next]_vars => Agree'
  BY AgreeNext DEF Reached
<1> QED BY <1>1, <1>2, Invariance, ReachedHolds, SeesHolds, PTL DEF Spec

(* In an accepted program every use that C resolves was bound to the       *)
(* symbol of the declaration C resolves it to: a chain of cloned tables,   *)
(* dropped when their block ends, is lexical scoping.                      *)
THEOREM BindsLikeC == Spec => []ResolvesLikeC
<1>1. Inv /\ HandsOver /\ Agree => ResolvesLikeC
  <2> SUFFICES ASSUME HandsOver, Agree, verdict = "accepted", LikeC,
                      NEW n \in DOMAIN Bindings(prog)
               PROVE  syms[symOf[n]].decl = Bindings(prog)[n]
    BY DEF ResolvesLikeC
  <2>1. n \in DOMAIN symOf
    BY UsesTyped DEF HandsOver, InputOK, Checked
  <2> QED BY <2>1 DEF Agree
<1> QED BY <1>1, Invariance, HandsOverAll, AgreeHolds, PTL

(* Only a function's definition makes symbols for functions.               *)
LEMMA MarkedStep ==
    ASSUME Inv, Reached, Marked, UNCHANGED prog,
           \A s \in DOMAIN syms : syms'[s] = syms[s],
           \A s \in DOMAIN params : s \in DOMAIN syms => s \in DOMAIN params' /\ params'[s] = params[s],
           \A s \in DOMAIN syms' \ DOMAIN syms :
               syms'[s].decl[2] = 0 /\ prog.nodes[syms'[s].decl[1]].type = "FUNC_DEF"
                 => /\ s \in DOMAIN params'
                    /\ Len(params'[s]) = Len(prog.nodes[syms'[s].decl[1]].params)
    PROVE  Marked'
<1> SUFFICES ASSUME NEW s \in DOMAIN syms', syms'[s].decl[2] = 0,
                    prog.nodes[syms'[s].decl[1]].type = "FUNC_DEF"
             PROVE  /\ s \in DOMAIN params'
                    /\ Len(params'[s]) = Len(prog.nodes[syms'[s].decl[1]].params)
  BY DEF Marked
<1>1. CASE s \in DOMAIN syms
  <2>1. syms'[s] = syms[s]
    BY <1>1
  <2>2. s \in DOMAIN params /\ Len(params[s]) = Len(prog.nodes[syms[s].decl[1]].params)
    BY <1>1, <2>1 DEF Marked
  <2> QED BY <1>1, <2>1, <2>2
<1>2. CASE s \notin DOMAIN syms
  BY <1>2
<1> QED BY <1>1, <1>2

LEMMA MarkedNext ==
    ASSUME Inv, Reached, Marked, [Next]_vars
    PROVE  Marked'
<1>0. Framed
  BY DEF Reached
<1>1. CASE DeclareVar \/ CheckEnum
  <2>1. PICK table : Makes(Head1.node, table) /\ Node = prog.nodes[Head1.node]
                     /\ Node.type # "FUNC_DEF" /\ UNCHANGED <<prog, params>>
    <3>1. CASE DeclareVar
      <4>1. Makes(Head1.node, Bound(Scope, Node.value, NextSym))
        BY <1>0, <3>1, MakesVar
      <4>2. Node = prog.nodes[Head1.node] /\ Node.type # "FUNC_DEF" /\ UNCHANGED <<prog, params>>
        BY <1>0, <3>1, MakesVar
      <4> QED BY <4>1, <4>2
    <3>2. CASE CheckEnum
      <4>1. Makes(Head1.node, BoundAll(Scope, Node.enums))
        BY <3>2, MakesEnum
      <4>2. Node = prog.nodes[Head1.node] /\ Node.type # "FUNC_DEF" /\ UNCHANGED <<prog, params>>
        BY <3>2, MakesEnum
      <4> QED BY <4>1, <4>2
    <3> QED BY <1>1, <3>1, <3>2
  <2>2. \A s \in DOMAIN syms : syms'[s] = syms[s]
    BY <2>1 DEF Makes
  <2>3. \A s \in DOMAIN syms' \ DOMAIN syms : prog.nodes[syms'[s].decl[1]].type # "FUNC_DEF"
    BY <2>1 DEF Makes
  <2> QED BY <2>1, <2>2, <2>3, MarkedStep
<1>2. CASE CheckFuncDef
  <2>1. PICK table : /\ Makes(Head1.node, table)
                     /\ Node = prog.nodes[Head1.node] /\ UNCHANGED prog
                     /\ \A s \in DOMAIN params : s \in DOMAIN syms => /\ s \in DOMAIN params'
                                                                      /\ params'[s] = params[s]
                     /\ \A s \in DOMAIN syms' \ DOMAIN syms :
                          syms'[s].decl[2] = 0 => /\ s \in DOMAIN params'
                                                  /\ Len(params'[s]) = Len(Node.params)
    BY <1>2, MakesFunc
  <2>2. /\ \A s \in DOMAIN syms : syms'[s] = syms[s]
        /\ \A s \in DOMAIN syms' \ DOMAIN syms : syms'[s].decl[1] = Head1.node
    BY <2>1 DEF Makes
  <2> QED BY <2>1, <2>2, MarkedStep
<1>3. CASE UNCHANGED <<prog, syms, params>>
  BY <1>3 DEF Marked
<1>4. CASE \/ CheckCompStmt \/ LeaveScope \/ CheckParts \/ CheckFor \/ CheckVarDef
           \/ CheckIdent \/ CheckFuncCall \/ CheckRet
           \/ SymbolsDone \/ TypeCheck \/ UNCHANGED vars
  BY <1>3, <1>4 DEF CheckCompStmt, LeaveScope, CheckParts, CheckFor, CheckVarDef,
     CheckIdent, CheckFuncCall, CheckRet, SymbolsDone, TypeCheck, vars
<1>5. CASE Redeclaration \/ UndefinedIdent \/ BadCall
  BY <1>3, <1>5 DEF Redeclaration, UndefinedIdent, BadCall, Die
<1> QED BY <1>1, <1>2, <1>4, <1>5 DEF Next, Case, Stopped

LEMMA MarkedHolds == Spec => []Marked
<1>1. Init => Marked
  BY DEF Init, Marked
<1>2. Inv /\ Reached /\ Marked /\ [Next]_vars => Marked'
  BY MarkedNext
<1> QED BY <1>1, <1>2, Invariance, ReachedHolds, PTL DEF Spec

(* A call that fits what C takes it for is let through.                    *)
LEMMA FitsFound ==
    ASSUME Inv, Marked, SeesLikeC, LikeC, Checking("FUNC_CALL"),
           Head1.node \in DOMAIN Bindings(prog),
           FitsCall(prog, Head1.node, Bindings(prog)[Head1.node])
    PROVE  Callable(Node.value) /\ Len(params[Lookup(Node.value)]) = Len(Node.args)
<1>1. PICK s, d : s = Lookup(Node.value) /\ d = Bindings(prog)[Head1.node]
  OBVIOUS
<1>2. At("check") /\ InScope(Node.value) /\ s \in DOMAIN syms /\ syms[s].decl = d
  BY <1>1, UseFound DEF Checking
<1>3. /\ d[2] = 0 /\ prog.nodes[d[1]].type = "FUNC_DEF"
      /\ Len(prog.nodes[d[1]].params) = Len(Node.args)
  BY <1>1 DEF FitsCall, Node
<1>4. s \in DOMAIN params /\ Len(params[s]) = Len(prog.nodes[d[1]].params)
  BY <1>2, <1>3 DEF Marked
<1> QED BY <1>1, <1>2, <1>3, <1>4 DEF Callable

(* A call that is stopped is none of C, and neither is a name not found.   *)
LEMMA StoppedUse ==
    ASSUME Inv, Marked, SeesLikeC, ParamsApart(prog), BadCall \/ UndefinedIdent
    PROVE  Illegal(prog)
<1> SUFFICES ASSUME ~Misplaced(prog), Uses(prog) = DOMAIN Bindings(prog),
                    \A n \in DOMAIN Bindings(prog) :
                      prog.nodes[n].type = "FUNC_CALL" => FitsCall(prog, n, Bindings(prog)[n])
             PROVE  FALSE
  BY DEF Illegal
<1>1. LikeC
  BY DEF LikeC
<1>2. At("check") /\ Node.type \in {"IDENT", "FUNC_CALL"}
  BY DEF BadCall, UndefinedIdent, Checking
<1>3. Head1.node \in DOMAIN Bindings(prog)
  <2>1. Head1.node \in DOMAIN prog.nodes
    BY <1>2, CheckedNode
  <2> QED BY <1>2, <2>1 DEF Uses, Node
<1>4. CASE BadCall
  <2>1. Checking("FUNC_CALL")
    BY <1>4 DEF BadCall
  <2>2. FitsCall(prog, Head1.node, Bindings(prog)[Head1.node])
    BY <1>3, <2>1 DEF Checking, Node
  <2>3. Callable(Node.value) /\ Len(params[Lookup(Node.value)]) = Len(Node.args)
    BY <1>1, <1>3, <2>1, <2>2, FitsFound
  <2> QED BY <1>4, <2>3 DEF BadCall
<1>5. CASE UndefinedIdent
  <2>1. ~InScope(Node.value)
    BY <1>5 DEF UndefinedIdent
  <2> QED BY <1>1, <1>2, <1>3, <2>1, UseFound
<1> QED BY <1>4, <1>5

(* The params of a symbol that is no function's are read only for a        *)
(* program that calls what is no function of it, or misplaces a            *)
(* declaration: no C.                                                      *)
THEOREM CrashesOnlyWrong == Spec => []CrashesOnlyOnIllegal
<1>1. Init => CrashesOnlyOnIllegal
  BY DEF Init, CrashesOnlyOnIllegal
<1>2. Inv /\ Marked /\ SeesLikeC /\ CrashesOnlyOnIllegal /\ [Next]_vars => CrashesOnlyOnIllegal'
  <2> SUFFICES ASSUME Inv, Marked, SeesLikeC, CrashesOnlyOnIllegal, [Next]_vars,
                      verdict' = "crash", ParamsApart(prog)'
               PROVE  Illegal(prog)'
    BY DEF CrashesOnlyOnIllegal
  <2>1. UNCHANGED prog
    BY DEF Next, Case, Stopped, vars, CheckCompStmt, LeaveScope, CheckParts, CheckFor, CheckVarDef,
       DeclareVar, CheckFuncDef, CheckIdent, CheckFuncCall, CheckRet, CheckEnum,
       SymbolsDone, TypeCheck, Redeclaration, UndefinedIdent, BadCall, Die
  <2>2. CASE BadCall
    <3>1. Illegal(prog)
      BY <2>1, <2>2, StoppedUse
    <3> QED BY <2>1, <3>1
  <2>3. CASE verdict' = verdict
    BY <2>1, <2>3 DEF CrashesOnlyOnIllegal
  <2>4. CASE Redeclaration \/ UndefinedIdent
    BY <2>4 DEF Redeclaration, UndefinedIdent, Die
  <2>5. CASE SymbolsDone \/ TypeCheck
    BY <2>5 DEF SymbolsDone, TypeCheck
  <2>6. BadCall \/ verdict' = verdict \/ Redeclaration \/ UndefinedIdent \/ SymbolsDone \/ TypeCheck
    BY DEF Next, Case, Stopped, vars, CheckCompStmt, LeaveScope, CheckParts, CheckFor, CheckVarDef,
       DeclareVar, CheckFuncDef, CheckIdent, CheckFuncCall, CheckRet, CheckEnum
  <2> QED BY <2>2, <2>3, <2>4, <2>5, <2>6
<1> QED BY <1>1, <1>2, Invariance, MarkedHolds, SeesHolds, PTL DEF Spec

-----------------------------------------------------------------------------
(* Every node is checked once, so that what is found when a name is        *)
(* declared was declared elsewhere.                                        *)

(* No check of t is of a node in met, nor of the same as another; what was *)
(* met or is to be checked is a function or a part of what was met.        *)
ChecksApart(t) ==
    \A i, j \in DOMAIN t :
        t[i].act = "check" /\ t[j].act = "check" /\ t[i].node = t[j].node => i = j
OnceOn(p, t, met) ==
    /\ ChecksApart(t)
    /\ \A i \in DOMAIN t : t[i].act = "check" => t[i].node \notin met
    /\ \A i \in DOMAIN t : t[i].act = "define" => t[i].node \in met
    /\ \A n : p.nodes[n].type # "FUNC_DEF" /\ (n \in met \/ Waits(t, "check", n))
                => Parent(p.nodes, n) \in met

Once == verdict = "symbols" =>
    \E met : OnceOn(prog, todo, met) /\ \A s \in DOMAIN syms : syms[s].decl[1] \in met

(* What the case of node m puts in front.                                  *)
Fresh(p, m, q) ==
    /\ IsList(q) /\ ChecksApart(q)
    /\ \A i \in DOMAIN q : q[i].act = "check" => q[i].node \in Children(p.nodes[m])
    /\ \A i \in DOMAIN q : q[i].act = "define" => q[i].node = m

(* The new agenda: the k items put in front, then the m left of the old.   *)
Splits(t, q, u, k, m) ==
    /\ DOMAIN q = 1 .. k /\ DOMAIN t = 1 .. (m + 1) /\ DOMAIN u = 1 .. (k + m)
    /\ \A i \in 1 .. k : u[i] = q[i]
    /\ \A i \in 1 .. m : u[k + i] = t[i + 1]
    /\ \A i \in 1 .. (k + m) : i \in 1 .. k \/ \E j \in 1 .. m : i = k + j

(* An item of the new agenda is one put in front or one of the old.        *)
LEMMA NewItems ==
    ASSUME NEW t, IsList(t), t # <<>>, NEW q, IsList(q), NEW u, u = q \o Tail(t)
    PROVE  \E k \in Nat, m \in Nat : Splits(t, q, u, k, m)
<1> DEFINE m == Len(t) - 1
           r == Tail(t)
<1>1. /\ IsList(r) /\ Len(r) = m /\ \A i \in 1 .. m : r[i] = t[i + 1]
      /\ m \in Nat /\ Len(t) = m + 1
  <2>1. PICK S : t \in Seq(S)
    BY DEF IsList
  <2>2. r \in Seq(S) /\ Len(r) = m /\ \A i \in 1 .. m : r[i] = t[i + 1]
    BY <2>1, HeadTailProperties
  <2>3. m \in Nat /\ Len(t) = m + 1
    BY ListFacts
  <2> HIDE DEF r, m
  <2> QED BY <2>2, <2>3 DEF IsList
<1>2. u = q \o r
  OBVIOUS
<1> HIDE DEF r, m
<1>3. PICK k : k = Len(q)
  OBVIOUS
<1>4. /\ k \in Nat /\ DOMAIN u = 1 .. (k + m)
      /\ \A i \in 1 .. k : u[i] = q[i] /\ \A j \in 1 .. m : u[k + j] = r[j]
      /\ \A j \in 1 .. m : u[k + j] = r[j]
  <2>1. Joins(u, q, r)
    BY <1>1, <1>2, JoinsAt
  <2> QED BY <2>1, <1>1, <1>3 DEF Joins
<1>5. DOMAIN q = 1 .. k /\ DOMAIN t = 1 .. (m + 1)
  BY <1>1, <1>3, ListFacts
<1>6. ASSUME NEW i \in 1 .. (k + m), i \notin 1 .. k PROVE \E j \in 1 .. m : i = k + j
  <2>1. i - k \in 1 .. m /\ i = k + (i - k)
    BY <1>1, <1>4, <1>6
  <2> QED BY <2>1
<1> QED BY <1>1, <1>4, <1>5, <1>6 DEF Splits

(* The node in front is checked.                                           *)
LEMMA OnceCheck ==
    ASSUME NEW p, ProgramOK(p), NEW t, IsList(t), t # <<>>, NEW m \in DOMAIN p.nodes,
           t[1] = Check(m), NEW met, OnceOn(p, t, met), NEW q, Fresh(p, m, q)
    PROVE  OnceOn(p, q \o Tail(t), met \cup {m})
<1>1. PICK u : u = q \o Tail(t)
  OBVIOUS
<1>2. PICK k \in Nat, l \in Nat : Splits(t, q, u, k, l)
  BY <1>1, NewItems DEF Fresh
<1>3. 1 \in DOMAIN t /\ t[1].act = "check" /\ t[1].node = m /\ m \notin met
  <2>1. 1 \in DOMAIN t
    BY <1>2 DEF Splits
  <2> QED BY <2>1 DEF Check, OnceOn
<1>4. ASSUME NEW c \in Children(p.nodes[m])
      PROVE  Parent(p.nodes, c) = m /\ p.nodes[c].type # "FUNC_DEF" /\ c # m
             /\ c \notin met /\ ~Waits(t, "check", c)
  <2>1. Parent(p.nodes, c) = m /\ p.nodes[c].type # "FUNC_DEF" /\ c # m
    <3>1. /\ Parent(p.nodes, c) = m /\ p.nodes[c].type # "FUNC_DEF"
          /\ c < m /\ c \in Nat /\ m \in Nat
      BY ParentFacts
    <3> QED BY <3>1
  <2> QED BY <2>1, <1>3 DEF OnceOn
<1>5. ASSUME NEW i \in 1 .. l
      PROVE  /\ i + 1 \in DOMAIN t /\ u[k + i] = t[i + 1]
             /\ t[i + 1].act = "check" => /\ t[i + 1].node # m /\ t[i + 1].node \notin met
                                          /\ Waits(t, "check", t[i + 1].node)
             /\ t[i + 1].act = "define" => t[i + 1].node \in met
  <2>1. i + 1 \in DOMAIN t /\ u[k + i] = t[i + 1] /\ i + 1 # 1
    BY <1>2 DEF Splits
  <2> QED BY <2>1, <1>3 DEF OnceOn, ChecksApart, Waits
<1>6. ASSUME NEW i \in DOMAIN q
      PROVE  /\ u[i] = q[i]
             /\ q[i].act = "check" => q[i].node \in Children(p.nodes[m])
             /\ q[i].act = "define" => q[i].node = m
  BY <1>2 DEF Fresh, Splits
<1>7. ASSUME NEW i \in DOMAIN u
      PROVE  i \in DOMAIN q \/ \E j \in 1 .. l : i = k + j
  BY <1>2 DEF Splits
<1>8. ASSUME NEW i \in DOMAIN u, NEW j \in DOMAIN u, u[i].act = "check", u[j].act = "check",
             u[i].node = u[j].node
      PROVE  i = j
  <2>1. CASE i \in DOMAIN q /\ j \in DOMAIN q
    BY <1>6, <1>8, <2>1 DEF Fresh, ChecksApart
  <2>2. CASE i \in DOMAIN q /\ j \notin DOMAIN q
    BY <1>4, <1>5, <1>6, <1>7, <1>8, <2>2
  <2>3. CASE i \notin DOMAIN q /\ j \in DOMAIN q
    BY <1>4, <1>5, <1>6, <1>7, <1>8, <2>3
  <2>4. CASE i \notin DOMAIN q /\ j \notin DOMAIN q
    <3>1. PICK a \in 1 .. l : i = k + a
      BY <1>7, <2>4
    <3>2. PICK b \in 1 .. l : j = k + b
      BY <1>7, <2>4
    <3>3. a + 1 = b + 1
      BY <1>5, <1>8, <3>1, <3>2 DEF OnceOn, ChecksApart
    <3>4. a = b
      BY <3>3
    <3> QED BY <3>1, <3>2, <3>4
  <2> QED BY <2>1, <2>2, <2>3, <2>4
<1>9. ASSUME NEW i \in DOMAIN u
      PROVE  /\ u[i].act = "check" => u[i].node \notin met \cup {m}
             /\ u[i].act = "define" => u[i].node \in met \cup {m}
             /\ u[i].act = "check" => \/ u[i].node \in Children(p.nodes[m])
                                      \/ Waits(t, "check", u[i].node)
  <2>1. CASE i \in DOMAIN q
    BY <1>4, <1>6, <2>1
  <2>2. CASE i \notin DOMAIN q
    <3>1. PICK j \in 1 .. l : i = k + j
      BY <1>7, <2>2
    <3> QED BY <1>5, <3>1
  <2> QED BY <2>1, <2>2
<1>10. ASSUME NEW n, p.nodes[n].type # "FUNC_DEF",
              n \in met \cup {m} \/ Waits(u, "check", n)
       PROVE  Parent(p.nodes, n) \in met \cup {m}
  <2>1. n \in met \/ Waits(t, "check", n) \/ n \in Children(p.nodes[m])
    <3>1. CASE n = m
      BY <1>3, <3>1 DEF Waits
    <3>2. CASE Waits(u, "check", n)
      BY <1>9, <3>2 DEF Waits
    <3> QED BY <1>10, <3>1, <3>2
  <2>2. CASE n \in met \/ Waits(t, "check", n)
    BY <1>10, <2>2 DEF OnceOn
  <2>3. CASE n \in Children(p.nodes[m])
    BY <1>4, <2>3
  <2> QED BY <2>1, <2>2, <2>3
<1> QED BY <1>1, <1>8, <1>9, <1>10 DEF OnceOn, ChecksApart

(* The item in front is no check.                                          *)
LEMMA OnceOther ==
    ASSUME NEW p, NEW t, IsList(t), t # <<>>, NEW met, OnceOn(p, t, met)
    PROVE  OnceOn(p, <<>> \o Tail(t), met)
<1>1. PICK q, u : q = <<>> /\ u = q \o Tail(t)
  OBVIOUS
<1>2. PICK k \in Nat, l \in Nat : Splits(t, q, u, k, l)
  <2>1. IsList(q)
    BY <1>1, ListFacts
  <2> QED BY <1>1, <2>1, NewItems
<1>3. k = 0
  <2>1. DOMAIN q = {}
    <3>1. Len(q) = 0 /\ IsList(q) /\ 1 .. 0 = {}
      BY <1>1, ListFacts
    <3> QED BY <3>1, ListFacts
  <2>2. ASSUME k # 0 PROVE FALSE
    <3>1. 1 \in 1 .. k
      BY <2>2
    <3> QED BY <1>2, <2>1, <3>1 DEF Splits
  <2> QED BY <2>2
<1>4. ASSUME NEW i \in DOMAIN u
      PROVE  i \in Nat /\ i + 1 \in DOMAIN t /\ u[i] = t[i + 1]
  <2>1. i \in 1 .. l /\ k + i = i
    BY <1>2, <1>3 DEF Splits
  <2>2. i \in Nat /\ i + 1 \in DOMAIN t
    BY <2>1, <1>2 DEF Splits
  <2> QED BY <2>1, <2>2, <1>2 DEF Splits
<1>5. ASSUME NEW i \in DOMAIN u, NEW j \in DOMAIN u, u[i].act = "check", u[j].act = "check",
             u[i].node = u[j].node
      PROVE  i = j
  <2>1. i + 1 = j + 1
    BY <1>4, <1>5 DEF OnceOn, ChecksApart
  <2>2. i \in Nat /\ j \in Nat
    BY <1>4
  <2> QED BY <2>1, <2>2
<1>6. \A n : Waits(u, "check", n) => Waits(t, "check", n)
  BY <1>4 DEF Waits
<1> QED BY <1>1, <1>4, <1>5, <1>6 DEF OnceOn, ChecksApart

(* The checks of different parts of a node, and of the parts of a block.   *)
LEMMA ChecksFresh ==
    ASSUME NEW p, NEW m, NEW ns, Lists(ns, Children(p.nodes[m]))
    PROVE  Fresh(p, m, Checks(ns)) /\ Fresh(p, m, Checks(ns) \o <<Leave>>)
<1>1. PICK c, l : c = Checks(ns) /\ l = Len(ns)
  OBVIOUS
<1>2. /\ IsList(c) /\ Len(c) = l /\ l \in Nat /\ \A i \in 1 .. l : c[i] = Check(ns[i])
  BY <1>1, ChecksList DEF Lists
<1>3. DOMAIN c = 1 .. l
  BY <1>2, ListFacts
<1>4. ASSUME NEW i \in 1 .. l
      PROVE  c[i].act = "check" /\ c[i].node = ns[i] /\ ns[i] \in Children(p.nodes[m])
  <2>1. c[i] = Check(ns[i])
    BY <1>2
  <2> QED BY <1>1, <2>1 DEF Check, Lists
<1>5. ASSUME NEW i \in 1 .. l, NEW j \in 1 .. l, c[i].node = c[j].node PROVE i = j
  BY <1>1, <1>4, <1>5 DEF Lists, Distinct
<1>6. Fresh(p, m, c)
  BY <1>2, <1>3, <1>4, <1>5 DEF Fresh, ChecksApart
<1>7. PICK u, t : u = c \o t /\ t = <<Leave>>
  OBVIOUS
<1>8. /\ IsList(u) /\ DOMAIN u = 1 .. (l + 1)
      /\ \A i \in 1 .. l : u[i] = c[i]
      /\ u[l + 1] = Leave
  <2>1. IsList(t) /\ Len(t) = 1 /\ t[1] = Leave
    BY <1>7, ListFacts
  <2>2. Joins(u, c, t)
    BY <1>2, <1>7, <2>1, JoinsAt
  <2> QED BY <1>2, <2>1, <2>2 DEF Joins
<1>9. ASSUME NEW i \in DOMAIN u, u[i].act # "leave" PROVE i \in 1 .. l /\ u[i] = c[i]
  <2>1. i # l + 1
    BY <1>8, <1>9 DEF Leave
  <2>2. i \in 1 .. l
    BY <1>2, <1>8, <2>1
  <2> QED BY <2>2, <1>8
<1>10. Fresh(p, m, u)
  BY <1>4, <1>5, <1>8, <1>9 DEF Fresh, ChecksApart
<1> QED BY <1>1, <1>6, <1>7, <1>10

(* A node is checked; symbols are made for it, if any.                     *)
LEMMA OnceStep ==
    ASSUME Inv, Once, verdict = "symbols", todo # <<>>, UNCHANGED prog,
           NEW m \in DOMAIN prog.nodes, Head1 = Check(m),
           \A s \in DOMAIN syms' :
               \/ s \in DOMAIN syms /\ syms'[s] = syms[s]
               \/ syms'[s].decl[1] = m,
           NEW q, Fresh(prog, m, q), Visit(q)
    PROVE  Once'
<1>1. PICK met : OnceOn(prog, todo, met) /\ \A s \in DOMAIN syms : syms[s].decl[1] \in met
  BY DEF Once
<1>2. todo[1] = Check(m) /\ IsList(todo) /\ ProgramOK(prog)
  <2>1. todo \in Seq(Items(prog.nodes))
    BY DEF Inv
  <2> QED BY <2>1, SemaAssumption DEF Head1, IsList, Inv
<1>3. OnceOn(prog, q \o Tail(todo), met \cup {m})
  BY <1>1, <1>2, OnceCheck
<1>4. OnceOn(prog', todo', met \cup {m})
  BY <1>3 DEF Visit
<1>5. \A s \in DOMAIN syms' : syms'[s].decl[1] \in met \cup {m}
  BY <1>1
<1> QED BY <1>4, <1>5 DEF Once

(* A scope is left or a variable whose initialiser was checked is defined. *)
LEMMA OnceOtherwise ==
    ASSUME Inv, Once, verdict = "symbols", todo # <<>>, UNCHANGED prog,
           \A s \in DOMAIN syms' :
               \/ s \in DOMAIN syms /\ syms'[s] = syms[s]
               \/ Head1.act = "define" /\ syms'[s].decl[1] = Head1.node,
           Visit(<<>>)
    PROVE  Once'
<1>1. PICK met : OnceOn(prog, todo, met) /\ \A s \in DOMAIN syms : syms[s].decl[1] \in met
  BY DEF Once
<1>2. Head1 = todo[1] /\ IsList(todo) /\ 1 \in DOMAIN todo
  <2>1. todo \in Seq(Items(prog.nodes))
    BY DEF Inv
  <2> QED BY <2>1 DEF Head1, IsList
<1>3. OnceOn(prog, <<>> \o Tail(todo), met)
  BY <1>1, <1>2, OnceOther
<1>4. OnceOn(prog', todo', met)
  BY <1>3 DEF Visit
<1>5. Head1.act = "define" => Head1.node \in met
  BY <1>1, <1>2 DEF OnceOn
<1>6. \A s \in DOMAIN syms' : syms'[s].decl[1] \in met
  BY <1>1, <1>5
<1> QED BY <1>4, <1>6 DEF Once

LEMMA OnceInit ==
    ASSUME Init, Inv
    PROVE  Once
<1>1. todo = Checks(prog.funcs) /\ syms = <<>> /\ ProgramOK(prog)
  BY SemaAssumption DEF Init, Inv
<1>2. PICK l : l = Len(prog.funcs)
  OBVIOUS
<1>3. prog.funcs \in Seq(Nat) /\ Distinct(prog.funcs) /\ IsList(prog.funcs)
  BY <1>1, FuncsRow DEF IsList
<1>4. /\ IsList(todo) /\ Len(todo) = l /\ \A i \in 1 .. l : todo[i] = Check(prog.funcs[i])
  BY <1>1, <1>2, <1>3, ChecksList
<1>5. DOMAIN todo = 1 .. l /\ DOMAIN prog.funcs = 1 .. l
  BY <1>2, <1>3, <1>4, ListFacts
<1>6. \A i \in 1 .. l : todo[i].act = "check" /\ todo[i].node = prog.funcs[i]
  BY <1>4 DEF Check
<1>7. \A i \in 1 .. l : prog.nodes[prog.funcs[i]].type = "FUNC_DEF"
  <2>1. PICK F : F = {k \in DOMAIN prog.nodes : prog.nodes[k].type = "FUNC_DEF"}
    OBVIOUS
  <2>2. prog.funcs \in Seq(F)
    BY <1>1, <2>1 DEF ProgramOK, HeapOK
  <2>3. \A i \in 1 .. l : prog.funcs[i] \in F
    BY <1>2, <2>2
  <2> QED BY <2>1, <2>3
<1>8. ChecksApart(todo)
  BY <1>2, <1>3, <1>5, <1>6 DEF ChecksApart, Distinct
<1>9. \A n : Waits(todo, "check", n) => prog.nodes[n].type = "FUNC_DEF"
  BY <1>5, <1>6, <1>7 DEF Waits
<1>10. OnceOn(prog, todo, {})
  BY <1>5, <1>6, <1>8, <1>9 DEF OnceOn
<1>11. DOMAIN syms = {}
  BY <1>1
<1> QED BY <1>10, <1>11 DEF Once

(* The item in front puts fresh ones there.                                *)
LEMMA OnceNext ==
    ASSUME Inv, Reached, Once, [Next]_vars
    PROVE  Once'
<1>0. Framed /\ ProgramOK(prog)
  BY SemaAssumption DEF Reached, Inv
<1>1. CASE CheckParts \/ CheckIdent \/ CheckFuncCall \/ CheckRet
  <2>1. At("check") /\ UNCHANGED <<prog, syms, verdict>>
    BY <1>1, PlainItems
  <2>2. PICK ns : Lists(ns, Children(Node)) /\ Visit(Checks(ns))
    BY <1>1, PlainItems
  <2>3. PICK m \in DOMAIN prog.nodes : m = Head1.node
    BY <2>1, CheckedNode
  <2>4. verdict = "symbols" /\ todo # <<>> /\ Node = prog.nodes[m] /\ Head1 = Check(m)
    BY <2>1, <2>3, CheckedNode, CheckView
  <2>5. Fresh(prog, m, Checks(ns))
    BY <2>2, <2>4, ChecksFresh
  <2> QED BY <2>1, <2>2, <2>4, <2>5, OnceStep
<1>2. CASE CheckCompStmt \/ CheckFor
  <2>1. At("check") /\ UNCHANGED <<prog, syms, verdict>>
    BY <1>2, BlockItems
  <2>2. PICK ns : Lists(ns, Children(Node)) /\ Visit(Checks(ns) \o <<Leave>>)
    BY <1>2, BlockItems
  <2>3. PICK m \in DOMAIN prog.nodes : m = Head1.node
    BY <2>1, CheckedNode
  <2>4. verdict = "symbols" /\ todo # <<>> /\ Node = prog.nodes[m] /\ Head1 = Check(m)
    BY <2>1, <2>3, CheckedNode, CheckView
  <2>5. PICK q : q = Checks(ns) \o <<Leave>>
    OBVIOUS
  <2>6. Fresh(prog, m, q) /\ Visit(q)
    BY <2>2, <2>4, <2>5, ChecksFresh
  <2> QED BY <2>1, <2>4, <2>6, OnceStep
<1>3. CASE CheckVarDef
  <2>1. /\ At("check") /\ Node.type = "VAR_DEF" /\ UNCHANGED <<prog, scopes, syms, verdict>>
        /\ Visit(<<Check(Node.expr), DefineVar(Head1.node)>>)
    BY <1>3 DEF CheckVarDef, Checking
  <2>2. PICK m \in DOMAIN prog.nodes : m = Head1.node
    BY <2>1, CheckedNode
  <2>3. verdict = "symbols" /\ todo # <<>> /\ Node = prog.nodes[m] /\ Head1 = Check(m)
    BY <2>1, <2>2, CheckedNode, CheckView
  <2>4. PICK q, n : q = <<Check(n), DefineVar(m)>> /\ n = Node.expr
    OBVIOUS
  <2>5. /\ IsList(q) /\ DOMAIN q = {1, 2} /\ q[1] = Check(n) /\ q[2] = DefineVar(m)
    <3>1. q \in Seq({Check(n), DefineVar(m)}) /\ DOMAIN q = {1, 2}
      BY <2>4
    <3> QED BY <2>4, <3>1 DEF IsList
  <2>6. n \in Children(prog.nodes[m])
    BY <2>1, <2>3, <2>4 DEF Children
  <2>7. q[1].act = "check" /\ q[1].node = n /\ q[2].act = "define" /\ q[2].node = m
    BY <2>5 DEF Check, DefineVar
  <2>8. Fresh(prog, m, q) /\ Visit(q)
    BY <2>1, <2>2, <2>4, <2>5, <2>6, <2>7 DEF Fresh, ChecksApart
  <2> QED BY <2>1, <2>3, <2>8, OnceStep
<1>4. CASE CheckFuncDef
  <2>1. PICK table : /\ Makes(Head1.node, table)
                     /\ Node.type = "FUNC_DEF" /\ Node = prog.nodes[Head1.node]
                     /\ Head1.node \in DOMAIN prog.nodes /\ verdict = "symbols" /\ todo # <<>>
                     /\ Head1 = Check(Head1.node)
                     /\ Visit(<<Check(Node.body)>>) /\ UNCHANGED <<prog, verdict>>
    BY <1>4, MakesFunc
  <2>2. PICK ns : ns = <<Node.body>>
    OBVIOUS
  <2>3. Lists(ns, Children(Node))
    <3>1. Node.body \in Children(Node)
      BY <2>1 DEF Children
    <3> QED BY <2>2, <3>1, ShortLists
  <2>4. Fresh(prog, Head1.node, Checks(ns))
    BY <2>1, <2>3, ChecksFresh
  <2>5. Visit(Checks(ns))
    BY <2>1, <2>2, ChecksShort
  <2>6. \A s \in DOMAIN syms' : \/ s \in DOMAIN syms /\ syms'[s] = syms[s]
                                \/ syms'[s].decl[1] = Head1.node
    BY <2>1 DEF Makes
  <2> QED BY <2>1, <2>4, <2>5, <2>6, OnceStep
<1>5. CASE DeclareVar \/ CheckEnum
  <2>1. PICK table : /\ Makes(Head1.node, table) /\ Head1.node \in DOMAIN prog.nodes
                     /\ verdict = "symbols" /\ todo # <<>> /\ UNCHANGED prog /\ Visit(<<>>)
                     /\ Head1 = Check(Head1.node) \/ Head1.act = "define"
    <3>1. CASE DeclareVar
      <4>1. Makes(Head1.node, Bound(Scope, Node.value, NextSym))
        BY <1>0, <3>1, MakesVar
      <4>2. /\ Head1.node \in DOMAIN prog.nodes
            /\ verdict = "symbols" /\ todo # <<>> /\ UNCHANGED prog /\ Visit(<<>>)
            /\ Head1 = Check(Head1.node) \/ Head1.act = "define"
        BY <1>0, <3>1, MakesVar
      <4> QED BY <4>1, <4>2
    <3>2. CASE CheckEnum
      <4>1. Makes(Head1.node, BoundAll(Scope, Node.enums))
        BY <3>2, MakesEnum
      <4>2. /\ Head1.node \in DOMAIN prog.nodes
            /\ verdict = "symbols" /\ todo # <<>> /\ UNCHANGED prog /\ Visit(<<>>)
            /\ Head1 = Check(Head1.node)
        BY <3>2, MakesEnum
      <4> QED BY <4>1, <4>2
    <3> QED BY <1>5, <3>1, <3>2
  <2>2. \A s \in DOMAIN syms' : \/ s \in DOMAIN syms /\ syms'[s] = syms[s]
                                \/ syms'[s].decl[1] = Head1.node
    BY <2>1 DEF Makes
  <2>3. CASE Head1 = Check(Head1.node)
    <3>1. Fresh(prog, Head1.node, Checks(<<>>)) /\ Checks(<<>>) = <<>>
      BY ShortLists, ChecksShort, ChecksFresh
    <3>2. Fresh(prog, Head1.node, <<>>)
      BY <3>1
    <3> QED BY <2>1, <2>2, <2>3, <3>2, OnceStep
  <2>4. CASE Head1.act = "define"
    BY <2>1, <2>2, <2>4, OnceOtherwise
  <2> QED BY <2>1, <2>3, <2>4
<1>6. CASE LeaveScope
  <2>1. verdict = "symbols" /\ todo # <<>> /\ UNCHANGED <<prog, syms>> /\ Visit(<<>>)
    BY <1>6 DEF LeaveScope, At
  <2> QED BY <2>1, OnceOtherwise
<1>7. CASE Redeclaration \/ UndefinedIdent \/ BadCall \/ SymbolsDone \/ TypeCheck
  <2>1. verdict' # "symbols"
    BY <1>7 DEF Redeclaration, UndefinedIdent, BadCall, Die, SymbolsDone, TypeCheck
  <2> QED BY <2>1 DEF Once
<1>8. CASE UNCHANGED vars
  BY <1>8 DEF vars, Once
<1> QED BY <1>1, <1>2, <1>3, <1>4, <1>5, <1>6, <1>7, <1>8 DEF Next, Case, Stopped

LEMMA OnceHolds == Spec => []Once
<1>1. Init => Once
  BY InitInv, OnceInit
<1>2. Inv /\ Reached /\ Once /\ [Next]_vars => Once'
  BY OnceNext
<1> QED BY <1>1, <1>2, Invariance, ReachedHolds, PTL DEF Spec

(* What a name of a scope stands for is a declaration of that name.        *)
Titled(p, made, table) ==
    \A x \in DOMAIN table :
        made[table[x]].decl \in Declared(p) /\ NameOf(p, made[table[x]].decl) = x
Entered == verdict = "symbols" => \A h \in DOMAIN scopes : Titled(prog, syms, scopes[h])

(* What can be declared.                                                   *)
LEMMA DeclaredAt ==
    ASSUME NEW p, NEW n \in DOMAIN p.nodes
    PROVE  /\ p.nodes[n].type \in {"VAR_DEF", "VAR_DEC", "FUNC_DEF"} => <<n, 0>> \in Declared(p)
           /\ p.nodes[n].type = "FUNC_DEF" =>
                \A i \in DOMAIN p.nodes[n].params : <<n, i>> \in Declared(p)
           /\ p.nodes[n].type = "ENUM" =>
                \A i \in DOMAIN p.nodes[n].enums : <<n, i>> \in Declared(p)
  BY DEF Declared

(* What a node declares.                                                   *)
LEMMA GivesDeclared ==
    ASSUME NEW p, ProgramOK(p), NEW m \in DOMAIN p.nodes, NEW x \in DOMAIN Gives(p, m)
    PROVE  Gives(p, m)[x] \in Declared(p) /\ NameOf(p, Gives(p, m)[x]) = x
<1>1. NodeOK(p.nodes, m)
  BY DEF ProgramOK, HeapOK
<1>2. PICK nd : nd = p.nodes[m]
  OBVIOUS
<1>3. ASSUME NEW keys, IsList(keys), NEW y \in DOMAIN Listed(m, keys)
      PROVE  \E i \in 1 .. Len(keys) : Listed(m, keys)[y] = <<m, i>> /\ keys[i] = y
  <2>1. BindsAll(BoundAll(Scope, keys), Scope, m, keys, Len(syms))
    BY <1>3, BoundAllIs
  <2> QED BY <1>3, <2>1 DEF BindsAll
<1>4. CASE nd.type \in {"VAR_DEF", "VAR_DEC"}
  <2>1. x = nd.value /\ Gives(p, m)[x] = <<m, 0>>
    BY <1>2, <1>4 DEF Gives, Introduces
  <2>2. <<m, 0>> \in Declared(p)
    BY <1>2, <1>4, DeclaredAt
  <2>3. NameOf(p, <<m, 0>>) = nd.value
    BY <1>2 DEF NameOf
  <2> QED BY <2>1, <2>2, <2>3
<1>5. CASE nd.type = "ENUM"
  <2>1. IsList(nd.enums) /\ Gives(p, m) = Listed(m, nd.enums)
    BY <1>1, <1>2, <1>5 DEF NodeOK, IsVector, IsList, Gives, Introduces
  <2>2. PICK i \in 1 .. Len(nd.enums) : Gives(p, m)[x] = <<m, i>> /\ nd.enums[i] = x
    BY <1>3, <2>1
  <2>3. i \in DOMAIN nd.enums /\ i # 0
    BY <2>1, <2>2, ListFacts
  <2>4. <<m, i>> \in Declared(p)
    BY <1>2, <1>5, <2>3, DeclaredAt
  <2>5. NameOf(p, <<m, i>>) = nd.enums[i]
    BY <1>2, <1>5, <2>3 DEF NameOf
  <2> QED BY <2>2, <2>4, <2>5
<1>6. CASE nd.type = "FUNC_DEF"
  <2>1. PICK keys : keys = ParamNames(nd)
    OBVIOUS
  <2>2. IsList(nd.params)
    BY <1>1, <1>2, <1>6 DEF NodeOK, IsVector, IsList
  <2>3. /\ IsList(keys) /\ Len(keys) = Len(nd.params)
        /\ \A i \in 1 .. Len(nd.params) : keys[i] = nd.params[i].value
    <3>1. keys = [i \in 1 .. Len(nd.params) |-> nd.params[i].value]
      BY <2>1 DEF ParamNames
    <3>2. keys = [i \in 1 .. Len(nd.params) |-> keys[i]]
      BY <3>1
    <3>3. Len(nd.params) \in Nat
      BY <2>2, ListFacts
    <3> QED BY <3>1, <3>2, <3>3, ListOf
  <2>4. PICK h : h = Introduces(p.nodes, m)
    OBVIOUS
  <2>5. /\ DOMAIN h = {nd.value} /\ h[nd.value] = <<m, 0>>
        /\ Overlays(Gives(p, m), h, Listed(m, keys))
    <3>1. /\ DOMAIN h = {nd.value} /\ h[nd.value] = <<m, 0>>
          /\ Gives(p, m) = Over(h, Listed(m, keys))
      BY <1>2, <1>6, <2>1, <2>4 DEF Gives, Introduces
    <3> QED BY <3>1, OverAt
  <2>6. CASE x \in DOMAIN h
    <3>1. x = nd.value /\ Gives(p, m)[x] = <<m, 0>>
      BY <2>5, <2>6 DEF Overlays
    <3>2. <<m, 0>> \in Declared(p)
      BY <1>2, <1>6, DeclaredAt
    <3>3. NameOf(p, <<m, 0>>) = nd.value
      BY <1>2 DEF NameOf
    <3> QED BY <3>1, <3>2, <3>3
  <2>7. CASE x \notin DOMAIN h
    <3>1. x \in DOMAIN Listed(m, keys) /\ Gives(p, m)[x] = Listed(m, keys)[x]
      BY <2>5, <2>7 DEF Overlays
    <3>2. PICK i \in 1 .. Len(keys) : Gives(p, m)[x] = <<m, i>> /\ keys[i] = x
      BY <1>3, <2>3, <3>1
    <3>3. i \in DOMAIN nd.params /\ i # 0 /\ nd.params[i].value = x
      BY <2>2, <2>3, <3>2, ListFacts
    <3>4. <<m, i>> \in Declared(p)
      BY <1>2, <1>6, <3>3, DeclaredAt
    <3>5. NameOf(p, <<m, i>>) = nd.params[i].value
      BY <1>2, <1>6, <3>3 DEF NameOf
    <3> QED BY <3>2, <3>3, <3>4, <3>5
  <2> QED BY <2>6, <2>7
<1>7. CASE nd.type \notin {"VAR_DEF", "VAR_DEC", "ENUM", "FUNC_DEF"}
  BY <1>2, <1>7 DEF Gives, Introduces
<1> QED BY <1>4, <1>5, <1>6, <1>7

(* A declaration enters its names.                                         *)
LEMMA EnteredMakes ==
    ASSUME Inv, Entered, verdict = "symbols", todo # <<>>, UNCHANGED prog,
           NEW m \in DOMAIN prog.nodes, NEW table, Makes(m, table)
    PROVE  Entered'
<1>1. PICK n : n = Len(scopes)
  OBVIOUS
<1>2. n \in Nat \ {0} /\ DOMAIN scopes = 1 .. n /\ IsList(scopes) /\ scopes # <<>>
  BY <1>1, HeadFacts DEF Inv, ChainOK
<1>3. /\ IsList(Front(scopes)) /\ Len(Front(scopes)) = n - 1
      /\ \A i \in 1 .. (n - 1) : Front(scopes)[i] = scopes[i]
  BY <1>1, <1>2, FrontFacts
<1>4. /\ IsList(scopes') /\ Len(scopes') = n - 1 + 1
      /\ \A i \in 1 .. (n - 1) : scopes'[i] = Front(scopes)[i]
      /\ scopes'[n - 1 + 1] = table
  <2>1. scopes' = Append(Front(scopes), table)
    BY DEF Makes
  <2> QED BY <1>3, <2>1, AppendFacts
<1>5. ASSUME NEW h \in DOMAIN scopes' PROVE h \in DOMAIN scopes /\ (scopes'[h] = table \/ scopes'[h] = scopes[h])
  <2>1. DOMAIN scopes' = 1 .. n /\ n - 1 + 1 = n
    BY <1>2, <1>4, ListFacts
  <2>2. h = n \/ h \in 1 .. (n - 1)
    BY <1>2, <2>1
  <2> QED BY <1>2, <1>3, <1>4, <2>1, <2>2
<1>6. /\ \A h \in DOMAIN scopes : TableOK(scopes[h], DOMAIN syms) /\ Titled(prog, syms, scopes[h])
      /\ \A s \in DOMAIN syms : syms'[s] = syms[s]
      /\ ProgramOK(prog)
  BY SemaAssumption DEF Inv, ChainOK, Entered, Makes
<1>7. Scope = scopes[n] /\ n \in DOMAIN scopes
  BY <1>1, <1>2 DEF Scope, Last
<1>8. \A h \in DOMAIN scopes : Titled(prog, syms', scopes[h])
  BY <1>6 DEF Titled, TableOK
<1>9. ASSUME NEW x \in DOMAIN table
      PROVE  syms'[table[x]].decl \in Declared(prog) /\ NameOf(prog, syms'[table[x]].decl) = x
  <2>1. CASE x \in DOMAIN Gives(prog, m)
    <3>1. syms'[table[x]].decl = Gives(prog, m)[x]
      BY <2>1 DEF Makes
    <3> QED BY <1>6, <2>1, <3>1, GivesDeclared
  <2>2. CASE x \notin DOMAIN Gives(prog, m)
    <3>1. x \in DOMAIN Scope /\ table[x] = Scope[x]
      BY <2>2 DEF Makes
    <3> QED BY <1>7, <1>8, <3>1 DEF Titled
  <2> QED BY <2>1, <2>2
<1>10. \A h \in DOMAIN scopes' : Titled(prog, syms', scopes'[h])
  BY <1>5, <1>8, <1>9 DEF Titled
<1> QED BY <1>10 DEF Entered

LEMMA EnteredNext ==
    ASSUME Inv, Reached, Entered, [Next]_vars
    PROVE  Entered'
<1>0. Framed
  BY DEF Reached
<1>1. CASE DeclareVar
  <2>1. Makes(Head1.node, Bound(Scope, Node.value, NextSym))
    BY <1>0, <1>1, MakesVar
  <2>2. /\ Head1.node \in DOMAIN prog.nodes /\ verdict = "symbols" /\ todo # <<>> /\ UNCHANGED prog
    BY <1>0, <1>1, MakesVar
  <2> QED BY <2>1, <2>2, EnteredMakes
<1>2. CASE CheckEnum
  <2>1. Makes(Head1.node, BoundAll(Scope, Node.enums))
    BY <1>2, MakesEnum
  <2>2. /\ Head1.node \in DOMAIN prog.nodes /\ verdict = "symbols" /\ todo # <<>> /\ UNCHANGED prog
    BY <1>2, MakesEnum
  <2> QED BY <2>1, <2>2, EnteredMakes
<1>3. CASE CheckFuncDef
  <2>1. PICK table : Makes(Head1.node, table) /\ Head1.node \in DOMAIN prog.nodes
                     /\ verdict = "symbols" /\ todo # <<>> /\ UNCHANGED prog
    BY <1>3, MakesFunc
  <2> QED BY <2>1, EnteredMakes
<1>4. CASE CheckCompStmt \/ CheckFor
  <2>1. At("check") /\ EnterScope /\ UNCHANGED <<prog, syms, verdict>>
    BY <1>4, BlockItems
  <2>2. verdict = "symbols" /\ todo # <<>>
    BY <2>1, CheckedNode
  <2>3. PICK n : n = Len(scopes)
    OBVIOUS
  <2>4. n \in Nat \ {0} /\ DOMAIN scopes = 1 .. n /\ IsList(scopes)
    BY <2>2, <2>3, HeadFacts DEF Inv, ChainOK
  <2>5. /\ IsList(scopes') /\ Len(scopes') = n + 1
        /\ \A i \in 1 .. n : scopes'[i] = scopes[i]
        /\ scopes'[n + 1] = Scope
    BY <2>1, <2>3, <2>4, AppendFacts DEF EnterScope
  <2>6. Scope = scopes[n] /\ n \in DOMAIN scopes
    BY <2>3, <2>4 DEF Scope, Last
  <2>7. ASSUME NEW h \in DOMAIN scopes' PROVE \E g \in DOMAIN scopes : scopes'[h] = scopes[g]
    <3>1. DOMAIN scopes' = 1 .. (n + 1)
      BY <2>5, ListFacts
    <3>2. h = n + 1 \/ h \in 1 .. n
      BY <2>4, <3>1
    <3> QED BY <2>4, <2>5, <2>6, <3>2
  <2> QED BY <2>1, <2>2, <2>7 DEF Entered
<1>5. CASE LeaveScope
  <2>1. verdict = "symbols" /\ todo # <<>> /\ UNCHANGED <<prog, syms, verdict>> /\ scopes' = Front(scopes)
    BY <1>5 DEF LeaveScope, At
  <2>2. PICK n : n = Len(scopes)
    OBVIOUS
  <2>3. n \in Nat \ {0} /\ DOMAIN scopes = 1 .. n /\ IsList(scopes) /\ scopes # <<>>
    BY <2>1, <2>2, HeadFacts DEF Inv, ChainOK
  <2>4. IsList(scopes') /\ Len(scopes') = n - 1 /\ \A i \in 1 .. (n - 1) : scopes'[i] = scopes[i]
    BY <2>1, <2>2, <2>3, FrontFacts
  <2>5. \A h \in DOMAIN scopes' : h \in DOMAIN scopes /\ scopes'[h] = scopes[h]
    <3>1. DOMAIN scopes' = 1 .. (n - 1)
      BY <2>4, ListFacts
    <3>2. \A h \in 1 .. (n - 1) : h \in 1 .. n
      BY <2>3
    <3> QED BY <2>3, <2>4, <3>1, <3>2
  <2> QED BY <2>1, <2>5 DEF Entered
<1>6. CASE UNCHANGED <<prog, scopes, syms, verdict>>
  BY <1>6 DEF Entered
<1>7. CASE \/ CheckParts \/ CheckVarDef \/ CheckIdent \/ CheckFuncCall \/ CheckRet
           \/ UNCHANGED vars
  BY <1>6, <1>7 DEF CheckParts, CheckVarDef, CheckIdent, CheckFuncCall, CheckRet, vars
<1>8. CASE Redeclaration \/ UndefinedIdent \/ BadCall \/ SymbolsDone \/ TypeCheck
  <2>1. verdict' # "symbols"
    BY <1>8 DEF Redeclaration, UndefinedIdent, BadCall, Die, SymbolsDone, TypeCheck
  <2> QED BY <2>1 DEF Entered
<1> QED BY <1>1, <1>2, <1>3, <1>4, <1>5, <1>7, <1>8 DEF Next, Case, Stopped

LEMMA EnteredHolds == Spec => []Entered
<1>1. Init => Entered
  <2> SUFFICES ASSUME Init PROVE Entered
    OBVIOUS
  <2>1. scopes = << <<>> >>
    BY DEF Init
  <2>2. DOMAIN scopes = {1} /\ scopes[1] = <<>> /\ DOMAIN <<>> = {}
    <3>1. Len(<<>>) = 0 /\ IsList(<<>>) /\ 1 .. 0 = {}
      BY ListFacts
    <3>2. DOMAIN <<>> = {}
      BY <3>1, ListFacts
    <3> QED BY <2>1, <3>2
  <2>3. \A h \in DOMAIN scopes : DOMAIN scopes[h] = {}
    BY <2>2
  <2> QED BY <2>3 DEF Entered, Titled
<1>2. Inv /\ Reached /\ Entered /\ [Next]_vars => Entered'
  BY EnteredNext
<1> QED BY <1>1, <1>2, Invariance, ReachedHolds, PTL DEF Spec

(* Where no name is used twice, what is declared was not declared before.  *)
LEMMA NoRedeclaration ==
    ASSUME Inv, Once, Entered, Redeclaration
    PROVE  ~NoReuse
<1> SUFFICES ASSUME NoReuse PROVE FALSE
  OBVIOUS
<1>1. At("check") /\ Node.type \in {"VAR_DEF", "VAR_DEC", "FUNC_DEF"} /\ InScope(Node.value)
  BY DEF Redeclaration
<1>2. PICK m \in DOMAIN prog.nodes : m = Head1.node
  BY <1>1, CheckedNode
<1>3. verdict = "symbols" /\ todo # <<>> /\ Node = prog.nodes[m] /\ Head1 = Check(m)
  BY <1>1, <1>2, CheckedNode, CheckView
<1>4. PICK h \in DOMAIN scopes : Node.value \in DOMAIN scopes[h]
  BY <1>1 DEF InScope, Holders
<1>5. PICK s : s = scopes[h][Node.value]
  OBVIOUS
<1>6. s \in DOMAIN syms
  BY <1>4, <1>5 DEF Inv, ChainOK, TableOK
<1>7. syms[s].decl \in Declared(prog) /\ NameOf(prog, syms[s].decl) = Node.value
  BY <1>3, <1>4, <1>5 DEF Entered, Titled
<1>8. <<m, 0>> \in Declared(prog) /\ NameOf(prog, <<m, 0>>) = Node.value
  BY <1>1, <1>3 DEF Declared, NameOf
<1>9. syms[s].decl = <<m, 0>>
  BY <1>7, <1>8 DEF NoReuse
<1>10. PICK met : OnceOn(prog, todo, met) /\ \A r \in DOMAIN syms : syms[r].decl[1] \in met
  BY <1>3 DEF Once
<1>11. m \in met
  BY <1>6, <1>9, <1>10
<1>12. 1 \in DOMAIN todo /\ todo[1] = Check(m)
  <2>1. todo \in Seq(Items(prog.nodes))
    BY DEF Inv
  <2> QED BY <1>3, <2>1 DEF Head1
<1> QED BY <1>10, <1>11, <1>12 DEF OnceOn, Check

LEMMA NoReuseApart ==
    ASSUME ProgramOK(prog), NoReuse
    PROVE  ParamsApart(prog)
<1> SUFFICES ASSUME NEW f \in DOMAIN prog.nodes, prog.nodes[f].type = "FUNC_DEF",
                    NEW g \in DOMAIN prog.nodes, prog.nodes[g].type = "FUNC_DEF",
                    NEW i \in DOMAIN prog.nodes[f].params,
                    prog.nodes[f].params[i].value = prog.nodes[g].value
             PROVE  FALSE
  BY DEF ParamsApart
<1>1. i # 0
  <2>1. IsList(prog.nodes[f].params)
    BY DEF ProgramOK, HeapOK, NodeOK, IsVector, IsList
  <2> QED BY <2>1, ListFacts
<1>2. <<f, i>> \in Declared(prog) /\ <<g, 0>> \in Declared(prog)
  BY DeclaredAt
<1>3. NameOf(prog, <<f, i>>) = NameOf(prog, <<g, 0>>)
  BY <1>1 DEF NameOf
<1>4. <<f, i>> = <<g, 0>>
  BY <1>2, <1>3 DEF NoReuse
<1> QED BY <1>1, <1>4

(* A program of C that uses no name twice passes the checks on symbols: a  *)
(* message about a symbol, or a crash on one, means that the program is    *)
(* none or that a name is declared twice somewhere.                        *)
THEOREM AcceptsAll == Spec => []AcceptsLegal
<1>1. Init => AcceptsLegal
  BY DEF Init, AcceptsLegal
<1>2. /\ Inv /\ Reached /\ Marked /\ SeesLikeC /\ Once /\ Entered /\ AcceptsLegal /\ [Next]_vars
        => AcceptsLegal'
  <2> SUFFICES ASSUME Inv, Reached, Marked, SeesLikeC, Once, Entered, AcceptsLegal, [Next]_vars,
                      verdict' \in {"exit1", "crash"}, NoReuse', todo' # <<>>
               PROVE  Illegal(prog)'
    BY DEF AcceptsLegal
  <2>1. UNCHANGED prog
    BY DEF Next, Case, Stopped, vars, CheckCompStmt, LeaveScope, CheckParts, CheckFor, CheckVarDef,
       DeclareVar, CheckFuncDef, CheckIdent, CheckFuncCall, CheckRet, CheckEnum,
       SymbolsDone, TypeCheck, Redeclaration, UndefinedIdent, BadCall, Die
  <2>2. NoReuse /\ ProgramOK(prog)
    BY <2>1, SemaAssumption DEF NoReuse, Inv
  <2>3. CASE BadCall \/ UndefinedIdent
    <3>1. ParamsApart(prog)
      BY <2>2, NoReuseApart
    <3>2. Illegal(prog)
      BY <2>3, <3>1, StoppedUse
    <3> QED BY <2>1, <3>2
  <2>4. CASE Redeclaration
    BY <2>2, <2>4, NoRedeclaration
  <2>5. CASE TypeCheck
    <3>1. todo' = <<>>
      BY <2>5 DEF TypeCheck, Reached
    <3> QED BY <3>1
  <2>6. CASE SymbolsDone
    BY <2>6 DEF SymbolsDone
  <2>7. CASE UNCHANGED vars
    BY <2>1, <2>7 DEF AcceptsLegal, NoReuse, vars
  <2>8. CASE \/ CheckCompStmt \/ LeaveScope \/ CheckParts \/ CheckFor \/ CheckVarDef
             \/ DeclareVar \/ CheckFuncDef \/ CheckIdent \/ CheckFuncCall \/ CheckRet \/ CheckEnum
    <3>1. verdict' = verdict /\ verdict = "symbols"
      BY <2>8 DEF CheckCompStmt, LeaveScope, CheckParts, CheckFor, CheckVarDef,
         DeclareVar, CheckFuncDef, CheckIdent, CheckFuncCall, CheckRet, CheckEnum, Checking, At
    <3> QED BY <3>1
  <2> QED BY <2>3, <2>4, <2>5, <2>6, <2>7, <2>8 DEF Next, Case, Stopped
<1> QED BY <1>1, <1>2, Invariance, ReachedHolds, MarkedHolds, SeesHolds, OnceHolds, EnteredHolds,
        PTL DEF Spec

=============================================================================
