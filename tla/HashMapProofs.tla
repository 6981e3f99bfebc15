---------------------------- MODULE HashMapProofs ----------------------------
(***************************************************************************)
(* What HashMap promises, for every set of maps, keys and data, every size *)
(* of the table and of the memory: the memory is exact, whatever is added, *)
(* cloned and freed in whatever order, and the maps are those of Maps.     *)
(*                                                                         *)
(* insert(), get and free follow pointers until NULL.  That they come back *)
(* at all, and that what they find is a map, rests on one invariant, Good: *)
(* the nodes of the memory lie on lists that end in NULL, one list for     *)
(* each place of each map, every node on one of them and only once; a node *)
(* is at the place of its key; and no key is twice on a list.  None of its *)
(* parts is inductive alone: insert() hangs a node behind the last of its  *)
(* list, which is at the end of no other list because lists share no node; *)
(* a freed address may be given out again because it is on no list left.   *)
(*                                                                         *)
(* First the lists and how the memory changes under them, then one lemma   *)
(* for each operation and one for each action, and the theorems last.      *)
(***************************************************************************)
EXTENDS HashMap, ListLemmas

-----------------------------------------------------------------------------
(* The lists in the memory.                                                *)

Links == Nat \cup {NULL}
Nodes == [key : Keys, data : Data, next : Links]
Heaps == UNION {[D -> Nodes] : D \in SUBSET (1 .. MaxNodes)}

(* From first, following the nodes leads through s and ends.               *)
Linked(nodes, first, s) ==
    /\ IsList(s)
    /\ \A i \in 1 .. Len(s) : /\ s[i] \in DOMAIN nodes
                              /\ i < Len(s) => nodes[s[i]].next = s[i + 1]
                              /\ i = Len(s) => nodes[s[i]].next = NULL
    /\ Len(s) = 0 => first = NULL
    /\ Len(s) > 0 => first = s[1]

LEMMA HeapFacts ==
    ASSUME NEW nodes \in Heaps
    PROVE  /\ DOMAIN nodes \subseteq Nat /\ DOMAIN nodes \subseteq 1 .. MaxNodes
           /\ NULL \notin DOMAIN nodes /\ NULL \notin Nat
           /\ \A n \in DOMAIN nodes : nodes[n] \in Nodes /\ nodes[n].next \in Links
<1>1. PICK D \in SUBSET (1 .. MaxNodes) : nodes \in [D -> Nodes]
  BY DEF Heaps
<1>2. DOMAIN nodes = D /\ D \subseteq Nat
  BY <1>1, HashMapAssumption
<1>3. NULL \notin Nat
  BY HashMapAssumption
<1> QED BY <1>1, <1>2, <1>3 DEF Nodes

LEMMA LinkedTail ==
    ASSUME NEW nodes \in Heaps, NEW n, NEW s, Linked(nodes, n, s)
    PROVE  /\ n = NULL <=> s = <<>>
           /\ n \in Links
           /\ n # NULL => /\ n \in DOMAIN nodes /\ n = s[1] /\ Len(s) > 0 /\ IsList(s)
                          /\ Linked(nodes, nodes[n].next, Tail(s))
                          /\ Len(Tail(s)) = Len(s) - 1
                          /\ s = <<n>> \o Tail(s)
<1>1. IsList(s) /\ Len(s) \in Nat /\ (s # <<>> => Len(s) > 0) /\ (s = <<>> => Len(s) = 0)
  BY ListFacts, ShortLists DEF Linked
<1>2. n = NULL <=> s = <<>>
  <2>1. ASSUME s # <<>> PROVE n # NULL
    <3>1. 1 \in 1 .. Len(s) /\ n = s[1] /\ s[1] \in DOMAIN nodes
      BY <1>1, <2>1 DEF Linked
    <3> QED BY <3>1, HeapFacts
  <2>2. ASSUME s = <<>> PROVE n = NULL
    BY <1>1, <2>2 DEF Linked
  <2> QED BY <2>1, <2>2
<1>3. ASSUME n # NULL
      PROVE  /\ n \in DOMAIN nodes /\ n = s[1] /\ Len(s) > 0 /\ IsList(s)
             /\ Linked(nodes, nodes[n].next, Tail(s))
             /\ Len(Tail(s)) = Len(s) - 1
             /\ s = <<n>> \o Tail(s)
  <2> DEFINE t == Tail(s)
  <2>1. s # <<>> /\ Len(s) > 0 /\ 1 \in 1 .. Len(s)
    BY <1>1, <1>2, <1>3
  <2>2. n = s[1] /\ n \in DOMAIN nodes
    BY <2>1 DEF Linked
  <2>3. IsList(t) /\ Len(t) = Len(s) - 1 /\ \A k \in 1 .. (Len(s) - 1) : t[k] = s[k + 1]
    BY <1>1, <2>1, TailFacts
  <2>4. s = <<n>> \o t
    <3> DEFINE o == <<n>>
    <3>1. IsList(o) /\ Len(o) = 1 /\ o[1] = n
      BY ShortLists
    <3> HIDE DEF o, t
    <3> DEFINE r == o \o t
    <3>2. /\ IsList(r) /\ Len(r) = Len(o) + Len(t)
          /\ \A k \in 1 .. Len(o) : r[k] = o[k]
          /\ \A k \in 1 .. Len(t) : r[Len(o) + k] = t[k]
      <4>1. IsList(o) /\ IsList(t)
        BY <3>1, <2>3
      <4> QED BY <4>1, JoinedFacts
    <3> HIDE DEF r
    <3>3. Len(r) = Len(s)
      BY <1>1, <2>3, <3>1, <3>2
    <3>4. ASSUME NEW k \in 1 .. Len(s) PROVE s[k] = r[k]
      <4>1. CASE k = 1
        <5>1. 1 \in 1 .. Len(o)
          BY <3>1
        <5> QED BY <2>2, <3>1, <3>2, <4>1, <5>1
      <4>2. CASE k # 1
        <5>1. PICK j \in 1 .. (Len(s) - 1) : k = j + 1 /\ k = 1 + j
          <6>1. k - 1 \in 1 .. (Len(s) - 1) /\ k = (k - 1) + 1 /\ k = 1 + (k - 1)
            BY <1>1, <4>2
          <6> QED BY <6>1
        <5>2. j \in 1 .. Len(t) /\ Len(o) + j = 1 + j
          BY <2>3, <3>1, <5>1
        <5>3. r[Len(o) + j] = t[j]
          BY <3>2, <5>2
        <5>4. r[k] = t[j]
          BY <5>1, <5>2, <5>3
        <5> QED BY <2>3, <5>1, <5>4
      <4> QED BY <4>1, <4>2
    <3>5. s = r
      BY <1>1, <3>2, <3>3, <3>4, SameList
    <3> QED BY <3>5 DEF r, o
  <2> HIDE DEF t
  <2>5. ASSUME NEW i \in 1 .. Len(t)
        PROVE  /\ t[i] \in DOMAIN nodes
               /\ i < Len(t) => nodes[t[i]].next = t[i + 1]
               /\ i = Len(t) => nodes[t[i]].next = NULL
    <3>1. PICK j \in 1 .. Len(s) : j = i + 1
      BY <1>1, <2>3
    <3>2. t[i] = s[j]
      BY <2>3, <3>1
    <3>3. /\ s[j] \in DOMAIN nodes
          /\ j < Len(s) => nodes[s[j]].next = s[j + 1]
          /\ j = Len(s) => nodes[s[j]].next = NULL
      BY DEF Linked
    <3>4. i < Len(t) => t[i + 1] = s[j + 1]
      <4> SUFFICES ASSUME i < Len(t) PROVE t[i + 1] = s[j + 1]
        OBVIOUS
      <4>1. j \in 1 .. (Len(s) - 1)
        BY <1>1, <2>3, <3>1
      <4> QED BY <2>3, <3>1, <4>1
    <3>5. (i < Len(t) <=> j < Len(s)) /\ (i = Len(t) <=> j = Len(s))
      BY <1>1, <2>3, <3>1
    <3> QED BY <3>2, <3>3, <3>4, <3>5
  <2>6. Len(t) = 0 => nodes[n].next = NULL
    <3> SUFFICES ASSUME Len(t) = 0 PROVE nodes[n].next = NULL
      OBVIOUS
    <3>1. 1 = Len(s)
      BY <1>1, <2>3
    <3> QED BY <2>1, <2>2, <3>1 DEF Linked
  <2>7. Len(t) > 0 => nodes[n].next = t[1]
    <3> SUFFICES ASSUME Len(t) > 0 PROVE nodes[n].next = t[1]
      OBVIOUS
    <3>1. 1 < Len(s) /\ 1 \in 1 .. (Len(s) - 1) /\ 1 + 1 = 2
      BY <1>1, <2>3
    <3>2. nodes[s[1]].next = s[1 + 1]
      BY <2>1, <3>1 DEF Linked
    <3>3. t[1] = s[1 + 1]
      BY <2>3, <3>1
    <3> QED BY <2>2, <3>2, <3>3
  <2>8. Linked(nodes, nodes[n].next, t)
    BY <2>3, <2>5, <2>6, <2>7 DEF Linked
  <2> QED BY <1>1, <2>1, <2>2, <2>3, <2>4, <2>8 DEF t
<1>4. n \in Links
  BY <1>3, HeapFacts DEF Links
<1> QED BY <1>2, <1>3, <1>4

(* What holds of NULL, and of a node when it holds of the next, holds of   *)
(* every node of a list.                                                   *)
LEMMA AlongLists ==
    ASSUME NEW nodes \in Heaps, NEW S, NULL \in S,
           \A n \in DOMAIN nodes : nodes[n].next \in S => n \in S,
           NEW n, NEW s, Linked(nodes, n, s)
    PROVE  n \in S
<1> DEFINE P(k) == \A m, r : Linked(nodes, m, r) /\ Len(r) = k => m \in S
           V == {k \in Nat : P(k)}
           f == [k \in 0 .. Len(s) |-> k]
<1>1. Len(s) \in Nat
  BY ListFacts DEF Linked
<1>2. ASSUME NEW m, NEW r, Linked(nodes, m, r), Len(r) = 0
      PROVE  m \in S
  BY <1>2 DEF Linked
<1>3. ASSUME NEW k \in 1 .. Len(s), P(k - 1) PROVE P(k)
  <2> SUFFICES ASSUME NEW m, NEW r, Linked(nodes, m, r), Len(r) = k PROVE m \in S
    OBVIOUS
  <2>1. m # NULL => /\ m \in DOMAIN nodes
                    /\ Linked(nodes, nodes[m].next, Tail(r)) /\ Len(Tail(r)) = Len(r) - 1
    BY LinkedTail
  <2>2. m # NULL => nodes[m].next \in S
    BY <1>3, <2>1
  <2> QED BY <2>1, <2>2
<1>4. f[0] \in V
  <2>1. f[0] = 0
    BY <1>1
  <2>2. P(0)
    BY <1>2
  <2> QED BY <2>1, <2>2
<1>5. ASSUME NEW k \in 1 .. Len(s), f[k - 1] \in V PROVE f[k] \in V
  <2>1. k - 1 \in 0 .. Len(s) /\ k \in 0 .. Len(s) /\ k \in Nat
    BY <1>1
  <2>2. f[k - 1] = k - 1 /\ f[k] = k
    BY <2>1
  <2> HIDE DEF f
  <2>3. P(k - 1)
    BY <1>5, <2>2
  <2>4. P(k)
    BY <1>3, <2>3
  <2> QED BY <2>1, <2>2, <2>4
<1>6. f[Len(s)] \in V /\ f[Len(s)] = Len(s)
  <2>1. \A k \in 0 .. Len(s) : f[k] \in V
    <3> HIDE DEF f, V
    <3> QED BY <1>1, <1>4, <1>5, AlongPositions
  <2> HIDE DEF V
  <2> QED BY <1>1, <2>1
<1>7. P(Len(s))
  BY <1>6
<1> HIDE DEF P
<1>8. P(Len(s)) => n \in S
  BY DEF P
<1> QED BY <1>7, <1>8

LEMMA OneList ==
    ASSUME NEW nodes \in Heaps, NEW n, NEW s, NEW t, Linked(nodes, n, s), Linked(nodes, n, t)
    PROVE  s = t
<1> DEFINE S == {m \in Links : \A q, r : Linked(nodes, m, q) /\ Linked(nodes, m, r) => q = r}
<1>1. NULL \in S
  <2>1. \A q : Linked(nodes, NULL, q) => q = <<>>
    BY LinkedTail
  <2> QED BY <2>1 DEF Links
<1>2. ASSUME NEW m \in DOMAIN nodes, nodes[m].next \in S PROVE m \in S
  <2>1. m \in Links /\ m # NULL
    BY HeapFacts DEF Links
  <2>2. ASSUME NEW q, NEW r, Linked(nodes, m, q), Linked(nodes, m, r) PROVE q = r
    <3>1. /\ Linked(nodes, nodes[m].next, Tail(q)) /\ q = <<m>> \o Tail(q)
          /\ Linked(nodes, nodes[m].next, Tail(r)) /\ r = <<m>> \o Tail(r)
      BY <2>1, <2>2, LinkedTail
    <3>2. Tail(q) = Tail(r)
      BY <1>2, <3>1
    <3> QED BY <3>1, <3>2, Zenon
  <2> QED BY <2>1, <2>2
<1>3. n \in S
  <2> HIDE DEF S
  <2> QED BY <1>1, <1>2, AlongLists
<1> QED BY <1>3

(* Behind every node of a list hangs a list.                               *)
LEMMA RestOfList ==
    ASSUME NEW nodes \in Heaps, NEW n, NEW s, Linked(nodes, n, s), NEW i \in 1 .. Len(s)
    PROVE  \E t : Linked(nodes, s[i], t)
<1>1. IsList(s) /\ Len(s) \in Nat
  BY ListFacts DEF Linked
<1> DEFINE t == [k \in 1 .. (Len(s) - i + 1) |-> s[i + k - 1]]
           l == Len(s) - i + 1
<1>2. l \in Nat /\ l > 0
  BY <1>1
<1>3. IsList(t) /\ Len(t) = l
  <2>1. t = [k \in 1 .. l |-> t[k]]
    OBVIOUS
  <2> HIDE DEF t, l
  <2> QED BY <1>2, <2>1, FunctionIsList
<1>4. \A k \in 1 .. l : t[k] = s[i + k - 1]
  OBVIOUS
<1> HIDE DEF t
<1>5. ASSUME NEW k \in 1 .. l
      PROVE  /\ t[k] \in DOMAIN nodes
             /\ k < l => nodes[t[k]].next = t[k + 1]
             /\ k = l => nodes[t[k]].next = NULL
  <2>1. PICK j \in 1 .. Len(s) : j = i + k - 1
    BY <1>1
  <2>2. /\ s[j] \in DOMAIN nodes
        /\ j < Len(s) => nodes[s[j]].next = s[j + 1]
        /\ j = Len(s) => nodes[s[j]].next = NULL
    BY DEF Linked
  <2>3. t[k] = s[j]
    BY <1>4, <2>1
  <2>4. (k < l <=> j < Len(s)) /\ (k = l <=> j = Len(s))
    BY <1>1, <2>1
  <2>5. k < l => t[k + 1] = s[j + 1]
    <3>1. k < l => k + 1 \in 1 .. l /\ i + (k + 1) - 1 = j + 1
      BY <1>1, <2>1
    <3> QED BY <1>4, <3>1
  <2> QED BY <2>2, <2>3, <2>4, <2>5
<1>6. s[i] = t[1]
  <2>1. 1 \in 1 .. l /\ i + 1 - 1 = i
    BY <1>1
  <2> QED BY <1>4, <2>1
<1>7. Linked(nodes, s[i], t)
  <2> HIDE DEF l
  <2> QED BY <1>2, <1>3, <1>5, <1>6 DEF Linked
<1> QED BY <1>7

(* When every node is in a list, Chain finds the lists.                    *)
LEMMA ChainOf ==
    ASSUME NEW nodes \in Heaps,
           \A n \in DOMAIN nodes : \E m, t : Linked(nodes, m, t) /\ \E i \in 1 .. Len(t) : t[i] = n,
           NEW first, NEW s, Linked(nodes, first, s)
    PROVE  Chain(nodes, first) = s
<1> DEFINE Rec(f) == f = [n \in Nat \cup {NULL} |->
                             IF n = NULL THEN <<>>
                             ELSE IF n \notin DOMAIN nodes THEN <<n>>
                             ELSE <<n>> \o f[nodes[n].next]]
           list == [n \in Links |-> CHOOSE t : Linked(nodes, n, t)]
           g == [n \in Links |-> IF n = NULL THEN <<>>
                                 ELSE IF n \notin DOMAIN nodes THEN <<n>> ELSE list[n]]
           f == CHOOSE x : Rec(x)
<1>1. ASSUME NEW n \in DOMAIN nodes PROVE Linked(nodes, n, g[n])
  <2>1. \E t : Linked(nodes, n, t)
    BY RestOfList
  <2>2. Linked(nodes, n, CHOOSE t : Linked(nodes, n, t))
    BY <2>1
  <2>3. n \in Links /\ n # NULL
    BY HeapFacts DEF Links
  <2>4. g[n] = CHOOSE t : Linked(nodes, n, t)
    BY <2>3
  <2> QED BY <2>2, <2>4
<1>2. ASSUME NEW n \in DOMAIN nodes PROVE g[n] = <<n>> \o g[nodes[n].next]
  <2>1. n # NULL
    BY HeapFacts
  <2>2. Linked(nodes, n, g[n])
    BY <1>1
  <2> HIDE DEF g
  <2>3. Linked(nodes, nodes[n].next, Tail(g[n])) /\ g[n] = <<n>> \o Tail(g[n])
    BY <2>1, <2>2, LinkedTail
  <2>4. g[nodes[n].next] = Tail(g[n])
    <3>1. CASE nodes[n].next = NULL
      <4> DEFINE t == Tail(g[n])
      <4>0. Linked(nodes, NULL, t)
        BY <2>3, <3>1
      <4>1. t = <<>>
        <5> HIDE DEF t
        <5> QED BY <4>0, LinkedTail
      <4>2. g[NULL] = <<>>
        BY DEF g, Links
      <4> QED BY <3>1, <4>1, <4>2
    <3>2. CASE nodes[n].next # NULL
      <4>1. nodes[n].next \in DOMAIN nodes
        BY <2>3, <3>2, LinkedTail
      <4>2. Linked(nodes, nodes[n].next, g[nodes[n].next])
        BY <1>1, <4>1
      <4> QED BY <2>3, <4>2, OneList
    <3> QED BY <3>1, <3>2
  <2> QED BY <2>3, <2>4
<1>3. Rec(g)
  <2>1. \A n \in Links : g[n] = IF n = NULL THEN <<>>
                                ELSE IF n \notin DOMAIN nodes THEN <<n>>
                                ELSE <<n>> \o g[nodes[n].next]
    <3>1. \A n \in Links : n = NULL \/ n \notin DOMAIN nodes =>
              g[n] = IF n = NULL THEN <<>> ELSE <<n>>
      OBVIOUS
    <3> HIDE DEF g
    <3> QED BY <1>2, <3>1
  <2>2. g = [n \in Links |-> g[n]]
    OBVIOUS
  <2> HIDE DEF g
  <2> QED BY <2>1, <2>2 DEF Links
<1>4. Rec(f)
  <2> HIDE DEF Rec
  <2> QED BY <1>3
<1>5. Chain(nodes, first) = f[first]
  BY DEF Chain
<1> HIDE DEF f, g
<1> DEFINE S == {n \in Links : \A t : Linked(nodes, n, t) => f[n] = t}
<1>6. f[NULL] = <<>> /\ \A n \in DOMAIN nodes : f[n] = <<n>> \o f[nodes[n].next]
  <2>1. NULL \in Links /\ \A n \in DOMAIN nodes : n \in Links /\ n # NULL
    BY HeapFacts DEF Links
  <2> QED BY <1>4, <2>1 DEF Links
<1>7. NULL \in S
  <2>1. \A t : Linked(nodes, NULL, t) => t = <<>>
    BY LinkedTail
  <2> QED BY <1>6, <2>1 DEF Links
<1>8. ASSUME NEW n \in DOMAIN nodes, nodes[n].next \in S PROVE n \in S
  <2>1. n \in Links /\ n # NULL
    BY HeapFacts DEF Links
  <2>2. ASSUME NEW t, Linked(nodes, n, t) PROVE f[n] = t
    <3>1. Linked(nodes, nodes[n].next, Tail(t)) /\ t = <<n>> \o Tail(t)
      BY <2>1, <2>2, LinkedTail
    <3>2. f[nodes[n].next] = Tail(t)
      BY <1>8, <3>1
    <3> QED BY <1>6, <3>1, <3>2
  <2> QED BY <2>1, <2>2
<1>9. first \in S
  <2> HIDE DEF S
  <2> QED BY <1>7, <1>8, AlongLists
<1>10. f[first] = s
  BY <1>9
<1> QED BY <1>5, <1>10

-----------------------------------------------------------------------------
(* The maps in the memory: L[m][b] is the list at place b of map m.        *)

AllTables == UNION {[D -> [Places -> Links]] : D \in SUBSET Handles}
States    == [heap : Heaps, tables : AllTables, ok : BOOLEAN]

Once(t, L) ==
    \A m, l \in DOMAIN t : \A b, c \in Places :
        \A i \in 1 .. Len(L[m][b]), j \in 1 .. Len(L[l][c]) :
            L[m][b][i] = L[l][c][j] => m = l /\ b = c /\ i = j
InSome(t, L, n) ==
    \E m \in DOMAIN t : \E b \in Places : \E i \in 1 .. Len(L[m][b]) : L[m][b][i] = n
AtPlace(h, b, s) ==
    \A i \in 1 .. Len(s) : Bucket[h[s[i]].key] = b
KeysOnce(h, s) ==
    \A i, j \in 1 .. Len(s) : h[s[i]].key = h[s[j]].key => i = j
Shape(h, t, L) ==
    /\ h \in Heaps /\ t \in AllTables
    /\ \A m \in DOMAIN t : \A b \in Places :
           Linked(h, t[m][b], L[m][b]) /\ AtPlace(h, b, L[m][b]) /\ KeysOnce(h, L[m][b])
    /\ Once(t, L)
    /\ \A n \in DOMAIN h : InSome(t, L, n)

Chains(h, t) == [m \in DOMAIN t |-> [b \in Places |-> Chain(h, t[m][b])]]
Good(h, t)   == Shape(h, t, Chains(h, t))

LEMMA TableFacts ==
    ASSUME NEW t \in AllTables
    PROVE  /\ DOMAIN t \subseteq Handles
           /\ \A m \in DOMAIN t : t[m] \in [Places -> Links]
BY DEF AllTables

(* However the lists are found, they are those that Chain finds.           *)
LEMMA ShapeIsGood ==
    ASSUME NEW h, NEW t, NEW L, Shape(h, t, L)
    PROVE  /\ \A m \in DOMAIN t : \A b \in Places :
                  Chain(h, t[m][b]) = L[m][b] /\ Chains(h, t)[m][b] = L[m][b]
           /\ Good(h, t)
<1>1. h \in Heaps
  BY DEF Shape
<1>2. ASSUME NEW n \in DOMAIN h
      PROVE  \E m, s : Linked(h, m, s) /\ \E i \in 1 .. Len(s) : s[i] = n
  <2>1. PICK m \in DOMAIN t, b \in Places : \E i \in 1 .. Len(L[m][b]) : L[m][b][i] = n
    BY DEF Shape, InSome
  <2>2. Linked(h, t[m][b], L[m][b])
    BY DEF Shape
  <2> QED BY <2>1, <2>2, Zenon
<1>3. ASSUME NEW m \in DOMAIN t, NEW b \in Places PROVE Chain(h, t[m][b]) = L[m][b]
  <2>1. Linked(h, t[m][b], L[m][b])
    BY DEF Shape
  <2> QED BY <1>1, <1>2, <2>1, ChainOf
<1>4. \A m \in DOMAIN t : \A b \in Places : Chains(h, t)[m][b] = L[m][b]
  BY <1>3 DEF Chains
<1> DEFINE K == Chains(h, t)
<1>5. \A m \in DOMAIN t : \A b \in Places : K[m][b] = L[m][b]
  BY <1>4
<1> HIDE DEF K
<1>6. Shape(h, t, K)
  <2>1. Once(t, K)
    <3>1. Once(t, L)
      BY DEF Shape
    <3> SUFFICES ASSUME NEW m \in DOMAIN t, NEW l \in DOMAIN t, NEW b \in Places, NEW c \in Places,
                        NEW i \in 1 .. Len(K[m][b]), NEW j \in 1 .. Len(K[l][c]),
                        K[m][b][i] = K[l][c][j]
                 PROVE  m = l /\ b = c /\ i = j
      BY DEF Once
    <3>2. K[m][b] = L[m][b] /\ K[l][c] = L[l][c]
      BY <1>5
    <3>3. i \in 1 .. Len(L[m][b]) /\ j \in 1 .. Len(L[l][c]) /\ L[m][b][i] = L[l][c][j]
      BY <3>2
    <3> QED BY <3>1, <3>3 DEF Once
  <2>2. \A n \in DOMAIN h : InSome(t, K, n)
    BY <1>5 DEF Shape, InSome
  <2> QED BY <1>5, <2>1, <2>2 DEF Shape
<1> QED BY <1>3, <1>4, <1>6 DEF Good, K

(* The nodes of a list.                                                    *)
LEMMA NodesOfList ==
    ASSUME NEW h, NEW t, NEW L, Shape(h, t, L), NEW m \in DOMAIN t, NEW b \in Places
    PROVE  LET s == L[m][b] IN
           /\ IsList(s) /\ Len(s) \in Nat /\ DOMAIN s = 1 .. Len(s)
           /\ (s = <<>> <=> Len(s) = 0)
           /\ \A i \in 1 .. Len(s) : s[i] \in DOMAIN h /\ s[i] \in Nat /\ h[s[i]] \in Nodes
<1> DEFINE s == L[m][b]
<1>1. Linked(h, t[m][b], s) /\ h \in Heaps
  BY DEF Shape
<1> HIDE DEF s
<1>2. IsList(s) /\ \A i \in 1 .. Len(s) : s[i] \in DOMAIN h
  BY <1>1 DEF Linked
<1>3. Len(s) \in Nat /\ DOMAIN s = 1 .. Len(s) /\ (s # <<>> => Len(s) > 0)
  BY <1>2, ListFacts
<1>4. s = <<>> => Len(s) = 0
  OBVIOUS
<1>5. \A i \in 1 .. Len(s) : s[i] \in DOMAIN h /\ s[i] \in Nat /\ h[s[i]] \in Nodes
  BY <1>1, <1>2, HeapFacts
<1> QED BY <1>2, <1>3, <1>4, <1>5 DEF s

(* What a search of the list s finds for k.                                *)
Gives(h, s, k, d) ==
    \/ \E i \in 1 .. Len(s) : h[s[i]].key = k /\ h[s[i]].data = d
    \/ d = NULL /\ \A i \in 1 .. Len(s) : h[s[i]].key # k

LEMMA FindGives ==
    ASSUME NEW mem, NEW t, NEW L, Shape(mem.heap, t, L),
           NEW m \in DOMAIN t, NEW k \in Keys
    PROVE  /\ Bucket[k] \in Places
           /\ Gives(mem.heap, L[m][Bucket[k]], k, Find(mem, t[m][Bucket[k]], k))
           /\ \A d : Gives(mem.heap, L[m][Bucket[k]], k, d) => d = Find(mem, t[m][Bucket[k]], k)
<1> DEFINE h == mem.heap
           b == Bucket[k]
           s == L[m][b]
           found == Find(mem, t[m][b], k)
           same == {i \in DOMAIN s : h[s[i]].key = k}
<1>1. b \in Places
  BY HashMapAssumption DEF Places
<1>2. KeysOnce(h, s) /\ Chain(h, t[m][b]) = s
  <2>1. KeysOnce(h, s)
    BY <1>1 DEF Shape
  <2>2. Chain(h, t[m][b]) = s
    <3>1. Shape(h, t, L)
      OBVIOUS
    <3> HIDE DEF h, b
    <3> QED BY <1>1, <3>1, ShapeIsGood
  <2> QED BY <2>1, <2>2
<1>3. DOMAIN s = 1 .. Len(s)
  BY <1>1, NodesOfList
<1>4. found = IF same = {} THEN NULL ELSE h[s[Min(same)]].data
  BY <1>2 DEF Find
<1> HIDE DEF found, h
<1>5. ASSUME NEW i \in 1 .. Len(s), h[s[i]].key = k PROVE found = h[s[i]].data
  <2>1. same = {i}
    BY <1>2, <1>3, <1>5 DEF KeysOnce
  <2>2. i \in Int
    OBVIOUS
  <2> HIDE DEF same, s
  <2>3. Min({i}) = i
    BY <2>2 DEF Min
  <2>4. same # {} /\ Min(same) = i
    BY <2>1, <2>3
  <2> QED BY <1>4, <2>4
<1>6. (\A i \in 1 .. Len(s) : h[s[i]].key # k) => found = NULL
  BY <1>3, <1>4
<1>7. Gives(h, s, k, found) /\ \A d : Gives(h, s, k, d) => d = found
  <2> HIDE DEF s, same
  <2> QED BY <1>5, <1>6 DEF Gives
<1> QED BY <1>1, <1>7 DEF found, h

-----------------------------------------------------------------------------
(* insert().                                                               *)

(* After adding, the searches find what they found before, and the key.    *)
GivesAdded(h, t, L, m, key, data, h2, K) ==
    \A l \in DOMAIN t, k \in Keys : \A d :
        Gives(h2, K[l][Bucket[k]], k, d) <=>
            IF l = m /\ k = key THEN d = data ELSE Gives(h, L[l][Bucket[k]], k, d)

(* A new node at the end of the list s.                                    *)
Hung(h, s, n, key, data, h2) ==
    /\ DOMAIN h2 = DOMAIN h \cup {n}
    /\ h2[n].key = key /\ h2[n].data = data /\ h2[n].next = NULL
    /\ \A x \in DOMAIN h :
           /\ h2[x].key = h[x].key /\ h2[x].data = h[x].data
           /\ Len(s) > 0 /\ x = s[Len(s)] => h2[x].next = n
           /\ ~(Len(s) > 0 /\ x = s[Len(s)]) => h2[x].next = h[x].next

LEMMA ListGrows ==
    ASSUME NEW h \in Heaps, NEW first, NEW s, Linked(h, first, s),
           \A i, j \in 1 .. Len(s) : s[i] = s[j] => i = j,
           NEW n \in Nat, n \notin DOMAIN h, NEW key, NEW data, NEW h2, Hung(h, s, n, key, data, h2),
           NEW b, AtPlace(h, b, s), KeysOnce(h, s), Bucket[key] = b,
           \A i \in 1 .. Len(s) : h[s[i]].key # key
    PROVE  LET r == Append(s, n) IN
           /\ Len(s) \in Nat /\ Len(r) = Len(s) + 1 /\ IsList(r)
           /\ r[Len(s) + 1] = n /\ \A i \in 1 .. Len(s) : r[i] = s[i]
           /\ Linked(h2, IF Len(s) = 0 THEN n ELSE first, r)
           /\ AtPlace(h2, b, r) /\ KeysOnce(h2, r)
<1> DEFINE r == Append(s, n)
           l == Len(s)
<1>1. IsList(s) /\ l \in Nat
  BY ListFacts DEF Linked
<1>2. IsList(r) /\ Len(r) = l + 1 /\ r[l + 1] = n /\ \A i \in 1 .. l : r[i] = s[i]
  BY <1>1, AppendFacts
<1> HIDE DEF r
<1>3. ASSUME NEW i \in 1 .. l
      PROVE  /\ s[i] \in DOMAIN h /\ s[i] # n
             /\ i < l => h[s[i]].next = s[i + 1]
             /\ s[i] = s[l] => i = l
             /\ h2[s[i]].key = h[s[i]].key
  <2>1. s[i] \in DOMAIN h /\ (i < Len(s) => h[s[i]].next = s[i + 1])
    BY DEF Linked
  <2>2. l \in 1 .. l
    BY <1>1
  <2>3. s[i] = s[l] => i = l
    BY <2>2
  <2> QED BY <2>1, <2>3 DEF Hung
<1>4. ASSUME NEW i \in 1 .. Len(r)
      PROVE  /\ r[i] \in DOMAIN h2
             /\ i < Len(r) => h2[r[i]].next = r[i + 1]
             /\ i = Len(r) => h2[r[i]].next = NULL
  <2>1. CASE i = l + 1
    <3>1. r[i] = n /\ ~(i < Len(r))
      BY <1>1, <1>2, <2>1
    <3> QED BY <3>1 DEF Hung
  <2>2. CASE i # l + 1
    <3>1. i \in 1 .. l /\ i < Len(r) /\ i # Len(r)
      BY <1>1, <1>2, <2>2
    <3>2. r[i] = s[i] /\ s[i] \in DOMAIN h
      BY <1>2, <1>3, <3>1
    <3>3. r[i] \in DOMAIN h2
      BY <3>2 DEF Hung
    <3>4. CASE i = l
      <4>1. h2[s[i]].next = n
        BY <1>1, <3>1, <3>2, <3>4 DEF Hung
      <4> QED BY <1>2, <3>1, <3>2, <3>3, <3>4, <4>1
    <3>5. CASE i # l
      <4>1. i < l /\ i + 1 \in 1 .. l
        BY <1>1, <3>1, <3>5
      <4>2. h[s[i]].next = s[i + 1] /\ s[i] # s[l]
        BY <1>3, <3>1, <3>5, <4>1
      <4>3. h2[s[i]].next = s[i + 1]
        BY <3>2, <4>2 DEF Hung
      <4> QED BY <1>2, <3>1, <3>2, <3>3, <4>1, <4>3
    <3> QED BY <3>4, <3>5
  <2> QED BY <2>1, <2>2
<1>5. Linked(h2, IF l = 0 THEN n ELSE first, r)
  <2>1. Len(r) > 0
    BY <1>1, <1>2
  <2>2. (IF l = 0 THEN n ELSE first) = r[1]
    <3>1. CASE l = 0
      BY <1>2, <3>1
    <3>2. CASE l # 0
      <4>1. 1 \in 1 .. l /\ first = s[1]
        BY <1>1, <3>2 DEF Linked
      <4> QED BY <1>2, <3>2, <4>1
    <3> QED BY <3>1, <3>2
  <2> HIDE DEF l
  <2> QED BY <1>2, <1>4, <2>1, <2>2 DEF Linked
<1>6. ASSUME NEW i \in 1 .. Len(r)
      PROVE  \/ i \in 1 .. l /\ r[i] = s[i] /\ h2[r[i]].key = h[s[i]].key /\ h2[r[i]].key # key
             \/ i = l + 1 /\ h2[r[i]].key = key
  <2>1. i \in 1 .. l \/ i = l + 1
    BY <1>1, <1>2
  <2> QED BY <1>2, <1>3, <2>1 DEF Hung
<1>7. AtPlace(h2, b, r)
  <2> SUFFICES ASSUME NEW i \in 1 .. Len(r) PROVE Bucket[h2[r[i]].key] = b
    BY DEF AtPlace
  <2>1. i \in 1 .. l => Bucket[h[s[i]].key] = b
    BY DEF AtPlace
  <2> QED BY <1>6, <2>1
<1>8. KeysOnce(h2, r)
  <2> SUFFICES ASSUME NEW i \in 1 .. Len(r), NEW j \in 1 .. Len(r), h2[r[i]].key = h2[r[j]].key
               PROVE  i = j
    BY DEF KeysOnce
  <2>1. i \in 1 .. l /\ j \in 1 .. l /\ h[s[i]].key = h[s[j]].key => i = j
    BY DEF KeysOnce
  <2> QED BY <1>6, <2>1
<1> QED BY <1>1, <1>2, <1>5, <1>7, <1>8 DEF r, l

(* A list the node is not hung to.                                         *)
LEMMA ListStays ==
    ASSUME NEW h, NEW first, NEW s, Linked(h, first, s), NEW b, AtPlace(h, b, s), KeysOnce(h, s),
           NEW h2,
           \A i \in 1 .. Len(s) : /\ s[i] \in DOMAIN h2
                                  /\ h2[s[i]].key = h[s[i]].key
                                  /\ h2[s[i]].next = h[s[i]].next
    PROVE  Linked(h2, first, s) /\ AtPlace(h2, b, s) /\ KeysOnce(h2, s)
BY DEF Linked, AtPlace, KeysOnce

LEMMA NodeHung ==
    ASSUME NEW h, NEW t, NEW L, Shape(h, t, L),
           NEW m \in DOMAIN t, NEW key \in Keys, NEW data \in Data,
           NEW n \in 1 .. MaxNodes, n \notin DOMAIN h,
           \A i \in 1 .. Len(L[m][Bucket[key]]) : h[L[m][Bucket[key]][i]].key # key,
           NEW h2 \in Heaps, Hung(h, L[m][Bucket[key]], n, key, data, h2),
           NEW t2 \in AllTables, DOMAIN t2 = DOMAIN t,
           \A l \in DOMAIN t : \A c \in Places : t2[l][c] =
               IF l = m /\ c = Bucket[key] /\ Len(L[m][Bucket[key]]) = 0 THEN n ELSE t[l][c]
    PROVE  LET K == [l \in DOMAIN t |-> [c \in Places |->
                        IF l = m /\ c = Bucket[key] THEN Append(L[l][c], n) ELSE L[l][c]]]
           IN  Shape(h2, t2, K) /\ GivesAdded(h, t, L, m, key, data, h2, K)
<1> DEFINE K == [l \in DOMAIN t |-> [c \in Places |->
                        IF l = m /\ c = Bucket[key] THEN Append(L[l][c], n) ELSE L[l][c]]]
           b == Bucket[key]
           s == L[m][b]
           r == Append(s, n)
<1>1. b \in Places /\ n \in Nat /\ h \in Heaps
  BY HashMapAssumption DEF Places, Shape
<1>2. /\ Len(s) \in Nat /\ Len(r) = Len(s) + 1 /\ IsList(r)
      /\ r[Len(s) + 1] = n /\ \A i \in 1 .. Len(s) : r[i] = s[i]
      /\ Linked(h2, IF Len(s) = 0 THEN n ELSE t[m][b], r)
      /\ AtPlace(h2, b, r) /\ KeysOnce(h2, r)
  <2>1. Linked(h, t[m][b], s) /\ AtPlace(h, b, s) /\ KeysOnce(h, s)
    BY <1>1 DEF Shape
  <2>2. \A i, j \in 1 .. Len(s) : s[i] = s[j] => i = j
    BY <1>1 DEF Shape, Once
  <2>3. Bucket[key] = b /\ Hung(h, s, n, key, data, h2) /\ \A i \in 1 .. Len(s) : h[s[i]].key # key
    OBVIOUS
  <2> HIDE DEF s, b, K
  <2> QED BY <1>1, <2>1, <2>2, <2>3, ListGrows
<1>3. /\ K[m][b] = r
      /\ \A l \in DOMAIN t : \A c \in Places : ~(l = m /\ c = b) => K[l][c] = L[l][c]
  BY <1>1
<1> HIDE DEF K, r
<1>4. ASSUME NEW l \in DOMAIN t, NEW c \in Places, ~(l = m /\ c = b), NEW i \in 1 .. Len(L[l][c])
      PROVE  LET x == L[l][c][i] IN
             /\ x \in DOMAIN h /\ x # n /\ x \in DOMAIN h2
             /\ h2[x].key = h[x].key /\ h2[x].data = h[x].data /\ h2[x].next = h[x].next
  <2> DEFINE x == L[l][c][i]
  <2>1. x \in DOMAIN h
    BY NodesOfList
  <2>2. Len(s) > 0 => x # s[Len(s)]
    <3> SUFFICES ASSUME Len(s) > 0, x = s[Len(s)] PROVE FALSE
      OBVIOUS
    <3>1. Len(s) \in 1 .. Len(s)
      BY <1>2
    <3>2. Once(t, L) /\ L[m][b][Len(s)] = L[l][c][i]
      BY DEF Shape
    <3>3. m = l /\ b = c
      <4> HIDE DEF b, x, s
      <4>1. Len(s) \in 1 .. Len(L[m][b])
        BY <3>1 DEF s
      <4> QED BY <1>1, <3>2, <4>1 DEF Once
    <3> QED BY <1>4, <3>3
  <2> HIDE DEF x
  <2> QED BY <2>1, <2>2 DEF Hung, x
<1>5. ASSUME NEW l \in DOMAIN t, NEW c \in Places
      PROVE  Linked(h2, t2[l][c], K[l][c]) /\ AtPlace(h2, c, K[l][c]) /\ KeysOnce(h2, K[l][c])
  <2>1. CASE l = m /\ c = b
    BY <1>2, <1>3, <2>1
  <2>2. CASE ~(l = m /\ c = b)
    <3>1. Linked(h, t[l][c], L[l][c]) /\ AtPlace(h, c, L[l][c]) /\ KeysOnce(h, L[l][c])
      BY DEF Shape
    <3>2. t2[l][c] = t[l][c] /\ K[l][c] = L[l][c]
      BY <1>3, <2>2
    <3> DEFINE q == L[l][c]
    <3>3. \A i \in 1 .. Len(q) : /\ q[i] \in DOMAIN h2
                                 /\ h2[q[i]].key = h[q[i]].key
                                 /\ h2[q[i]].next = h[q[i]].next
      BY <1>4, <2>2
    <3>4. Linked(h, t[l][c], q) /\ AtPlace(h, c, q) /\ KeysOnce(h, q) /\ K[l][c] = q
      BY <3>1, <3>2
    <3> HIDE DEF q
    <3> QED BY <3>2, <3>3, <3>4, ListStays
  <2> QED BY <2>1, <2>2
<1>6. ASSUME NEW l \in DOMAIN t, NEW c \in Places, NEW i \in 1 .. Len(K[l][c])
      PROVE  \/ i \in 1 .. Len(L[l][c]) /\ K[l][c][i] = L[l][c][i] /\ K[l][c][i] # n
             \/ l = m /\ c = b /\ i = Len(s) + 1 /\ K[l][c][i] = n
  <2>1. CASE l = m /\ c = b
    <3>1. i \in 1 .. Len(s) \/ i = Len(s) + 1
      BY <1>2, <1>3, <2>1
    <3>2. i \in 1 .. Len(s) => s[i] \in DOMAIN h
      BY <1>1, NodesOfList
    <3> QED BY <1>2, <1>3, <2>1, <3>1, <3>2
  <2>2. CASE ~(l = m /\ c = b)
    BY <1>3, <1>4, <2>2
  <2> QED BY <2>1, <2>2
<1>7. Once(t2, K)
  <2> SUFFICES ASSUME NEW l \in DOMAIN t, NEW p \in DOMAIN t, NEW c \in Places, NEW e \in Places,
                      NEW i \in 1 .. Len(K[l][c]), NEW j \in 1 .. Len(K[p][e]),
                      K[l][c][i] = K[p][e][j]
               PROVE  l = p /\ c = e /\ i = j
    BY DEF Once
  <2>1. Once(t, L)
    BY DEF Shape
  <2>2. CASE K[l][c][i] = n
    <3>1. l = m /\ c = b /\ i = Len(s) + 1
      BY <1>6, <2>2
    <3>2. K[p][e][j] = n
      BY <2>2
    <3>3. p = m /\ e = b /\ j = Len(s) + 1
      <4> HIDE DEF b, s
      <4> QED BY <1>6, <3>2
    <3> QED BY <3>1, <3>3
  <2>3. CASE K[l][c][i] # n
    <3>1. /\ i \in 1 .. Len(L[l][c]) /\ K[l][c][i] = L[l][c][i]
          /\ j \in 1 .. Len(L[p][e]) /\ K[p][e][j] = L[p][e][j]
      BY <1>6, <2>3
    <3>2. L[l][c][i] = L[p][e][j]
      BY <3>1
    <3> HIDE DEF b, s
    <3> QED BY <2>1, <3>1, <3>2 DEF Once
  <2> QED BY <2>2, <2>3
<1>8. ASSUME NEW x \in DOMAIN h2 PROVE InSome(t2, K, x)
  <2>1. CASE x = n
    <3>1. Len(s) + 1 \in 1 .. Len(K[m][b]) /\ K[m][b][Len(s) + 1] = n
      BY <1>2, <1>3
    <3> QED BY <1>1, <2>1, <3>1 DEF InSome
  <2>2. CASE x # n
    <3>1. x \in DOMAIN h
      BY <2>2 DEF Hung
    <3>2. PICK l \in DOMAIN t, c \in Places : \E i \in 1 .. Len(L[l][c]) : L[l][c][i] = x
      BY <3>1 DEF Shape, InSome
    <3>3. PICK i \in 1 .. Len(L[l][c]) : L[l][c][i] = x
      BY <3>2
    <3>4. i \in 1 .. Len(K[l][c]) /\ K[l][c][i] = x
      <4>1. CASE l = m /\ c = b
        BY <1>2, <1>3, <3>3, <4>1
      <4>2. CASE ~(l = m /\ c = b)
        BY <1>3, <3>3, <4>2
      <4> QED BY <4>1, <4>2
    <3> QED BY <3>4 DEF InSome
  <2> QED BY <2>1, <2>2
<1>9. Shape(h2, t2, K)
  BY <1>5, <1>7, <1>8 DEF Shape
<1>10. ASSUME NEW l \in DOMAIN t, NEW k \in Keys, NEW d
       PROVE  Gives(h2, K[l][Bucket[k]], k, d) <=>
                  IF l = m /\ k = key THEN d = data ELSE Gives(h, L[l][Bucket[k]], k, d)
  <2> DEFINE c == Bucket[k]
             q == K[l][c]
             o == L[l][c]
  <2>1. c \in Places
    BY HashMapAssumption DEF Places
  <2>2. \A i \in 1 .. Len(o) : /\ i \in 1 .. Len(q) /\ q[i] = o[i]
                               /\ h2[q[i]].key = h[o[i]].key /\ h2[q[i]].data = h[o[i]].data
    <3>1. CASE l = m /\ c = b
      <4>1. \A i \in 1 .. Len(s) : i \in 1 .. Len(r) /\ r[i] = s[i] /\ s[i] \in DOMAIN h
        BY <1>1, <1>2, NodesOfList
      <4> QED BY <1>3, <3>1, <4>1 DEF Hung
    <3>2. CASE ~(l = m /\ c = b)
      <4>1. q = o
        BY <1>3, <2>1, <3>2
      <4>2. \A i \in 1 .. Len(L[l][c]) : /\ h2[L[l][c][i]].key = h[L[l][c][i]].key
                                         /\ h2[L[l][c][i]].data = h[L[l][c][i]].data
        BY <1>4, <2>1, <3>2
      <4> HIDE DEF q, o
      <4> QED BY <4>1, <4>2 DEF o
    <3> QED BY <3>1, <3>2
  <2>3. \A i \in 1 .. Len(q) : i \in 1 .. Len(o) \/ (l = m /\ c = b /\ q[i] = n)
    BY <1>6, <2>1
  <2>4. l = m /\ c = b => \E i \in 1 .. Len(q) : q[i] = n
    <3>1. l = m /\ c = b => Len(s) + 1 \in 1 .. Len(q) /\ q[Len(s) + 1] = n
      BY <1>2, <1>3
    <3> QED BY <3>1
  <2>5. h2[n].key = key /\ h2[n].data = data
    BY DEF Hung
  <2>6. l = m /\ k = key => \A i \in 1 .. Len(o) : h[o[i]].key # k
    OBVIOUS
  <2>7. l = m /\ k = key => c = b
    OBVIOUS
  <2> HIDE DEF q, o, c
  <2>8. CASE l = m /\ k = key
    <3>1. \A i \in 1 .. Len(q) : h2[q[i]].key = k => q[i] = n
      BY <2>2, <2>3, <2>6, <2>8
    <3> QED BY <2>4, <2>5, <2>7, <2>8, <3>1 DEF Gives, q, o, c
  <2>9. CASE ~(l = m /\ k = key)
    <3>1. \A i \in 1 .. Len(q) : h2[q[i]].key = k => i \in 1 .. Len(o)
      BY <2>3, <2>5, <2>9
    <3>2. Gives(h2, q, k, d) <=> Gives(h, o, k, d)
      BY <2>2, <3>1 DEF Gives
    <3> QED BY <2>9, <3>2 DEF q, o, c
  <2> QED BY <2>8, <2>9
<1> QED BY <1>9, <1>10 DEF K, GivesAdded

(* A key that is there keeps its node.                                     *)
LEMMA DataSet ==
    ASSUME NEW h, NEW t, NEW L, Shape(h, t, L),
           NEW m \in DOMAIN t, NEW key \in Keys, NEW data,
           NEW i \in 1 .. Len(L[m][Bucket[key]]), h[L[m][Bucket[key]][i]].key = key,
           NEW h2 \in Heaps, DOMAIN h2 = DOMAIN h,
           \A x \in DOMAIN h :
               /\ h2[x].key = h[x].key /\ h2[x].next = h[x].next
               /\ x = L[m][Bucket[key]][i] => h2[x].data = data
               /\ x # L[m][Bucket[key]][i] => h2[x].data = h[x].data
    PROVE  Shape(h2, t, L) /\ GivesAdded(h, t, L, m, key, data, h2, L)
<1> DEFINE b == Bucket[key]
           s == L[m][b]
<1>1. b \in Places /\ Once(t, L) /\ KeysOnce(h, s) /\ t \in AllTables
  BY HashMapAssumption DEF Places, Shape
<1>2. ASSUME NEW l \in DOMAIN t, NEW c \in Places
      PROVE  Linked(h2, t[l][c], L[l][c]) /\ AtPlace(h2, c, L[l][c]) /\ KeysOnce(h2, L[l][c])
  <2> DEFINE q == L[l][c]
  <2>1. Linked(h, t[l][c], q) /\ AtPlace(h, c, q) /\ KeysOnce(h, q)
    BY DEF Shape
  <2>2. \A j \in 1 .. Len(q) : q[j] \in DOMAIN h
    BY NodesOfList
  <2>3. \A j \in 1 .. Len(q) : /\ q[j] \in DOMAIN h2
                               /\ h2[q[j]].key = h[q[j]].key /\ h2[q[j]].next = h[q[j]].next
    BY <2>2
  <2> HIDE DEF q
  <2>4. Linked(h2, t[l][c], q) /\ AtPlace(h2, c, q) /\ KeysOnce(h2, q)
    BY <2>1, <2>3, ListStays
  <2> QED BY <2>4 DEF q
<1>3. Shape(h2, t, L)
  <2>1. \A x \in DOMAIN h2 : InSome(t, L, x)
    BY DEF Shape
  <2> QED BY <1>1, <1>2, <2>1 DEF Shape
<1>4. ASSUME NEW l \in DOMAIN t, NEW k \in Keys, NEW d
      PROVE  Gives(h2, L[l][Bucket[k]], k, d) <=>
                 IF l = m /\ k = key THEN d = data ELSE Gives(h, L[l][Bucket[k]], k, d)
  <2> DEFINE c == Bucket[k]
             q == L[l][c]
  <2>1. c \in Places
    BY HashMapAssumption DEF Places
  <2>2. \A j \in 1 .. Len(q) : q[j] \in DOMAIN h
    BY <2>1, NodesOfList
  <2>3. CASE l = m /\ k = key
    <3>1. q = s
      BY <2>3
    <3>2. \A j \in 1 .. Len(s) : h[s[j]].key = key => j = i
      <4>1. i \in 1 .. Len(s) /\ h[s[i]].key = key
        OBVIOUS
      <4> HIDE DEF s, b
      <4> QED BY <1>1, <4>1 DEF KeysOnce
    <3>3. s[i] \in DOMAIN h /\ h2[s[i]].key = key /\ h2[s[i]].data = data /\ i \in 1 .. Len(s)
      BY <2>2, <2>3
    <3>4. \A j \in 1 .. Len(s) : h2[s[j]].key = h[s[j]].key
      BY <2>2, <3>1
    <3> HIDE DEF s, b
    <3>5. Gives(h2, s, key, d) <=> d = data
      BY <3>2, <3>3, <3>4 DEF Gives
    <3> QED BY <2>3, <3>1, <3>5 DEF q
  <2>4. CASE ~(l = m /\ k = key)
    <3>1. ASSUME NEW j \in 1 .. Len(q), h[q[j]].key = k PROVE q[j] # s[i]
      <4>1. CASE k = key
        <5> SUFFICES ASSUME q[j] = s[i] PROVE FALSE
          OBVIOUS
        <5>1. i \in 1 .. Len(L[m][b]) /\ L[l][c][j] = L[m][b][i] /\ b \in Places
          BY <1>1
        <5> HIDE DEF b, s
        <5>2. l = m
          BY <1>1, <2>1, <5>1 DEF Once, q, c
        <5> QED BY <2>4, <4>1, <5>2
      <4>2. CASE k # key
        BY <3>1, <4>2
      <4> QED BY <4>1, <4>2
    <3>2. \A j \in 1 .. Len(q) : /\ h2[q[j]].key = h[q[j]].key
                                 /\ h[q[j]].key = k => h2[q[j]].data = h[q[j]].data
      BY <2>2, <3>1
    <3> HIDE DEF q
    <3>3. Gives(h2, q, k, d) <=> Gives(h, q, k, d)
      BY <3>2 DEF Gives
    <3> QED BY <2>4, <3>3 DEF q
  <2> QED BY <2>3, <2>4
<1> QED BY <1>3, <1>4 DEF GivesAdded

Look(mem, m, k) == Find(mem, mem.tables[m][Bucket[k]], k)

LEMMA StateFacts ==
    ASSUME NEW mem \in States
    PROVE  /\ mem.heap \in Heaps /\ mem.tables \in AllTables /\ mem.ok \in BOOLEAN
           /\ DOMAIN mem.heap \subseteq 1 .. MaxNodes
           /\ \A x, y, z : /\ [mem EXCEPT !.heap = x] = [heap |-> x, tables |-> mem.tables, ok |-> mem.ok]
                           /\ [mem EXCEPT !.tables = y] = [heap |-> mem.heap, tables |-> y, ok |-> mem.ok]
                           /\ [mem EXCEPT !.ok = z] = [heap |-> mem.heap, tables |-> mem.tables, ok |-> z]
<1>1. mem.heap \in Heaps /\ mem.tables \in AllTables /\ mem.ok \in BOOLEAN
  BY DEF States
<1>2. mem = [heap |-> mem.heap, tables |-> mem.tables, ok |-> mem.ok]
  BY DEF States
<1> QED BY <1>1, <1>2, HeapFacts

LEMMA FreshFacts ==
    ASSUME NEW mem, Free(mem) # {}
    PROVE  Fresh(mem) \in 1 .. MaxNodes /\ Fresh(mem) \notin DOMAIN mem.heap
<1>1. Free(mem) \in SUBSET Nat
  BY HashMapAssumption DEF Free
<1>2. \E n \in Free(mem) : \A x \in Free(mem) : n <= x
  BY <1>1, LeastOf
<1>3. Fresh(mem) \in Free(mem)
  BY <1>2 DEF Fresh
<1> QED BY <1>3 DEF Free

LEMMA LookGives ==
    ASSUME NEW mem, NEW L, Shape(mem.heap, mem.tables, L),
           NEW m \in DOMAIN mem.tables, NEW k \in Keys
    PROVE  /\ Gives(mem.heap, L[m][Bucket[k]], k, Look(mem, m, k))
           /\ \A d : Gives(mem.heap, L[m][Bucket[k]], k, d) => d = Look(mem, m, k)
<1> DEFINE t == mem.tables
           found == Find(mem, t[m][Bucket[k]], k)
<1>1. Shape(mem.heap, t, L) /\ m \in DOMAIN t
  OBVIOUS
<1>2. found = Look(mem, m, k)
  BY DEF Look
<1>3. /\ Gives(mem.heap, L[m][Bucket[k]], k, found)
      /\ \A d : Gives(mem.heap, L[m][Bucket[k]], k, d) => d = found
  <2> HIDE DEF t
  <2> QED BY <1>1, FindGives
<1> HIDE DEF found
<1> QED BY <1>2, <1>3

LEMMA HeapIs ==
    ASSUME NEW h, DOMAIN h \subseteq 1 .. MaxNodes, h = [x \in DOMAIN h |-> h[x]],
           \A x \in DOMAIN h : h[x] \in Nodes
    PROVE  h \in Heaps
<1>1. h \in [DOMAIN h -> Nodes]
  OBVIOUS
<1> QED BY <1>1 DEF Heaps

LEMMA TablesAre ==
    ASSUME NEW t, DOMAIN t \subseteq Handles, t = [m \in DOMAIN t |-> t[m]],
           \A m \in DOMAIN t : t[m] \in [Places -> Links]
    PROVE  t \in AllTables
<1>1. t \in [DOMAIN t -> [Places -> Links]]
  OBVIOUS
<1> QED BY <1>1 DEF AllTables

(* A map with the entry and the others as they were.                       *)
Added(mem, m, data, key, g) ==
    /\ g \in States /\ Good(g.heap, g.tables) /\ DOMAIN g.tables = DOMAIN mem.tables
    /\ \A l \in DOMAIN mem.tables, k \in Keys :
           Look(g, l, k) = IF l = m /\ k = key THEN data ELSE Look(mem, l, k)

LEMMA AddedFrom ==
    ASSUME NEW mem \in States, NEW L, Shape(mem.heap, mem.tables, L),
           NEW m \in DOMAIN mem.tables, NEW key \in Keys, NEW data,
           NEW g \in States, NEW K, Shape(g.heap, g.tables, K), DOMAIN g.tables = DOMAIN mem.tables,
           GivesAdded(mem.heap, mem.tables, L, m, key, data, g.heap, K)
    PROVE  Added(mem, m, data, key, g)
<1>1. ASSUME NEW l \in DOMAIN mem.tables, NEW k \in Keys
      PROVE  Look(g, l, k) = IF l = m /\ k = key THEN data ELSE Look(mem, l, k)
  <2> DEFINE d == Look(g, l, k)
  <2>1. Gives(g.heap, K[l][Bucket[k]], k, d)
    BY LookGives
  <2> HIDE DEF d
  <2>2. IF l = m /\ k = key THEN d = data ELSE Gives(mem.heap, L[l][Bucket[k]], k, d)
    BY <2>1 DEF GivesAdded
  <2>3. Gives(mem.heap, L[l][Bucket[k]], k, d) => d = Look(mem, l, k)
    BY LookGives
  <2> QED BY <2>2, <2>3 DEF d
<1>2. Good(g.heap, g.tables)
  BY ShapeIsGood
<1> QED BY <1>1, <1>2 DEF Added

LEMMA InsertFacts ==
    ASSUME NEW mem \in States, Good(mem.heap, mem.tables), Free(mem) # {},
           NEW m \in DOMAIN mem.tables, NEW key \in Keys, NEW data \in Data,
           NEW g, g = Insert(mem, m, Bucket[key], data, key)
    PROVE  Added(mem, m, data, key, g) /\ g.ok = mem.ok
<1> DEFINE h == mem.heap
           t == mem.tables
           L == Chains(h, t)
           b == Bucket[key]
           n == Fresh(mem)
           node == [key |-> key, data |-> data, next |-> NULL]
           chain == Chain(h, t[m][b])
           same == {i \in DOMAIN chain : h[chain[i]].key = key}
           made == Updated(h, n, node)
           s == L[m][b]
<1>1. /\ h \in Heaps /\ t \in AllTables /\ mem.ok \in BOOLEAN /\ Shape(h, t, L)
      /\ b \in Places /\ n \in 1 .. MaxNodes /\ n \notin DOMAIN h /\ n \in Nat
  BY StateFacts, FreshFacts, HashMapAssumption DEF Good, Places
<1>2. chain = s
  BY <1>1, ShapeIsGood
<1>3. /\ IsList(s) /\ Len(s) \in Nat /\ DOMAIN s = 1 .. Len(s) /\ (s = <<>> <=> Len(s) = 0)
      /\ \A i \in 1 .. Len(s) : s[i] \in DOMAIN h /\ h[s[i]] \in Nodes
  <2>1. m \in DOMAIN t
    OBVIOUS
  <2> HIDE DEF L, h, t, b
  <2> QED BY <1>1, <2>1, NodesOfList
<1>4. /\ DOMAIN made = DOMAIN h \cup {n} /\ made = [x \in DOMAIN made |-> made[x]]
      /\ made[n] = node /\ node \in Nodes
      /\ \A x \in DOMAIN h : made[x] = h[x] /\ h[x] \in Nodes
  <2>1. \A x \in DOMAIN h : h[x] \in Nodes
    BY <1>1, HeapFacts
  <2>2. node \in Nodes
    BY DEF Nodes, Links
  <2> QED BY <1>1, <2>1, <2>2 DEF Updated
<1>5. made \in Heaps
  <2>1. DOMAIN made \subseteq 1 .. MaxNodes /\ \A x \in DOMAIN made : made[x] \in Nodes
    BY <1>1, <1>4, StateFacts
  <2> HIDE DEF made
  <2> QED BY <1>4, <2>1, HeapIs
<1>6. DOMAIN t \subseteq Handles /\ \A l \in DOMAIN t : t[l] \in [Places -> Links]
  BY <1>1, TableFacts
<1>7. CASE s = <<>>
  <2> DEFINE t2 == [t EXCEPT ![m][b] = n]
  <2>1. g = [mem EXCEPT !.heap = made, !.tables[m][b] = n]
    BY <1>2, <1>7 DEF Insert
  <2>2. g = [heap |-> made, tables |-> t2, ok |-> mem.ok]
    <3>1. mem = [heap |-> h, tables |-> t, ok |-> mem.ok]
      BY DEF States
    <3> HIDE DEF made, n
    <3> QED BY <2>1, <3>1
  <2>3. /\ DOMAIN t2 = DOMAIN t /\ t2 = [l \in DOMAIN t2 |-> t2[l]]
        /\ \A l \in DOMAIN t : t2[l] = IF l = m THEN [t[m] EXCEPT ![b] = n] ELSE t[l]
    OBVIOUS
  <2>4. [t[m] EXCEPT ![b] = n] \in [Places -> Links]
    BY <1>1, <1>6 DEF Links
  <2>5. /\ \A l \in DOMAIN t2 : t2[l] \in [Places -> Links]
        /\ \A l \in DOMAIN t : \A c \in Places : t2[l][c] =
               IF l = m /\ c = b /\ Len(s) = 0 THEN n ELSE t[l][c]
    <3>1. \A c \in Places : [t[m] EXCEPT ![b] = n][c] = IF c = b THEN n ELSE t[m][c]
      BY <1>1, <1>6
    <3> HIDE DEF t2, n, b, t, s
    <3> QED BY <1>3, <1>6, <1>7, <2>3, <2>4, <3>1
  <2>6. t2 \in AllTables
    <3> HIDE DEF t2
    <3> QED BY <1>6, <2>3, <2>5, TablesAre
  <2>7. Hung(h, s, n, key, data, made)
    BY <1>3, <1>4, <1>7 DEF Hung
  <2>8. \A i \in 1 .. Len(s) : h[s[i]].key # key
    BY <1>3, <1>7
  <2>0. m \in DOMAIN t
    OBVIOUS
  <2> HIDE DEF made, n, h, t, L, t2
  <2>9. PICK K : Shape(made, t2, K) /\ GivesAdded(h, t, L, m, key, data, made, K)
    BY <1>1, <1>5, <2>0, <2>3, <2>5, <2>6, <2>7, <2>8, NodeHung
  <2>10. g \in States /\ g.heap = made /\ g.tables = t2 /\ g.ok = mem.ok
    BY <1>1, <1>5, <2>2, <2>6 DEF States
  <2>11. Added(mem, m, data, key, g)
    BY <1>1, <2>3, <2>9, <2>10, AddedFrom DEF h, t
  <2> QED BY <2>10, <2>11
<1>8. CASE s # <<>> /\ same # {}
  <2> DEFINE c == s[Min(same)]
             h2 == [h EXCEPT ![c] = [h[c] EXCEPT !.data = data]]
  <2>1. g = [mem EXCEPT !.heap[c].data = data]
    BY <1>2, <1>8 DEF Insert
  <2>2. g = [heap |-> h2, tables |-> t, ok |-> mem.ok]
    <3>1. mem = [heap |-> h, tables |-> t, ok |-> mem.ok]
      BY DEF States
    <3> HIDE DEF c
    <3> QED BY <2>1, <3>1
  <2>3. PICK i \in 1 .. Len(s) : h[s[i]].key = key /\ c = s[i]
    <3>1. same = {i \in 1 .. Len(s) : h[s[i]].key = key}
      BY <1>2, <1>3
    <3>2. same \in SUBSET Nat /\ same # {}
      <4>1. same # {}
        BY <1>8
      <4> HIDE DEF s, same
      <4>2. \A i \in same : i \in Nat
        BY ONLY <1>3, <3>1
      <4> QED BY ONLY <4>1, <4>2
    <3>3. \E i \in same : \A j \in same : i <= j
      BY <3>2, LeastOf
    <3>4. Min(same) \in same
      <4> HIDE DEF same
      <4> QED BY <3>3 DEF Min
    <3> HIDE DEF same, s
    <3> QED BY <3>1, <3>4
  <2>4. c \in DOMAIN h /\ h[c] \in Nodes /\ h[c].key = key
    BY <1>3, <2>3
  <2> HIDE DEF c
  <2>5. /\ DOMAIN h2 = DOMAIN h /\ h2 = [x \in DOMAIN h2 |-> h2[x]]
        /\ \A x \in DOMAIN h : /\ x # c => h2[x] = h[x]
                               /\ x = c => h2[x] = [h[c] EXCEPT !.data = data]
    BY <2>4
  <2>6. LET e == [h[c] EXCEPT !.data = data] IN
            /\ e \in Nodes /\ e.key = h[c].key /\ e.next = h[c].next /\ e.data = data
    BY <2>4 DEF Nodes
  <2> HIDE DEF h2
  <2>7. h2 \in Heaps
    <3>1. DOMAIN h2 \subseteq 1 .. MaxNodes /\ \A x \in DOMAIN h : h[x] \in Nodes
      BY <1>1, <1>4, <2>5, StateFacts
    <3>2. \A x \in DOMAIN h2 : h2[x] \in Nodes
      BY <2>5, <2>6, <3>1
    <3> QED BY <2>5, <3>1, <3>2, HeapIs
  <2>8. \A x \in DOMAIN h :
               /\ h2[x].key = h[x].key /\ h2[x].next = h[x].next
               /\ x = s[i] => h2[x].data = data
               /\ x # s[i] => h2[x].data = h[x].data
    BY <2>3, <2>5, <2>6
  <2>9. Shape(h2, t, L) /\ GivesAdded(h, t, L, m, key, data, h2, L)
    <3>1. m \in DOMAIN t
      OBVIOUS
    <3> HIDE DEF h, t, L
    <3> QED BY <1>1, <2>3, <2>5, <2>7, <2>8, <3>1, DataSet
  <2>10. g \in States /\ g.heap = h2 /\ g.tables = t /\ g.ok = mem.ok
    BY <1>1, <2>2, <2>7 DEF States
  <2>11. Added(mem, m, data, key, g)
    <3> HIDE DEF L
    <3> QED BY <1>1, <2>9, <2>10, AddedFrom
  <2> QED BY <2>10, <2>11
<1>9. CASE s # <<>> /\ same = {}
  <2> DEFINE c == Last(s)
             h2 == [made EXCEPT ![c] = [made[c] EXCEPT !.next = n]]
  <2>1. g = [mem EXCEPT !.heap = [made EXCEPT ![c].next = n]]
    BY <1>2, <1>9 DEF Insert
  <2>2. g = [heap |-> h2, tables |-> t, ok |-> mem.ok]
    <3>1. mem = [heap |-> h, tables |-> t, ok |-> mem.ok]
      BY DEF States
    <3> HIDE DEF c, made, n
    <3> QED BY <2>1, <3>1
  <2>3. Len(s) \in 1 .. Len(s) /\ Len(s) > 0 /\ c = s[Len(s)]
    <3>1. c = s[Len(s)]
      BY DEF Last
    <3>2. s # <<>>
      BY <1>9
    <3> HIDE DEF c, s
    <3> QED BY <1>3, <3>1, <3>2
  <2>4. c \in DOMAIN h /\ c # n /\ c \in DOMAIN made
    BY <1>1, <1>3, <1>4, <2>3, ZenonT(30)
  <2>5. \A i \in 1 .. Len(s) : h[s[i]].key # key
    BY <1>2, <1>3, <1>9
  <2> HIDE DEF c, made, n
  <2>6. /\ DOMAIN h2 = DOMAIN made /\ h2 = [x \in DOMAIN h2 |-> h2[x]]
        /\ \A x \in DOMAIN made : /\ x # c => h2[x] = made[x]
                                  /\ x = c => h2[x] = [made[c] EXCEPT !.next = n]
    BY <2>4
  <2>7. LET e == [made[c] EXCEPT !.next = n] IN
            e \in Nodes /\ e.key = h[c].key /\ e.next = n /\ e.data = h[c].data
    <3>1. made[c] = h[c] /\ h[c] \in Nodes
      BY <1>4, <2>4
    <3>2. n \in Links
      BY <1>1 DEF Links
    <3> QED BY <3>1, <3>2 DEF Nodes
  <2> HIDE DEF h2
  <2>8. h2 \in Heaps
    <3>1. DOMAIN h2 \subseteq 1 .. MaxNodes /\ \A x \in DOMAIN made : made[x] \in Nodes
      BY <1>1, <1>4, <2>6, StateFacts
    <3>2. \A x \in DOMAIN h2 : h2[x] \in Nodes
      BY <2>6, <2>7, <3>1
    <3> QED BY <2>6, <3>1, <3>2, HeapIs
  <2>9. Hung(h, s, n, key, data, h2)
    <3>1. h2[n] = node
      BY <1>4, <2>4, <2>6
    <3>2. \A x \in DOMAIN h : x \in DOMAIN made /\ made[x] = h[x]
      BY <1>4
    <3>3. DOMAIN h2 = DOMAIN h \cup {n}
      BY <1>4, <2>6
    <3>4. node.key = key /\ node.data = data /\ node.next = NULL
      OBVIOUS
    <3>5. ASSUME NEW x \in DOMAIN h
          PROVE  /\ h2[x].key = h[x].key /\ h2[x].data = h[x].data
                 /\ x = c => h2[x].next = n
                 /\ x # c => h2[x].next = h[x].next
      BY <2>6, <2>7, <3>2
    <3>6. Len(s) > 0 /\ s[Len(s)] = c
      BY <2>3
    <3> HIDE DEF s, h, node
    <3> QED BY <3>1, <3>3, <3>4, <3>5, <3>6 DEF Hung
  <2>10. \A l \in DOMAIN t : \A e \in Places :
             t[l][e] = IF l = m /\ e = b /\ Len(s) = 0 THEN n ELSE t[l][e]
    BY <2>3
  <2>11. PICK K : Shape(h2, t, K) /\ GivesAdded(h, t, L, m, key, data, h2, K)
    <3>1. m \in DOMAIN t
      OBVIOUS
    <3> HIDE DEF h, t, L
    <3> QED BY <1>1, <2>5, <2>8, <2>9, <2>10, <3>1, NodeHung
  <2>12. g \in States /\ g.heap = h2 /\ g.tables = t /\ g.ok = mem.ok
    BY <1>1, <2>2, <2>8 DEF States
  <2>13. Added(mem, m, data, key, g)
    <3> HIDE DEF L
    <3> QED BY <1>1, <2>11, <2>12, AddedFrom
  <2> QED BY <2>12, <2>13
<1> QED BY <1>7, <1>8, <1>9

-----------------------------------------------------------------------------
(* hashmap_add, once and for a list of entries.                            *)

Like(mem, g) ==
    g \in States /\ Good(g.heap, g.tables) /\ DOMAIN g.tables = DOMAIN mem.tables

LEMMA AddFacts ==
    ASSUME NEW mem \in States, Good(mem.heap, mem.tables),
           NEW m \in DOMAIN mem.tables, NEW key \in Keys, NEW data \in Data,
           NEW g, g = Add(mem, m, data, key)
    PROVE  Like(mem, g) /\ (g.ok => mem.ok /\ Added(mem, m, data, key, g))
<1>1. CASE ~mem.ok \/ Free(mem) = {}
  <2>1. g = [heap |-> mem.heap, tables |-> mem.tables, ok |-> FALSE]
    BY <1>1, StateFacts DEF Add
  <2>2. mem.heap \in Heaps /\ mem.tables \in AllTables
    BY StateFacts
  <2> QED BY <2>1, <2>2 DEF States, Like
<1>2. CASE mem.ok /\ Free(mem) # {}
  <2>1. g = Insert(mem, m, Bucket[key], data, key)
    BY <1>2 DEF Add
  <2>2. Added(mem, m, data, key, g)
    BY <1>2, <2>1, InsertFacts
  <2> QED BY <1>2, <2>2 DEF Added, Like
<1> QED BY <1>1, <1>2

AreEntries(entries) == \A i \in DOMAIN entries : entries[i].key \in Keys /\ entries[i].data \in Data
LEMMA AddsInTurn ==
    ASSUME NEW mem \in States, Good(mem.heap, mem.tables), NEW m \in DOMAIN mem.tables,
           NEW entries, IsList(entries), AreEntries(entries)
    PROVE  \E at : /\ at[0] = mem /\ at[Len(entries)] = AddAll(mem, m, entries)
                   /\ \A k \in 0 .. Len(entries) : Like(mem, at[k])
                   /\ \A k \in 1 .. Len(entries) :
                          at[k] = Add(at[k - 1], m, entries[k].data, entries[k].key)
<1> DEFINE n == Len(entries)
           V == {s \in States : Like(mem, s)}
           Rec(f) == f = [s \in SUBSET (1 .. n) |->
                             IF s = {} THEN mem
                             ELSE Add(f[s \ {Max(s)}], m, entries[Max(s)].data, entries[Max(s)].key)]
           step == [p \in (1 .. n) \X V |-> Add(p[2], m, entries[p[1]].data, entries[p[1]].key)]
<1>1. n \in Nat /\ DOMAIN entries = 1 .. n
  BY ListFacts
<1>2. ASSUME NEW v \in V, NEW k \in 1 .. n
      PROVE  Add(v, m, entries[k].data, entries[k].key) \in V
  <2>1. entries[k].data \in Data /\ entries[k].key \in Keys
    BY <1>1 DEF AreEntries
  <2>2. v \in States /\ Good(v.heap, v.tables) /\ m \in DOMAIN v.tables
        /\ DOMAIN v.tables = DOMAIN mem.tables
    BY DEF Like
  <2> DEFINE g == Add(v, m, entries[k].data, entries[k].key)
  <2>3. Like(v, g)
    BY <2>1, <2>2, AddFacts
  <2> HIDE DEF g
  <2>4. g \in States /\ Like(mem, g)
    BY <2>2, <2>3 DEF Like
  <2> QED BY <2>4 DEF g
<1>3. \A k \in 1 .. n, v \in V : step[<<k, v>>] = Add(v, m, entries[k].data, entries[k].key)
  <2> HIDE DEF V, n
  <2> QED OBVIOUS
<1>4. mem \in V
  BY DEF Like
<1> HIDE DEF step, V
<1>5. PICK g \in [SUBSET (1 .. n) -> V] : IsFold(g, n, mem, step)
  <2>1. \A k \in 1 .. n, v \in V : step[<<k, v>>] \in V
    BY <1>2, <1>3
  <2> HIDE DEF n, Rec
  <2> QED BY <1>1, <1>4, <2>1, FoldExists, Zenon
<1>6. Rec(g)
  <2>1. ASSUME NEW s \in SUBSET (1 .. n), s # {}
        PROVE  step[<<Max(s), g[s \ {Max(s)}]>>] =
                   Add(g[s \ {Max(s)}], m, entries[Max(s)].data, entries[Max(s)].key)
    <3>1. Max(s) \in 1 .. n
      BY <1>1, <2>1, LastOf
    <3>2. g[s \ {Max(s)}] \in V
      <4>1. s \ {Max(s)} \in SUBSET (1 .. n)
        OBVIOUS
      <4> QED BY <1>5, <4>1
    <3> HIDE DEF n
    <3> QED BY <1>3, <3>1, <3>2
  <2> QED BY <1>5, <2>1 DEF IsFold
<1> DEFINE f == CHOOSE x : Rec(x)
<1>7. Rec(f)
  <2> HIDE DEF Rec
  <2> QED BY <1>6
<1>8. AddAll(mem, m, entries) = f[1 .. n]
  BY <1>1 DEF AddAll, FoldLeft, MapThenFoldSet
<1> HIDE DEF f
<1> DEFINE at == [k \in 0 .. n |-> f[1 .. k]]
<1>9. at[0] = mem
  <2>1. 1 .. 0 = {} /\ {} \in SUBSET (1 .. n) /\ 0 \in 0 .. n
    BY <1>1
  <2> QED BY <1>7, <2>1
<1>10. ASSUME NEW k \in 1 .. n PROVE at[k] = Add(at[k - 1], m, entries[k].data, entries[k].key)
  <2>1. 1 .. k # {} /\ Max(1 .. k) = k /\ (1 .. k) \ {k} = 1 .. (k - 1)
    <3>1. k \in Nat \ {0}
      BY <1>1
    <3> HIDE DEF n, Rec, at
    <3> QED BY <3>1, UpToLast
  <2>2. 1 .. k \in SUBSET (1 .. n) /\ k \in 0 .. n /\ k - 1 \in 0 .. n
    BY <1>1
  <2>3. f[1 .. k] = Add(f[1 .. (k - 1)], m, entries[k].data, entries[k].key)
    BY <1>7, <2>1, <2>2
  <2> QED BY <2>2, <2>3
<1>11. at[n] = AddAll(mem, m, entries)
  BY <1>1, <1>8
<1> HIDE DEF at, n
<1>12. \A k \in 0 .. n : at[k] \in V
  <2>1. \A k \in 1 .. n : at[k - 1] \in V => at[k] \in V
    BY <1>2, <1>10
  <2>2. at[0] \in V
    BY <1>4, <1>9
  <2> HIDE DEF Rec
  <2> QED BY <1>1, <2>1, <2>2, AlongPositions, Zenon
<1>13. \A k \in 0 .. n : Like(mem, at[k])
  BY <1>12 DEF V
<1> QED BY <1>9, <1>10, <1>11, <1>13 DEF n

(* A map with the entries and the others as they were.                     *)
Filled(mem, m, entries, g) ==
    \A l \in DOMAIN mem.tables, k \in Keys :
        /\ l # m => Look(g, l, k) = Look(mem, l, k)
        /\ (\A i \in DOMAIN entries : entries[i].key # k) => Look(g, l, k) = Look(mem, l, k)
        /\ l = m => \A i \in DOMAIN entries : entries[i].key = k => Look(g, l, k) = entries[i].data

LEMMA AddAllFacts ==
    ASSUME NEW mem \in States, Good(mem.heap, mem.tables), NEW m \in DOMAIN mem.tables,
           NEW entries, IsList(entries), AreEntries(entries),
           \A i, j \in DOMAIN entries : entries[i].key = entries[j].key => i = j,
           NEW g, g = AddAll(mem, m, entries)
    PROVE  Like(mem, g) /\ (g.ok => Filled(mem, m, entries, g))
<1> DEFINE n == Len(entries)
<1>1. n \in Nat /\ DOMAIN entries = 1 .. n
  BY ListFacts
<1>2. PICK at : /\ at[0] = mem /\ at[n] = g
                /\ \A k \in 0 .. n : Like(mem, at[k])
                /\ \A k \in 1 .. n : at[k] = Add(at[k - 1], m, entries[k].data, entries[k].key)
  BY AddsInTurn
<1> HIDE DEF n
<1> DEFINE P(j) == at[j].ok => \A l \in DOMAIN mem.tables, k \in Keys :
                  /\ l # m => Look(at[j], l, k) = Look(mem, l, k)
                  /\ (\A i \in 1 .. j : entries[i].key # k) => Look(at[j], l, k) = Look(mem, l, k)
                  /\ l = m => \A i \in 1 .. j :
                                  entries[i].key = k => Look(at[j], l, k) = entries[i].data
           V == {j \in 0 .. n : P(j)}
           f == [j \in 0 .. n |-> j]
<1>3. f[0] \in V
  <2>1. f[0] = 0 /\ 0 \in 0 .. n
    BY <1>1
  <2>2. P(0)
    BY <1>2
  <2> QED BY <2>1, <2>2
<1>4. ASSUME NEW j \in 1 .. n, f[j - 1] \in V PROVE f[j] \in V
  <2>1. j - 1 \in 0 .. n /\ j \in 0 .. n /\ f[j - 1] = j - 1 /\ f[j] = j
    BY <1>1
  <2>2. P(j - 1)
    BY <1>4, <2>1
  <2>3. P(j)
    <3> DEFINE a == at[j - 1]
               c == at[j]
               e == entries[j]
    <3>1. Like(mem, a) /\ c = Add(a, m, e.data, e.key)
      BY <1>2, <2>1
    <3>2. e.data \in Data /\ e.key \in Keys
      BY <1>1 DEF AreEntries
    <3>3. c.ok => a.ok /\ Added(a, m, e.data, e.key, c)
      <4> HIDE DEF a, c, e
      <4>1. a \in States /\ Good(a.heap, a.tables) /\ m \in DOMAIN a.tables
        BY <3>1 DEF Like
      <4> QED BY <3>1, <3>2, <4>1, AddFacts
    <3>4. \A i \in 1 .. j : i \in 1 .. (j - 1) \/ i = j
      BY <1>1
    <3>5. \A i \in 1 .. (j - 1) : i \in 1 .. j /\ entries[i].key # e.key
      <4>1. \A i \in 1 .. (j - 1) : i \in 1 .. j /\ i \in 1 .. n /\ i # j
        BY <1>1
      <4> QED BY <1>1, <4>1
    <3>6. j \in 1 .. j
      BY <1>1
    <3> SUFFICES ASSUME c.ok, NEW l \in DOMAIN mem.tables, NEW k \in Keys
                 PROVE  /\ l # m => Look(c, l, k) = Look(mem, l, k)
                        /\ (\A i \in 1 .. j : entries[i].key # k) => Look(c, l, k) = Look(mem, l, k)
                        /\ l = m => \A i \in 1 .. j :
                               entries[i].key = k => Look(c, l, k) = entries[i].data
      OBVIOUS
    <3>7. Look(c, l, k) = IF l = m /\ k = e.key THEN e.data ELSE Look(a, l, k)
      <4>1. l \in DOMAIN a.tables /\ Added(a, m, e.data, e.key, c)
        BY <3>1, <3>3 DEF Like
      <4> HIDE DEF a, c, e
      <4> QED BY <4>1 DEF Added
    <3>8. /\ l # m => Look(a, l, k) = Look(mem, l, k)
          /\ (\A i \in 1 .. (j - 1) : entries[i].key # k) => Look(a, l, k) = Look(mem, l, k)
          /\ l = m => \A i \in 1 .. (j - 1) : entries[i].key = k => Look(a, l, k) = entries[i].data
      BY <2>2, <3>3
    <3> HIDE DEF a, c
    <3> QED BY <3>4, <3>5, <3>6, <3>7, <3>8
  <2> QED BY <2>1, <2>3
<1>5. P(n)
  <2>1. \A k \in 0 .. n : f[k] \in V
    <3> HIDE DEF f, V
    <3> QED BY <1>1, <1>3, <1>4, AlongPositions
  <2>2. n \in 0 .. n /\ f[n] = n
    BY <1>1
  <2> QED BY <2>1, <2>2
<1>6. Like(mem, g)
  <2>1. n \in 0 .. n
    BY <1>1
  <2> QED BY <1>2, <2>1
<1> HIDE DEF V, f
<1>7. g.ok => \A l \in DOMAIN mem.tables, k \in Keys :
                  /\ l # m => Look(g, l, k) = Look(mem, l, k)
                  /\ (\A i \in 1 .. n : entries[i].key # k) => Look(g, l, k) = Look(mem, l, k)
                  /\ l = m => \A i \in 1 .. n :
                                  entries[i].key = k => Look(g, l, k) = entries[i].data
  <2>1. at[n] = g
    BY <1>2
  <2> QED BY <1>5, <2>1
<1> HIDE DEF P
<1> QED BY <1>1, <1>6, <1>7 DEF Filled

-----------------------------------------------------------------------------
(* The nodes of a map, one place after the other.                          *)

LEMMA EmptyJoined ==
    ASSUME NEW s, IsList(s)
    PROVE  <<>> \o s = s
<1> DEFINE o == <<>>
           r == o \o s
<1>1. IsList(o) /\ Len(o) = 0 /\ Len(s) \in Nat
  BY ShortLists, ListFacts
<1> HIDE DEF o
<1>2. IsList(r) /\ Len(r) = Len(o) + Len(s) /\ \A k \in 1 .. Len(s) : r[Len(o) + k] = s[k]
  BY <1>1, JoinedFacts
<1> HIDE DEF r
<1>3. Len(r) = Len(s) /\ \A k \in 1 .. Len(s) : Len(o) + k = k
  BY <1>1, <1>2
<1>4. \A k \in 1 .. Len(r) : r[k] = s[k]
  BY <1>2, <1>3
<1>5. r = s
  BY <1>2, <1>3, <1>4, SameList
<1> QED BY <1>5 DEF r, o

LEMMA FlattenFacts ==
    ASSUME NEW n \in Nat, NEW s, s = [k \in 1 .. n |-> s[k]], \A k \in 1 .. n : IsList(s[k])
    PROVE  \E flat : /\ flat[0] = <<>> /\ flat[n] = FlattenSeq(s)
                     /\ \A k \in 1 .. n : flat[k] = flat[k - 1] \o s[k]
<1> DEFINE V == Seq(UNION {{s[k][i] : i \in DOMAIN s[k]} : k \in 1 .. n})
           Rec(f) == f = [k \in 1 .. n |-> IF k = 1 THEN s[k] ELSE f[k - 1] \o s[k]]
           step == [p \in (1 .. n) \X V |-> IF p[1] = 1 THEN s[1] ELSE p[2] \o s[p[1]]]
<1>1. IsList(s) /\ Len(s) = n
  BY FunctionIsList
<1>2. ASSUME NEW k \in 1 .. n PROVE s[k] \in V
  <2> DEFINE S == UNION {{s[j][i] : i \in DOMAIN s[j]} : j \in 1 .. n}
  <2>1. \A i \in DOMAIN s[k] : s[k][i] \in S
    OBVIOUS
  <2> HIDE DEF S
  <2>2. s[k] \in Seq(S)
    BY <2>1, ElementsOf
  <2> QED BY <2>2 DEF S
<1>3. \A v \in V, k \in 1 .. n : v \o s[k] \in V
  BY <1>2
<1>4. \A k \in 1 .. n, v \in V : step[<<k, v>>] = IF k = 1 THEN s[1] ELSE v \o s[k]
  <2> HIDE DEF V
  <2> QED OBVIOUS
<1>5. <<>> \in V /\ \A v \in V : IsList(v)
  BY DEF IsList
<1> HIDE DEF step, V
<1>6. \A k \in 1 .. n, v \in V : step[<<k, v>>] \in V
  BY <1>2, <1>3, <1>4
<1>7. PICK g \in [SUBSET (1 .. n) -> V] : IsFold(g, n, <<>>, step)
  <2> HIDE DEF Rec
  <2> QED BY <1>5, <1>6, FoldExists, Zenon
<1> DEFINE h == [k \in 1 .. n |-> g[1 .. k]]
<1>8. Rec(h)
  <2>1. ASSUME NEW k \in 1 .. n PROVE h[k] = IF k = 1 THEN s[k] ELSE h[k - 1] \o s[k]
    <3>1. 1 .. k # {} /\ Max(1 .. k) = k /\ (1 .. k) \ {k} = 1 .. (k - 1)
      <4>1. k \in Nat \ {0}
        OBVIOUS
      <4> HIDE DEF h, Rec
      <4> QED BY <4>1, UpToLast
    <3>2. 1 .. k \in SUBSET (1 .. n) /\ 1 .. (k - 1) \in SUBSET (1 .. n)
      OBVIOUS
    <3>3. g[1 .. k] = step[<<k, g[1 .. (k - 1)]>>] /\ g[1 .. (k - 1)] \in V
      BY <1>7, <3>1, <3>2 DEF IsFold
    <3>4. g[1 .. k] = IF k = 1 THEN s[1] ELSE g[1 .. (k - 1)] \o s[k]
      BY <1>4, <3>3
    <3>5. k # 1 => k - 1 \in 1 .. n
      OBVIOUS
    <3> QED BY <3>4, <3>5
  <2>2. h = [k \in 1 .. n |-> h[k]]
    OBVIOUS
  <2> HIDE DEF h
  <2> QED BY <2>1, <2>2
<1> DEFINE f == CHOOSE x : Rec(x)
<1>9. Rec(f)
  <2> HIDE DEF Rec, h
  <2> QED BY <1>8
<1>10. FlattenSeq(s) = IF n = 0 THEN s ELSE f[n]
  BY <1>1 DEF FlattenSeq
<1>11. \A k \in 1 .. n : f[k] = IF k = 1 THEN s[k] ELSE f[k - 1] \o s[k]
  BY <1>9
<1> HIDE DEF f, h
<1> DEFINE flat == [k \in 0 .. n |-> IF k = 0 THEN <<>> ELSE f[k]]
<1>12. flat[0] = <<>> /\ flat[n] = FlattenSeq(s)
  <2>1. n = 0 => s = <<>>
    BY <1>1, ListFacts
  <2> QED BY <1>10, <2>1
<1>13. ASSUME NEW k \in 1 .. n PROVE flat[k] = flat[k - 1] \o s[k]
  <2>1. k \in 0 .. n /\ k - 1 \in 0 .. n /\ k # 0
    OBVIOUS
  <2>2. CASE k = 1
    <3>1. flat[k] = s[k] /\ flat[k - 1] = <<>>
      BY <1>11, <2>1, <2>2
    <3> QED BY <3>1, EmptyJoined
  <2>3. CASE k # 1
    <3>1. flat[k] = f[k] /\ flat[k - 1] = f[k - 1]
      BY <2>1, <2>3
    <3> QED BY <1>11, <2>3, <3>1
  <2> QED BY <2>2, <2>3
<1> HIDE DEF flat
<1> QED BY <1>12, <1>13

(* Each element of each of the first m lists is in r, once.                *)
OneByOne(s, m, r) ==
    /\ IsList(r)
    /\ \A p \in 1 .. Len(r) : \E k \in 1 .. m : \E i \in 1 .. Len(s[k]) : r[p] = s[k][i]
    /\ \A k \in 1 .. m : \A i \in 1 .. Len(s[k]) : \E p \in 1 .. Len(r) : r[p] = s[k][i]
    /\ \A p, q \in 1 .. Len(r) : r[p] = r[q] => p = q

LEMMA FlattenHolds ==
    ASSUME NEW n \in Nat, NEW s, s = [k \in 1 .. n |-> s[k]], \A k \in 1 .. n : IsList(s[k]),
           \A k, l \in 1 .. n : \A i \in 1 .. Len(s[k]), j \in 1 .. Len(s[l]) :
               s[k][i] = s[l][j] => k = l /\ i = j,
           NEW r, r = FlattenSeq(s)
    PROVE  OneByOne(s, n, r)
<1>0. \E flat : /\ flat[0] = <<>> /\ flat[n] = FlattenSeq(s)
                /\ \A k \in 1 .. n : flat[k] = flat[k - 1] \o s[k]
  BY FlattenFacts, Zenon
<1>1. PICK flat : /\ flat[0] = <<>> /\ flat[n] = r
                  /\ \A k \in 1 .. n : flat[k] = flat[k - 1] \o s[k]
  BY <1>0, Zenon
<1> DEFINE P(m) == OneByOne(s, m, flat[m])
           V == {m \in 0 .. n : P(m)}
           f == [m \in 0 .. n |-> m]
<1>2. f[0] \in V
  <2>1. f[0] = 0 /\ 0 \in 0 .. n
    OBVIOUS
  <2>2. IsList(flat[0]) /\ Len(flat[0]) = 0
    BY <1>1, ShortLists
  <2>3. 1 .. 0 = {}
    OBVIOUS
  <2>4. P(0)
    BY <2>2, <2>3 DEF OneByOne
  <2> QED BY <2>1, <2>4
<1>3. ASSUME NEW m \in 1 .. n, f[m - 1] \in V PROVE f[m] \in V
  <2>1. m - 1 \in 0 .. n /\ m \in 0 .. n /\ f[m - 1] = m - 1 /\ f[m] = m
    OBVIOUS
  <2>2. P(m - 1)
    BY <1>3, <2>1
  <2> DEFINE a == flat[m - 1]
             t == s[m]
             c == flat[m]
  <2>3. IsList(a) /\ IsList(t) /\ c = a \o t /\ Len(a) \in Nat /\ Len(t) \in Nat
    BY <1>1, <2>2, ListFacts DEF OneByOne
  <2>4. /\ IsList(c) /\ Len(c) = Len(a) + Len(t)
        /\ \A k \in 1 .. Len(a) : c[k] = a[k]
        /\ \A k \in 1 .. Len(t) : c[Len(a) + k] = t[k]
    <3> HIDE DEF a, t, c
    <3> QED BY <2>3, JoinedFacts
  <2>5. ASSUME NEW p \in 1 .. Len(c)
        PROVE  \/ p \in 1 .. Len(a) /\ c[p] = a[p]
               \/ \E i \in 1 .. Len(t) : p = Len(a) + i /\ c[p] = t[i]
    <3>1. CASE p \in 1 .. Len(a)
      BY <2>4, <3>1
    <3>2. CASE p \notin 1 .. Len(a)
      <4> HIDE DEF a, t, c
      <4>1. PICK i \in 1 .. Len(t) : p = Len(a) + i
        <5>1. p - Len(a) \in 1 .. Len(t) /\ p = Len(a) + (p - Len(a))
          BY <2>3, <2>4, <3>2
        <5> QED BY <5>1
      <4>2. c[p] = t[i]
        BY <2>4, <4>1
      <4> QED BY <4>1, <4>2
    <3> QED BY <3>1, <3>2
  <2>6. /\ \A k \in 1 .. (m - 1) : k \in 1 .. m /\ k \in 1 .. n /\ k # m
        /\ \A k \in 1 .. m : k \in 1 .. (m - 1) \/ k = m
        /\ m \in 1 .. m
    OBVIOUS
  <2>7. \A p \in 1 .. Len(a) : \E k \in 1 .. (m - 1) : \E i \in 1 .. Len(s[k]) : a[p] = s[k][i]
    BY <2>2 DEF OneByOne
  <2>8. \A k \in 1 .. (m - 1) : \A i \in 1 .. Len(s[k]) : \E p \in 1 .. Len(a) : a[p] = s[k][i]
    BY <2>2 DEF OneByOne
  <2>9. \A p, q \in 1 .. Len(a) : a[p] = a[q] => p = q
    BY <2>2 DEF OneByOne
  <2>10. ASSUME NEW p \in 1 .. Len(a), NEW i \in 1 .. Len(t), a[p] = t[i] PROVE FALSE
    <3>1. PICK k \in 1 .. (m - 1) : \E j \in 1 .. Len(s[k]) : a[p] = s[k][j]
      BY <2>7
    <3>2. PICK j \in 1 .. Len(s[k]) : a[p] = s[k][j]
      BY <3>1
    <3>3. k \in 1 .. n /\ k # m /\ s[k][j] = s[m][i] /\ i \in 1 .. Len(s[m])
      BY <2>6, <2>10, <3>2
    <3> QED BY <3>3
  <2>11. ASSUME NEW i \in 1 .. Len(t), NEW j \in 1 .. Len(t), t[i] = t[j] PROVE i = j
    BY <2>11
  <2> HIDE DEF a, c
  <2>12. \A p \in 1 .. Len(c) : \E k \in 1 .. m : \E i \in 1 .. Len(s[k]) : c[p] = s[k][i]
    <3> SUFFICES ASSUME NEW p \in 1 .. Len(c)
                 PROVE  \E k \in 1 .. m : \E i \in 1 .. Len(s[k]) : c[p] = s[k][i]
      OBVIOUS
    <3>1. CASE p \in 1 .. Len(a) /\ c[p] = a[p]
      BY <2>6, <2>7, <3>1
    <3>2. CASE \E i \in 1 .. Len(t) : p = Len(a) + i /\ c[p] = t[i]
      BY <2>6, <3>2
    <3> QED BY <2>5, <3>1, <3>2
  <2>13. \A k \in 1 .. m : \A i \in 1 .. Len(s[k]) : \E p \in 1 .. Len(c) : c[p] = s[k][i]
    <3> SUFFICES ASSUME NEW k \in 1 .. m, NEW i \in 1 .. Len(s[k])
                 PROVE  \E p \in 1 .. Len(c) : c[p] = s[k][i]
      OBVIOUS
    <3>1. CASE k \in 1 .. (m - 1)
      <4>1. PICK p \in 1 .. Len(a) : a[p] = s[k][i]
        BY <2>8, <3>1
      <4>2. p \in 1 .. Len(c) /\ c[p] = s[k][i]
        <5> HIDE DEF t
        <5> QED BY <2>3, <2>4, <4>1
      <4> QED BY <4>2
    <3>2. CASE k = m
      <4>1. i \in 1 .. Len(t) /\ s[k][i] = t[i]
        BY <3>2
      <4> HIDE DEF t
      <4>2. Len(a) + i \in 1 .. Len(c) /\ c[Len(a) + i] = t[i]
        BY <2>3, <2>4, <4>1
      <4> QED BY <4>1, <4>2
    <3> QED BY <2>6, <3>1, <3>2
  <2>14. \A p, q \in 1 .. Len(c) : c[p] = c[q] => p = q
    <3> SUFFICES ASSUME NEW p \in 1 .. Len(c), NEW q \in 1 .. Len(c), c[p] = c[q] PROVE p = q
      OBVIOUS
    <3> HIDE DEF t
    <3>1. CASE p \in 1 .. Len(a) /\ c[p] = a[p]
      <4>1. ~\E j \in 1 .. Len(t) : q = Len(a) + j /\ c[q] = t[j]
        BY <2>10, <3>1
      <4>2. q \in 1 .. Len(a) /\ c[q] = a[q]
        BY <2>5, <4>1
      <4> QED BY <2>9, <3>1, <4>2
    <3>2. CASE \E i \in 1 .. Len(t) : p = Len(a) + i /\ c[p] = t[i]
      <4>1. PICK i \in 1 .. Len(t) : p = Len(a) + i /\ c[p] = t[i]
        BY <3>2
      <4>2. ~(q \in 1 .. Len(a) /\ c[q] = a[q])
        BY <2>10, <4>1
      <4>3. PICK j \in 1 .. Len(t) : q = Len(a) + j /\ c[q] = t[j]
        BY <2>5, <4>2
      <4> QED BY <2>11, <4>1, <4>3
    <3> QED BY <2>5, <3>1, <3>2
  <2>15. P(m)
    <3> HIDE DEF t
    <3> QED BY <2>4, <2>12, <2>13, <2>14 DEF c, OneByOne
  <2> QED BY <2>1, <2>15
<1>4. P(n)
  <2>1. \A k \in 0 .. n : f[k] \in V
    <3> HIDE DEF f, V
    <3> QED BY <1>2, <1>3, AlongPositions
  <2>2. n \in 0 .. n /\ f[n] = n
    OBVIOUS
  <2> QED BY <2>1, <2>2
<1> HIDE DEF V, f
<1> QED BY <1>1, <1>4, Zenon

InMap(L, m, x) == \E b \in Places : \E i \in 1 .. Len(L[m][b]) : L[m][b][i] = x

AllOf(L, m, r) ==
    /\ IsList(r)
    /\ \A p \in 1 .. Len(r) : InMap(L, m, r[p])
    /\ \A x : InMap(L, m, x) => \E p \in 1 .. Len(r) : r[p] = x
    /\ \A p, q \in 1 .. Len(r) : r[p] = r[q] => p = q

LEMMA NodesOfFacts ==
    ASSUME NEW mem, NEW L, Shape(mem.heap, mem.tables, L), NEW m \in DOMAIN mem.tables,
           NEW r, r = NodesOf(mem, m)
    PROVE  AllOf(L, m, r)
<1> DEFINE h == mem.heap
           t == mem.tables
           s == [k \in 1 .. Buckets |-> Chain(h, t[m][k - 1])]
<1>1. Buckets \in Nat /\ \A k \in 1 .. Buckets : k - 1 \in Places
  BY HashMapAssumption DEF Places
<1>2. ASSUME NEW k \in 1 .. Buckets PROVE s[k] = L[m][k - 1] /\ IsList(s[k])
  <2>1. k - 1 \in Places /\ Shape(h, t, L) /\ m \in DOMAIN t
    BY <1>1
  <2>2. s[k] = Chain(h, t[m][k - 1])
    OBVIOUS
  <2> DEFINE b == k - 1
  <2> HIDE DEF h, t, s, b
  <2>3. b \in Places
    BY <2>1 DEF b
  <2>4. Chain(h, t[m][b]) = L[m][b] /\ IsList(L[m][b])
    BY <2>1, <2>3, ShapeIsGood, NodesOfList
  <2> QED BY <2>2, <2>4 DEF b
<1>3. r = FlattenSeq(s)
  BY DEF NodesOf
<1>4. s = [k \in 1 .. Buckets |-> s[k]]
  OBVIOUS
<1>5. Once(t, L) /\ m \in DOMAIN t
  BY DEF Shape
<1> HIDE DEF s, h, t
<1>6. ASSUME NEW k \in 1 .. Buckets, NEW l \in 1 .. Buckets,
             NEW i \in 1 .. Len(s[k]), NEW j \in 1 .. Len(s[l]), s[k][i] = s[l][j]
      PROVE  k = l /\ i = j
  <2>1. PICK b \in Places, c \in Places : b = k - 1 /\ c = l - 1
    BY <1>1
  <2>2. s[k] = L[m][b] /\ s[l] = L[m][c]
    BY <1>2, <2>1
  <2>3. i \in 1 .. Len(L[m][b]) /\ j \in 1 .. Len(L[m][c]) /\ L[m][b][i] = L[m][c][j]
    BY <1>6, <2>2
  <2>4. b = c /\ i = j
    BY <1>5, <2>3 DEF Once
  <2> QED BY <1>1, <2>1, <2>4
<1>7. OneByOne(s, Buckets, r)
  <2>1. \A k \in 1 .. Buckets : IsList(s[k])
    BY <1>2
  <2> QED BY <1>1, <1>3, <1>4, <1>6, <2>1, FlattenHolds, Zenon
<1>8. ASSUME NEW p \in 1 .. Len(r) PROVE InMap(L, m, r[p])
  <2>1. PICK k \in 1 .. Buckets : \E i \in 1 .. Len(s[k]) : r[p] = s[k][i]
    BY <1>7 DEF OneByOne
  <2>2. PICK b \in Places : b = k - 1
    BY <1>1
  <2>3. s[k] = L[m][b]
    BY <1>2, <2>2
  <2> QED BY <2>1, <2>3 DEF InMap
<1>9. ASSUME NEW x, InMap(L, m, x) PROVE \E p \in 1 .. Len(r) : r[p] = x
  <2>1. PICK b \in Places : \E i \in 1 .. Len(L[m][b]) : L[m][b][i] = x
    BY <1>9 DEF InMap
  <2>2. PICK k \in 1 .. Buckets : k - 1 = b
    <3>1. b + 1 \in 1 .. Buckets /\ (b + 1) - 1 = b
      BY <1>1 DEF Places
    <3> QED BY <3>1
  <2>3. s[k] = L[m][b]
    BY <1>2, <2>2
  <2>4. PICK i \in 1 .. Len(s[k]) : s[k][i] = x
    BY <2>1, <2>3
  <2>5. \E p \in 1 .. Len(r) : r[p] = s[k][i]
    BY <1>7 DEF OneByOne
  <2> QED BY <2>4, <2>5
<1> QED BY <1>7, <1>8, <1>9 DEF OneByOne, AllOf

-----------------------------------------------------------------------------
(* hashmap_new and symtab_clone.                                           *)

LEMMA LookIsData ==
    ASSUME NEW mem, Good(mem.heap, mem.tables), NEW m \in DOMAIN mem.tables, NEW k \in Keys
    PROVE  Look(mem, m, k) \in Data \cup {NULL}
<1> DEFINE L == Chains(mem.heap, mem.tables)
           s == L[m][Bucket[k]]
           t == mem.tables
<1>1. Gives(mem.heap, s, k, Look(mem, m, k))
  <2>1. Shape(mem.heap, mem.tables, L)
    BY DEF Good
  <2> HIDE DEF L
  <2> QED BY <2>1, LookGives
<1>2. \A i \in 1 .. Len(s) : mem.heap[s[i]] \in Nodes
  <2>1. Shape(mem.heap, t, L) /\ Bucket[k] \in Places /\ m \in DOMAIN t
    BY HashMapAssumption DEF Good, Places
  <2> HIDE DEF L, t
  <2> QED BY <2>1, NodesOfList
<1> HIDE DEF s
<1> QED BY <1>1, <1>2 DEF Gives, Nodes

LEMMA NewFacts ==
    ASSUME NEW mem \in States, Good(mem.heap, mem.tables),
           NEW m \in Handles, m \notin DOMAIN mem.tables, NEW g, g = New(mem, m)
    PROVE  /\ g \in States /\ Good(g.heap, g.tables) /\ DOMAIN g.tables = DOMAIN mem.tables \cup {m}
           /\ g.ok = mem.ok /\ g.heap = mem.heap
           /\ \A k \in Keys : Look(g, m, k) = NULL
           /\ \A l \in DOMAIN mem.tables, k \in Keys : Look(g, l, k) = Look(mem, l, k)
<1> DEFINE h == mem.heap
           t == mem.tables
           L == Chains(h, t)
           t2 == Updated(t, m, EmptyTable)
           K == [l \in DOMAIN t \cup {m} |-> IF l = m THEN [b \in Places |-> <<>>] ELSE L[l]]
<1>1. g = [heap |-> h, tables |-> t2, ok |-> mem.ok]
  <2>1. g = [mem EXCEPT !.tables = t2]
    BY DEF New
  <2> HIDE DEF t2
  <2> QED BY <2>1, StateFacts
<1>2. h \in Heaps /\ t \in AllTables /\ mem.ok \in BOOLEAN /\ Shape(h, t, L)
  BY StateFacts DEF Good
<1>3. /\ DOMAIN t2 = DOMAIN t \cup {m} /\ t2 = [l \in DOMAIN t2 |-> t2[l]]
      /\ \A b \in Places : t2[m][b] = NULL
      /\ t2[m] \in [Places -> Links]
      /\ \A l \in DOMAIN t : t2[l] = t[l] /\ l # m
  BY DEF Updated, EmptyTable, Links
<1>4. \A l \in DOMAIN t : t[l] \in [Places -> Links]
  BY <1>2, TableFacts
<1>5. DOMAIN t \subseteq Handles
  BY <1>2, TableFacts
<1> HIDE DEF t2
<1>6. t2 \in AllTables
  <2>1. DOMAIN t2 \subseteq Handles
    BY <1>3, <1>5
  <2>2. \A l \in DOMAIN t2 : t2[l] \in [Places -> Links]
    BY <1>3, <1>4
  <2> QED BY <1>3, <2>1, <2>2, TablesAre
<1>7. /\ \A b \in Places : K[m][b] = <<>>
      /\ \A l \in DOMAIN t : K[l] = L[l]
  BY <1>3
<1>8. IsList(<<>>) /\ Len(<<>>) = 0 /\ 1 .. 0 = {}
  BY ShortLists
<1> HIDE DEF K, L, h, t
<1>9. Shape(h, t2, K)
  <2>1. ASSUME NEW l \in DOMAIN t2, NEW b \in Places
        PROVE  Linked(h, t2[l][b], K[l][b]) /\ AtPlace(h, b, K[l][b]) /\ KeysOnce(h, K[l][b])
    <3>1. CASE l = m
      <4>1. t2[l][b] = NULL /\ K[l][b] = <<>>
        BY <1>3, <1>7, <3>1
      <4>2. Linked(h, NULL, <<>>) /\ AtPlace(h, b, <<>>) /\ KeysOnce(h, <<>>)
        BY <1>8 DEF Linked, AtPlace, KeysOnce
      <4> QED BY <4>1, <4>2, Zenon
    <3>2. CASE l \in DOMAIN t
      <4>1. Linked(h, t[l][b], L[l][b]) /\ AtPlace(h, b, L[l][b]) /\ KeysOnce(h, L[l][b])
        BY <1>2, <3>2 DEF Shape
      <4>2. t2[l] = t[l] /\ K[l] = L[l]
        BY <1>3, <1>7, <3>2
      <4> QED BY <4>1, <4>2
    <3> QED BY <1>3, <3>1, <3>2
  <2>2. \A l \in DOMAIN t2 : \A b \in Places : \A i \in 1 .. Len(K[l][b]) :
            l \in DOMAIN t /\ K[l][b] = L[l][b]
    <3> SUFFICES ASSUME NEW l \in DOMAIN t2, NEW b \in Places, NEW i \in 1 .. Len(K[l][b])
                 PROVE  l \in DOMAIN t /\ K[l][b] = L[l][b]
      OBVIOUS
    <3>1. CASE l = m
      <4>1. Len(K[l][b]) = 0
        BY <1>7, <1>8, <3>1
      <4> QED BY <1>8, <4>1
    <3>2. CASE l # m
      BY <1>3, <1>7, <3>2
    <3> QED BY <3>1, <3>2
  <2>3. Once(t2, K)
    <3> SUFFICES ASSUME NEW l \in DOMAIN t2, NEW p \in DOMAIN t2, NEW b \in Places, NEW c \in Places,
                        NEW i \in 1 .. Len(K[l][b]), NEW j \in 1 .. Len(K[p][c]),
                        K[l][b][i] = K[p][c][j]
                 PROVE  l = p /\ b = c /\ i = j
      BY DEF Once
    <3>1. l \in DOMAIN t /\ K[l][b] = L[l][b] /\ p \in DOMAIN t /\ K[p][c] = L[p][c]
      BY <2>2
    <3>2. i \in 1 .. Len(L[l][b]) /\ j \in 1 .. Len(L[p][c]) /\ L[l][b][i] = L[p][c][j]
      BY <3>1
    <3>3. Once(t, L)
      BY <1>2 DEF Shape
    <3> QED BY <3>1, <3>2, <3>3 DEF Once
  <2>4. ASSUME NEW n \in DOMAIN h PROVE InSome(t2, K, n)
    <3>1. PICK l \in DOMAIN t, b \in Places : \E i \in 1 .. Len(L[l][b]) : L[l][b][i] = n
      BY <1>2 DEF Shape, InSome
    <3>2. l \in DOMAIN t2 /\ K[l][b] = L[l][b]
      BY <1>3, <1>7
    <3> QED BY <3>1, <3>2 DEF InSome
  <2> QED BY <1>2, <1>6, <2>1, <2>3, <2>4 DEF Shape
<1>10. g \in States /\ g.heap = h /\ g.tables = t2 /\ g.ok = mem.ok
  BY <1>1, <1>2, <1>6 DEF States
<1>11. Good(g.heap, g.tables)
  BY <1>9, <1>10, ShapeIsGood
<1>12. ASSUME NEW k \in Keys PROVE Look(g, m, k) = NULL
  <2>1. Bucket[k] \in Places /\ m \in DOMAIN g.tables /\ Shape(g.heap, g.tables, K)
    BY <1>3, <1>9, <1>10, HashMapAssumption DEF Places
  <2>2. \A d : Gives(g.heap, K[m][Bucket[k]], k, d) => d = Look(g, m, k)
    BY <2>1, LookGives
  <2>3. Len(K[m][Bucket[k]]) = 0
    BY <1>7, <1>8, <2>1
  <2>4. Gives(g.heap, K[m][Bucket[k]], k, NULL)
    BY <1>8, <2>3 DEF Gives
  <2> QED BY <2>2, <2>4
<1>13. ASSUME NEW l \in DOMAIN t, NEW k \in Keys PROVE Look(g, l, k) = Look(mem, l, k)
  <2>1. t2[l] = t[l]
    BY <1>3
  <2>2. Find(g, t[l][Bucket[k]], k) = Find(mem, t[l][Bucket[k]], k)
    BY <1>10 DEF Find, h
  <2> QED BY <1>10, <2>1, <2>2 DEF Look, t
<1> QED BY <1>3, <1>10, <1>11, <1>12, <1>13 DEF h, t

(* A clone finds what its map finds, and the other maps find what they did.*)
LEMMA CloneFacts ==
    ASSUME NEW mem \in States, Good(mem.heap, mem.tables), NEW m \in DOMAIN mem.tables,
           NEW c \in Handles, c \notin DOMAIN mem.tables,
           NEW nodes, nodes = NodesOf(mem, m),
           NEW g, g = AddAll(New(mem, c), c, [i \in DOMAIN nodes |-> mem.heap[nodes[i]]])
    PROVE  /\ g \in States /\ Good(g.heap, g.tables) /\ DOMAIN g.tables = DOMAIN mem.tables \cup {c}
           /\ g.ok => /\ \A k \in Keys : Look(g, c, k) = Look(mem, m, k)
                      /\ \A l \in DOMAIN mem.tables, k \in Keys : Look(g, l, k) = Look(mem, l, k)
<1> DEFINE h == mem.heap
           t == mem.tables
           L == Chains(h, t)
           e == [i \in DOMAIN nodes |-> h[nodes[i]]]
           a == New(mem, c)
           n == Len(nodes)
<1>1. Shape(h, t, L)
  BY DEF Good
<1>2. /\ IsList(nodes)
      /\ \A p \in 1 .. n : InMap(L, m, nodes[p])
      /\ \A x : InMap(L, m, x) => \E p \in 1 .. n : nodes[p] = x
      /\ \A p, q \in 1 .. n : nodes[p] = nodes[q] => p = q
  <2>1. AllOf(L, m, nodes)
    <3>1. Shape(mem.heap, mem.tables, L)
      BY <1>1
    <3> HIDE DEF L
    <3> QED BY <3>1, NodesOfFacts
  <2> HIDE DEF L
  <2> QED BY <2>1 DEF AllOf
<1>3. n \in Nat /\ DOMAIN nodes = 1 .. n
  BY <1>2, ListFacts
<1>4. IsList(e) /\ Len(e) = n /\ DOMAIN e = 1 .. n /\ \A i \in 1 .. n : e[i] = h[nodes[i]]
  <2>1. e = [i \in 1 .. n |-> e[i]]
    BY <1>3
  <2>2. \A i \in 1 .. n : e[i] = h[nodes[i]]
    BY <1>3
  <2>3. DOMAIN e = 1 .. n
    BY <1>3
  <2> HIDE DEF e, n
  <2> QED BY <1>3, <2>1, <2>2, <2>3, FunctionIsList
<1>5. /\ a \in States /\ Good(a.heap, a.tables) /\ DOMAIN a.tables = DOMAIN t \cup {c}
      /\ a.ok = mem.ok
      /\ \A k \in Keys : Look(a, c, k) = NULL
      /\ \A l \in DOMAIN t, k \in Keys : Look(a, l, k) = Look(mem, l, k)
  BY NewFacts
<1>6. g = AddAll(a, c, e)
  OBVIOUS
<1> HIDE DEF e, a, n, L, h, t
<1>7. ASSUME NEW p \in 1 .. n
      PROVE  /\ e[p] \in Nodes
             /\ \E i \in 1 .. Len(L[m][Bucket[e[p].key]]) : L[m][Bucket[e[p].key]][i] = nodes[p]
  <2>1. PICK b \in Places : \E i \in 1 .. Len(L[m][b]) : L[m][b][i] = nodes[p]
    BY <1>2 DEF InMap
  <2>2. PICK i \in 1 .. Len(L[m][b]) : L[m][b][i] = nodes[p]
    BY <2>1
  <2>3. m \in DOMAIN t
    BY DEF t
  <2>4. h[nodes[p]] \in Nodes
    BY <1>1, <2>2, <2>3, NodesOfList
  <2>5. AtPlace(h, b, L[m][b])
    BY <1>1, <2>3 DEF Shape
  <2>6. Bucket[h[nodes[p]].key] = b
    BY <2>2, <2>5 DEF AtPlace
  <2> QED BY <1>4, <2>1, <2>4, <2>6
<1>8. AreEntries(e)
  BY <1>4, <1>7 DEF AreEntries, Nodes
<1>9. ASSUME NEW p \in 1 .. n, NEW q \in 1 .. n, e[p].key = e[q].key PROVE p = q
  <2> DEFINE b == Bucket[e[p].key]
             s == L[m][b]
  <2>1. PICK i \in 1 .. Len(s) : s[i] = nodes[p]
    BY <1>7
  <2>2. PICK j \in 1 .. Len(s) : s[j] = nodes[q]
    BY <1>7, <1>9
  <2>3. KeysOnce(h, s)
    <3>1. b \in Places
      BY <1>7, HashMapAssumption DEF Places, Nodes
    <3> QED BY <1>1, <3>1 DEF Shape, t
  <2> HIDE DEF s, b
  <2>4. h[s[i]].key = h[s[j]].key
    BY <1>4, <1>9, <2>1, <2>2
  <2>5. nodes[p] = nodes[q]
    BY <2>1, <2>2, <2>3, <2>4 DEF KeysOnce
  <2> QED BY <1>2, <2>5
<1>10. /\ Like(a, g)
       /\ g.ok => \A l \in DOMAIN a.tables, k \in Keys :
              /\ l # c => Look(g, l, k) = Look(a, l, k)
              /\ (\A i \in 1 .. n : e[i].key # k) => Look(g, l, k) = Look(a, l, k)
              /\ l = c => \A i \in 1 .. n : e[i].key = k => Look(g, l, k) = e[i].data
  <2>1. c \in DOMAIN a.tables /\ \A i, j \in DOMAIN e : e[i].key = e[j].key => i = j
    BY <1>4, <1>5, <1>9
  <2>2. Like(a, g) /\ (g.ok => Filled(a, c, e, g))
    BY <1>4, <1>5, <1>6, <1>8, <2>1, AddAllFacts
  <2> QED BY <1>4, <2>2 DEF Filled
<1>11. ASSUME g.ok, NEW k \in Keys PROVE Look(g, c, k) = Look(mem, m, k)
  <2> DEFINE b == Bucket[k]
             s == L[m][b]
  <2>1. Gives(h, s, k, Look(mem, m, k))
    BY <1>1, LookGives DEF h, t
  <2>2. b \in Places
    BY HashMapAssumption DEF Places
  <2>3. ASSUME NEW i \in 1 .. Len(s), h[s[i]].key = k, h[s[i]].data = Look(mem, m, k)
        PROVE  Look(g, c, k) = Look(mem, m, k)
    <3>1. PICK p \in 1 .. n : nodes[p] = s[i]
      BY <1>2, <2>2 DEF InMap
    <3>2. e[p].key = k /\ e[p].data = Look(mem, m, k)
      BY <1>4, <2>3, <3>1
    <3>3. c \in DOMAIN a.tables
      BY <1>5
    <3> QED BY <1>10, <1>11, <3>2, <3>3
  <2>4. ASSUME \A i \in 1 .. Len(s) : h[s[i]].key # k, Look(mem, m, k) = NULL
        PROVE  Look(g, c, k) = Look(mem, m, k)
    <3>1. ASSUME NEW p \in 1 .. n, e[p].key = k PROVE FALSE
      <4>1. PICK i \in 1 .. Len(s) : s[i] = nodes[p]
        BY <1>7, <3>1
      <4> HIDE DEF s
      <4> QED BY <1>4, <2>4, <3>1, <4>1
    <3>2. c \in DOMAIN a.tables /\ Look(a, c, k) = NULL
      BY <1>5
    <3>3. Look(g, c, k) = Look(a, c, k)
      BY <1>10, <1>11, <3>1, <3>2
    <3> QED BY <2>4, <3>2, <3>3
  <2> HIDE DEF s
  <2> QED BY <2>1, <2>3, <2>4 DEF Gives
<1>12. ASSUME g.ok, NEW l \in DOMAIN t, NEW k \in Keys PROVE Look(g, l, k) = Look(mem, l, k)
  <2>1. l # c /\ l \in DOMAIN a.tables
    BY <1>5 DEF t
  <2> QED BY <1>5, <1>10, <1>12, <2>1
<1>13. g \in States /\ Good(g.heap, g.tables) /\ DOMAIN g.tables = DOMAIN t \cup {c}
  BY <1>5, <1>10 DEF Like
<1> QED BY <1>11, <1>12, <1>13 DEF t

-----------------------------------------------------------------------------
(* hashmap_free.                                                           *)

LEMMA FreeFacts ==
    ASSUME NEW mem \in States, Good(mem.heap, mem.tables), NEW m \in DOMAIN mem.tables,
           NEW h2, h2 = [n \in DOMAIN mem.heap \ Range(NodesOf(mem, m)) |-> mem.heap[n]],
           NEW t2, t2 = [l \in DOMAIN mem.tables \ {m} |-> mem.tables[l]],
           NEW g, g = [heap |-> h2, tables |-> t2, ok |-> TRUE]
    PROVE  /\ g \in States /\ Good(h2, t2)
           /\ \A l \in DOMAIN mem.tables \ {m}, k \in Keys : Look(g, l, k) = Look(mem, l, k)
<1> DEFINE h == mem.heap
           t == mem.tables
           L == Chains(h, t)
           r == NodesOf(mem, m)
<1>1. Shape(h, t, L) /\ h \in Heaps /\ t \in AllTables
  BY StateFacts DEF Good
<1>2. /\ IsList(r)
      /\ \A p \in 1 .. Len(r) : InMap(L, m, r[p])
      /\ \A x : InMap(L, m, x) => \E p \in 1 .. Len(r) : r[p] = x
  <2>1. AllOf(L, m, r)
    <3>1. Shape(mem.heap, mem.tables, L)
      BY <1>1
    <3> HIDE DEF L
    <3> QED BY <3>1, NodesOfFacts
  <2> HIDE DEF L
  <2> QED BY <2>1 DEF AllOf
<1>3. \A x : x \in Range(r) <=> InMap(L, m, x)
  <2>1. DOMAIN r = 1 .. Len(r)
    BY <1>2, ListFacts
  <2>2. \A x : x \in Range(r) <=> \E p \in 1 .. Len(r) : r[p] = x
    BY <2>1 DEF Range
  <2> HIDE DEF r, L
  <2> QED BY <1>2, <2>2
<1>4. /\ DOMAIN h2 = {n \in DOMAIN h : ~InMap(L, m, n)} /\ h2 = [n \in DOMAIN h2 |-> h2[n]]
      /\ \A n \in DOMAIN h2 : h2[n] = h[n]
  <2>1. DOMAIN h2 = DOMAIN h \ Range(r) /\ h2 = [n \in DOMAIN h2 |-> h2[n]]
        /\ \A n \in DOMAIN h2 : h2[n] = h[n]
    OBVIOUS
  <2> HIDE DEF r, L, h
  <2> QED BY <1>3, <2>1
<1>5. /\ DOMAIN t2 = DOMAIN t \ {m} /\ t2 = [l \in DOMAIN t2 |-> t2[l]]
      /\ \A l \in DOMAIN t2 : t2[l] = t[l]
  OBVIOUS
<1>6. m \in DOMAIN t
  OBVIOUS
<1> HIDE DEF L, h, t, r
<1>7. h2 \in Heaps /\ t2 \in AllTables
  <2>1. DOMAIN h2 \subseteq 1 .. MaxNodes /\ \A n \in DOMAIN h2 : h2[n] \in Nodes
    BY <1>1, <1>4, HeapFacts
  <2>2. DOMAIN t2 \subseteq Handles /\ \A l \in DOMAIN t2 : t2[l] \in [Places -> Links]
    BY <1>1, <1>5, TableFacts
  <2> QED BY <1>4, <1>5, <2>1, <2>2, HeapIs, TablesAre
<1>8. ASSUME NEW l \in DOMAIN t2, NEW b \in Places, NEW i \in 1 .. Len(L[l][b])
      PROVE  L[l][b][i] \in DOMAIN h2
  <2> DEFINE x == L[l][b][i]
  <2>1. l \in DOMAIN t /\ l # m
    BY <1>5
  <2>2. x \in DOMAIN h
    BY <1>1, <2>1, NodesOfList
  <2>3. ~InMap(L, m, x)
    <3> SUFFICES ASSUME NEW c \in Places, NEW j \in 1 .. Len(L[m][c]), L[m][c][j] = L[l][b][i]
                 PROVE  FALSE
      BY DEF InMap
    <3>1. Once(t, L)
      BY <1>1 DEF Shape
    <3> QED BY <1>6, <2>1, <3>1 DEF Once
  <2> HIDE DEF x
  <2>4. x \in DOMAIN h2
    BY <1>4, <2>2, <2>3
  <2> QED BY <2>4 DEF x
<1>9. Shape(h2, t2, L)
  <2>1. ASSUME NEW l \in DOMAIN t2, NEW b \in Places
        PROVE  Linked(h2, t2[l][b], L[l][b]) /\ AtPlace(h2, b, L[l][b]) /\ KeysOnce(h2, L[l][b])
    <3> DEFINE s == L[l][b]
    <3>1. l \in DOMAIN t /\ t2[l] = t[l]
      BY <1>5
    <3>2. Linked(h, t[l][b], s) /\ AtPlace(h, b, s) /\ KeysOnce(h, s)
      BY <1>1, <3>1 DEF Shape
    <3>3. \A i \in 1 .. Len(s) : s[i] \in DOMAIN h2 /\ h2[s[i]] = h[s[i]]
      BY <1>4, <1>8
    <3> HIDE DEF s
    <3>4. Linked(h2, t[l][b], s) /\ AtPlace(h2, b, s) /\ KeysOnce(h2, s)
      BY <3>2, <3>3, ListStays, ZenonT(30)
    <3> QED BY <3>1, <3>4 DEF s
  <2>2. Once(t2, L)
    <3>1. Once(t, L) /\ \A l \in DOMAIN t2 : l \in DOMAIN t
      BY <1>1, <1>5 DEF Shape
    <3> QED BY <3>1 DEF Once
  <2>3. ASSUME NEW n \in DOMAIN h2 PROVE InSome(t2, L, n)
    <3>1. n \in DOMAIN h /\ ~InMap(L, m, n)
      BY <1>4
    <3>2. PICK l \in DOMAIN t, b \in Places : \E i \in 1 .. Len(L[l][b]) : L[l][b][i] = n
      BY <1>1, <3>1 DEF Shape, InSome
    <3>3. l # m
      BY <3>1, <3>2 DEF InMap
    <3>4. l \in DOMAIN t2
      BY <1>5, <3>3
    <3> QED BY <3>2, <3>4 DEF InSome
  <2> QED BY <1>7, <2>1, <2>2, <2>3 DEF Shape
<1>10. g \in States /\ g.heap = h2 /\ g.tables = t2
  BY <1>7 DEF States
<1>11. ASSUME NEW l \in DOMAIN t2, NEW k \in Keys PROVE Look(g, l, k) = Look(mem, l, k)
  <2> DEFINE s == L[l][Bucket[k]]
             d == Look(g, l, k)
  <2>1. l \in DOMAIN t /\ Bucket[k] \in Places
    BY <1>5, HashMapAssumption DEF Places
  <2>2. Gives(h2, s, k, d)
    BY <1>9, <1>10, LookGives
  <2>3. \A i \in 1 .. Len(s) : h2[s[i]] = h[s[i]]
    BY <1>4, <1>8, <2>1
  <2>4. \A x : Gives(h, s, k, x) => x = Look(mem, l, k)
    BY <1>1, <2>1, LookGives DEF h, t
  <2> HIDE DEF s, d
  <2>5. Gives(h, s, k, d)
    BY <2>2, <2>3 DEF Gives
  <2> QED BY <2>4, <2>5 DEF d
<1>12. Good(h2, t2)
  BY <1>9, ShapeIsGood
<1> QED BY <1>5, <1>10, <1>11, <1>12 DEF t

-----------------------------------------------------------------------------
(* The calls.                                                              *)

Inv ==
    /\ heap \in Heaps /\ tables \in AllTables
    /\ Good(heap, tables)
    /\ status \in {"running", "exit1", "crash"}

(* The map at m, as the searches find it.                                  *)
Map(mem, m) == [key \in {k \in Keys : Look(mem, m, k) # NULL} |-> Look(mem, m, key)]

LEMMA MemoryFacts ==
    /\ Memory.heap = heap /\ Memory.tables = tables /\ Memory.ok = TRUE
    /\ Memory'.heap = heap' /\ Memory'.tables = tables' /\ Memory'.ok = TRUE
    /\ Inv => Memory \in States
    /\ \A m : EntriesOf(m) = Map(Memory, m)
    /\ \A m : EntriesOf(m)' = Map(Memory', m)
<1>1. Inv => Memory \in States
  BY DEF Inv, Memory, States
<1>2. ASSUME NEW m, NEW k
      PROVE  Found(m, k) = Look(Memory, m, k) /\ Found(m, k)' = Look(Memory', m, k)
  <2>1. Memory.tables = tables /\ Memory'.tables = tables'
    BY DEF Memory
  <2>2. Found(m, k) = Find(Memory, tables[m][Bucket[k]], k)
    BY DEF Found
  <2>3. Found(m, k)' = Find(Memory', tables'[m][Bucket[k]], k)
    BY DEF Found
  <2> QED BY <2>1, <2>2, <2>3 DEF Look
<1>3. \A m : EntriesOf(m) = Map(Memory, m) /\ EntriesOf(m)' = Map(Memory', m)
  BY <1>2 DEF EntriesOf, Map
<1> QED BY <1>1, <1>3 DEF Memory

LEMMA GivingUp ==
    ASSUME Inv, Running, status' \in {"exit1", "crash"}, UNCHANGED <<heap, tables>>
    PROVE  Inv' /\ Abstract!Next
<1>1. Inv'
  BY DEF Inv
<1>2. Memory' = Memory
  BY DEF Memory
<1>3. [m \in Live |-> EntriesOf(m)]' = [m \in Live |-> EntriesOf(m)]
  BY <1>2, MemoryFacts DEF Live
<1> QED BY <1>1, <1>3 DEF Abstract!Next, Abstract!GiveUp, Running

(* A call whose outcome is g.                                              *)
LEMMA BecomesFacts ==
    ASSUME Inv, Running, NEW g \in States, Good(g.heap, g.tables), Becomes(g)
    PROVE  /\ Inv'
           /\ ~g.ok => Abstract!Next
           /\ g.ok => Memory' = g /\ UNCHANGED status
<1>1. CASE g.ok
  <2>1. heap' = g.heap /\ tables' = g.tables /\ UNCHANGED status
    BY <1>1 DEF Becomes
  <2>2. Memory' = g
    <3>1. g = [heap |-> g.heap, tables |-> g.tables, ok |-> g.ok] /\ g.ok = TRUE
      BY <1>1 DEF States
    <3> QED BY <2>1, <3>1 DEF Memory
  <2>3. Inv'
    BY <2>1, StateFacts DEF Inv
  <2> QED BY <1>1, <2>1, <2>2, <2>3
<1>2. CASE ~g.ok
  <2>1. status' = "exit1" /\ UNCHANGED <<heap, tables>>
    BY <1>2 DEF Becomes
  <2> QED BY <1>2, <2>1, GivingUp
<1> QED BY <1>1, <1>2

LEMMA OnlyOnFacts ==
    ASSUME NEW m, UNCHANGED status,
           \A l \in Handles \ {m} : l \in DOMAIN tables' <=> l \in DOMAIN tables,
           \A l \in DOMAIN tables \ {m}, k \in Keys : Look(Memory', l, k) = Look(Memory, l, k)
    PROVE  Abstract!OnlyOn(m)
<1>1. ASSUME NEW l \in DOMAIN tables \ {m} PROVE Map(Memory', l) = Map(Memory, l)
  BY DEF Map
<1>2. \A l \in DOMAIN tables \ {m} : EntriesOf(l)' = EntriesOf(l)
  BY <1>1, MemoryFacts
<1> QED BY <1>2 DEF Abstract!OnlyOn, Abstract!MadeNow, Abstract!Made, Live

LEMMA UseIsNext ==
    ASSUME Running, NEW m \in Handles, Abstract!Use(m)
    PROVE  Abstract!Next
BY DEF Abstract!Next, Running

LEMMA NewStep ==
    ASSUME Inv, HashmapNew
    PROVE  Inv' /\ Abstract!Next
<1>1. Running
  BY DEF HashmapNew
<1>2. PICK m \in Handles : m \notin DOMAIN tables /\ Becomes(New(Memory, m))
  BY DEF HashmapNew, Live
<1> DEFINE g == New(Memory, m)
<1>3. /\ g \in States /\ Good(g.heap, g.tables) /\ DOMAIN g.tables = DOMAIN tables \cup {m}
      /\ g.ok
      /\ \A k \in Keys : Look(g, m, k) = NULL
      /\ \A l \in DOMAIN tables, k \in Keys : Look(g, l, k) = Look(Memory, l, k)
  <2>1. Memory \in States /\ Good(Memory.heap, Memory.tables) /\ m \notin DOMAIN Memory.tables
    BY <1>2, MemoryFacts DEF Inv
  <2> QED BY <2>1, MemoryFacts, NewFacts
<1> HIDE DEF g
<1>4. Inv' /\ Memory' = g /\ UNCHANGED status
  BY <1>1, <1>2, <1>3, BecomesFacts DEF g
<1>5. DOMAIN tables' = DOMAIN tables \cup {m}
  BY <1>3, <1>4, MemoryFacts
<1>6. Abstract!OnlyOn(m)
  BY <1>3, <1>4, <1>5, OnlyOnFacts
<1>7. Abstract!New(m)
  <2>1. DOMAIN Map(g, m) = {}
    BY <1>3 DEF Map
  <2>2. DOMAIN EntriesOf(m)' = {}
    BY <1>4, <2>1, MemoryFacts
  <2> QED BY <1>2, <1>5, <2>2 DEF Abstract!New, Abstract!Made, Abstract!MadeNow, Live
<1> QED BY <1>1, <1>4, <1>6, <1>7, UseIsNext DEF Abstract!Use

LEMMA AddStep ==
    ASSUME Inv, HashmapAdd
    PROVE  Inv' /\ Abstract!Next
<1>1. Running
  BY DEF HashmapAdd
<1>2. PICK m \in DOMAIN tables, key \in Keys, data \in Data : Becomes(Add(Memory, m, data, key))
  BY DEF HashmapAdd, Live
<1> DEFINE g == Add(Memory, m, data, key)
<1>3. Like(Memory, g) /\ (g.ok => Added(Memory, m, data, key, g))
  <2>1. Memory \in States /\ Good(Memory.heap, Memory.tables) /\ m \in DOMAIN Memory.tables
    BY MemoryFacts DEF Inv
  <2> QED BY <2>1, AddFacts
<1> HIDE DEF g
<1>4. /\ g \in States /\ Good(g.heap, g.tables) /\ DOMAIN g.tables = DOMAIN tables
      /\ m \in Handles
  <2>1. DOMAIN tables \subseteq Handles
    BY TableFacts DEF Inv
  <2> QED BY <1>3, <2>1, MemoryFacts DEF Like
<1>5. Inv' /\ (~g.ok => Abstract!Next) /\ (g.ok => Memory' = g /\ UNCHANGED status)
  BY <1>1, <1>2, <1>4, BecomesFacts DEF g
<1>6. ASSUME g.ok PROVE Abstract!Next
  <2>1. Memory' = g /\ UNCHANGED status /\ DOMAIN tables' = DOMAIN tables
    BY <1>4, <1>5, <1>6, MemoryFacts
  <2>2. \A l \in DOMAIN tables, k \in Keys :
            Look(Memory', l, k) = IF l = m /\ k = key THEN data ELSE Look(Memory, l, k)
    BY <1>3, <1>6, <2>1, MemoryFacts DEF Added
  <2>3. Abstract!OnlyOn(m)
    BY <2>1, <2>2, OnlyOnFacts
  <2>4. Map(Memory', m) = Abstract!Update(Map(Memory, m), [x \in {key} |-> data])
    <3> DEFINE f == Map(Memory', m)
               o == [x \in {key} |-> data]
               u == Abstract!Update(Map(Memory, m), o)
    <3>1. DOMAIN f = DOMAIN Map(Memory, m) \cup {key}
      <4>1. data # NULL
        BY HashMapAssumption
      <4> QED BY <2>2, <4>1 DEF Map
    <3>2. \A k \in DOMAIN f : f[k] = IF k = key THEN data ELSE Map(Memory, m)[k]
      <4>1. \A k \in DOMAIN f : k \in Keys /\ f[k] = Look(Memory', m, k)
        BY DEF Map
      <4>2. \A k \in DOMAIN Map(Memory, m) : Map(Memory, m)[k] = Look(Memory, m, k)
        BY DEF Map
      <4> HIDE DEF f
      <4> QED BY <2>2, <3>1, <4>1, <4>2
    <3>3. f = [k \in DOMAIN f |-> f[k]]
      BY DEF Map
    <3> HIDE DEF f
    <3>4. u = [k \in DOMAIN f |-> IF k = key THEN data ELSE Map(Memory, m)[k]]
      BY <3>1 DEF Abstract!Update
    <3> HIDE DEF u
    <3>5. f = u
      BY <3>2, <3>3, <3>4
    <3> QED BY <3>5 DEF f, u
  <2>5. Abstract!Add(m)
    <3>1. EntriesOf(m)' = Abstract!Update(EntriesOf(m), [x \in {key} |-> data])
      BY <2>4, MemoryFacts
    <3> QED BY <2>1, <3>1 DEF Abstract!Add, Abstract!Made, Abstract!MadeNow, Live
  <2> QED BY <1>1, <1>4, <2>3, <2>5, UseIsNext DEF Abstract!Use
<1> QED BY <1>5, <1>6

(* The types are a map, as their names are different.                      *)
LEMMA TypesFacts ==
    LET names == {Types[i].key : i \in DOMAIN Types}
        map   == [key \in names |-> Types[CHOOSE i \in DOMAIN Types : Types[i].key = key].data]
    IN  /\ IsList(Types) /\ AreEntries(Types)
        /\ \A i, j \in DOMAIN Types : Types[i].key = Types[j].key => i = j
        /\ DOMAIN map = names /\ names \subseteq Keys
        /\ \A i \in DOMAIN Types : map[Types[i].key] = Types[i].data
<1> DEFINE names == {Types[i].key : i \in DOMAIN Types}
           map   == [key \in names |-> Types[CHOOSE i \in DOMAIN Types : Types[i].key = key].data]
<1>1. /\ Types \in Seq([key : Keys, data : Data])
      /\ \A i, j \in DOMAIN Types : Types[i].key = Types[j].key => i = j
  BY HashMapAssumption
<1>2. IsList(Types)
  BY <1>1 DEF IsList
<1>3. AreEntries(Types)
  <2> DEFINE S == [key : Keys, data : Data]
  <2>1. Types \in Seq(S)
    BY HashMapAssumption
  <2> HIDE DEF S
  <2>2. \A i \in DOMAIN Types : Types[i] \in S
    BY <2>1
  <2> USE DEF S
  <2> QED BY <2>2 DEF AreEntries
<1>4. names \subseteq Keys
  BY <1>3 DEF AreEntries
<1>5. ASSUME NEW i \in DOMAIN Types PROVE map[Types[i].key] = Types[i].data
  <2> DEFINE j == CHOOSE x \in DOMAIN Types : Types[x].key = Types[i].key
  <2>1. j \in DOMAIN Types /\ Types[j].key = Types[i].key
    OBVIOUS
  <2>2. j = i
    <3> HIDE DEF j
    <3> QED BY <1>1, <2>1
  <2>3. map[Types[i].key] = Types[j].data
    OBVIOUS
  <2> QED BY <2>2, <2>3
<1> QED BY <1>1, <1>2, <1>3, <1>4, <1>5

LEMMA FillStep ==
    ASSUME Inv, TypeEnvInit
    PROVE  Inv' /\ Abstract!Next
<1>1. Running
  BY DEF TypeEnvInit
<1>2. PICK m \in DOMAIN tables : Becomes(AddAll(Memory, m, Types))
  BY DEF TypeEnvInit, Live
<1> DEFINE g == AddAll(Memory, m, Types)
           names == {Types[i].key : i \in DOMAIN Types}
           types == [key \in names |-> Types[CHOOSE i \in DOMAIN Types : Types[i].key = key].data]
<1>3. Like(Memory, g) /\ (g.ok => Filled(Memory, m, Types, g))
  <2>1. Memory \in States /\ Good(Memory.heap, Memory.tables) /\ m \in DOMAIN Memory.tables
    BY MemoryFacts DEF Inv
  <2> QED BY <2>1, TypesFacts, AddAllFacts
<1>4. /\ g \in States /\ Good(g.heap, g.tables) /\ DOMAIN g.tables = DOMAIN tables
      /\ m \in Handles
  <2>1. DOMAIN tables \subseteq Handles
    BY TableFacts DEF Inv
  <2> HIDE DEF g
  <2> QED BY <1>3, <2>1, MemoryFacts DEF Like
<1>5. Inv' /\ (~g.ok => Abstract!Next) /\ (g.ok => Memory' = g /\ UNCHANGED status)
  <2>1. Becomes(g)
    BY <1>2
  <2> HIDE DEF g
  <2> QED BY <1>1, <1>4, <2>1, BecomesFacts
<1> HIDE DEF g
<1>6. ASSUME g.ok PROVE Abstract!Next
  <2>1. Memory' = g /\ UNCHANGED status /\ DOMAIN tables' = DOMAIN tables
    BY <1>4, <1>5, <1>6, MemoryFacts
  <2>2. \A l \in DOMAIN tables, k \in Keys :
            /\ l # m => Look(Memory', l, k) = Look(Memory, l, k)
            /\ (\A i \in DOMAIN Types : Types[i].key # k) => Look(Memory', l, k) = Look(Memory, l, k)
            /\ l = m => \A i \in DOMAIN Types : Types[i].key = k => Look(Memory', l, k) = Types[i].data
    BY <1>3, <1>6, <2>1, MemoryFacts DEF Filled
  <2>3. Abstract!OnlyOn(m)
    BY <2>1, <2>2, OnlyOnFacts
  <2>4. /\ DOMAIN types = names /\ names \subseteq Keys
        /\ \A i \in DOMAIN Types : types[Types[i].key] = Types[i].data /\ Types[i].data \in Data
    BY TypesFacts DEF AreEntries
  <2>5. ASSUME NEW k \in Keys
        PROVE  /\ k \in names => Look(Memory', m, k) = types[k] /\ types[k] # NULL
               /\ k \notin names => Look(Memory', m, k) = Look(Memory, m, k)
    <3>1. ASSUME k \in names PROVE Look(Memory', m, k) = types[k] /\ types[k] # NULL
      <4>1. PICK i \in DOMAIN Types : Types[i].key = k
        BY <3>1
      <4>2. types[k] = Types[i].data /\ Types[i].data \in Data
        BY <2>4, <4>1
      <4>3. NULL \notin Data
        BY HashMapAssumption
      <4> HIDE DEF types, names
      <4> QED BY <2>2, <4>1, <4>2, <4>3
    <3>2. ASSUME k \notin names PROVE Look(Memory', m, k) = Look(Memory, m, k)
      BY <2>2, <3>2
    <3> QED BY <3>1, <3>2
  <2>6. Map(Memory', m) = Abstract!Update(Map(Memory, m), types)
    <3> DEFINE f == Map(Memory', m)
               u == Abstract!Update(Map(Memory, m), types)
    <3> HIDE DEF types, names
    <3>1. DOMAIN f = DOMAIN Map(Memory, m) \cup names
      BY <2>4, <2>5 DEF Map
    <3>2. \A k \in DOMAIN f : f[k] = IF k \in names THEN types[k] ELSE Map(Memory, m)[k]
      <4>1. \A k \in DOMAIN f : k \in Keys /\ f[k] = Look(Memory', m, k)
        BY DEF Map
      <4>2. \A k \in DOMAIN Map(Memory, m) : Map(Memory, m)[k] = Look(Memory, m, k)
        BY DEF Map
      <4> HIDE DEF f
      <4> QED BY <2>5, <3>1, <4>1, <4>2
    <3>3. f = [k \in DOMAIN f |-> f[k]]
      BY DEF Map
    <3> HIDE DEF f
    <3>4. u = [k \in DOMAIN f |-> IF k \in names THEN types[k] ELSE Map(Memory, m)[k]]
      BY <2>4, <3>1 DEF Abstract!Update
    <3> HIDE DEF u
    <3>5. f = u
      BY <3>2, <3>3, <3>4
    <3> QED BY <3>5 DEF f, u
  <2>7. Abstract!Fill(m)
    <3>1. EntriesOf(m)' = Abstract!Update(EntriesOf(m), types)
      BY <2>6, MemoryFacts
    <3> QED BY <2>1, <3>1 DEF Abstract!Fill, Abstract!Made, Abstract!MadeNow, Live
  <2> QED BY <1>1, <1>4, <2>3, <2>7, UseIsNext DEF Abstract!Use
<1> QED BY <1>5, <1>6

LEMMA CloneStep ==
    ASSUME Inv, SymtabClone
    PROVE  Inv' /\ Abstract!Next
<1>1. Running
  BY DEF SymtabClone
<1>2. PICK m \in DOMAIN tables, c \in Handles :
          /\ c \notin DOMAIN tables
          /\ LET nodes == NodesOf(Memory, m)
             IN  Becomes(AddAll(New(Memory, c), c, [i \in DOMAIN nodes |-> heap[nodes[i]]]))
  BY DEF SymtabClone, Live
<1> DEFINE nodes == NodesOf(Memory, m)
           g == AddAll(New(Memory, c), c, [i \in DOMAIN nodes |-> heap[nodes[i]]])
<1>3. /\ g \in States /\ Good(g.heap, g.tables) /\ DOMAIN g.tables = DOMAIN tables \cup {c}
      /\ g.ok => /\ \A k \in Keys : Look(g, c, k) = Look(Memory, m, k)
                 /\ \A l \in DOMAIN tables, k \in Keys : Look(g, l, k) = Look(Memory, l, k)
  <2>1. /\ Memory \in States /\ Good(Memory.heap, Memory.tables) /\ m \in DOMAIN Memory.tables
        /\ c \notin DOMAIN Memory.tables /\ Memory.heap = heap /\ Memory.tables = tables
    BY <1>2, MemoryFacts DEF Inv
  <2>2. g = AddAll(New(Memory, c), c, [i \in DOMAIN nodes |-> Memory.heap[nodes[i]]])
    BY <2>1
  <2> DEFINE d == Memory
  <2> HIDE DEF d, g
  <2>3. /\ g \in States /\ Good(g.heap, g.tables) /\ DOMAIN g.tables = DOMAIN d.tables \cup {c}
        /\ g.ok => /\ \A k \in Keys : Look(g, c, k) = Look(d, m, k)
                   /\ \A l \in DOMAIN d.tables, k \in Keys : Look(g, l, k) = Look(d, l, k)
    BY <2>1, <2>2, CloneFacts DEF d
  <2> QED BY <2>1, <2>3 DEF d
<1>4. Inv' /\ (~g.ok => Abstract!Next) /\ (g.ok => Memory' = g /\ UNCHANGED status)
  <2>1. Becomes(g)
    BY <1>2
  <2> HIDE DEF g
  <2> QED BY <1>1, <1>3, <2>1, BecomesFacts
<1> HIDE DEF g
<1>5. ASSUME g.ok PROVE Abstract!Next
  <2>1. Memory' = g /\ UNCHANGED status /\ DOMAIN tables' = DOMAIN tables \cup {c}
    BY <1>3, <1>4, <1>5, MemoryFacts
  <2>2. /\ \A k \in Keys : Look(Memory', c, k) = Look(Memory, m, k)
        /\ \A l \in DOMAIN tables, k \in Keys : Look(Memory', l, k) = Look(Memory, l, k)
    BY <1>3, <1>5, <2>1
  <2>3. Abstract!OnlyOn(c)
    BY <2>1, <2>2, OnlyOnFacts
  <2>4. Map(Memory', c) = Map(Memory, m)
    BY <2>2 DEF Map
  <2>5. EntriesOf(c)' = EntriesOf(m)
    BY <2>4, MemoryFacts
  <2>6. Abstract!Clone(c)
    BY <1>2, <2>1, <2>5 DEF Abstract!Clone, Abstract!Made, Abstract!MadeNow, Live
  <2> QED BY <1>1, <2>3, <2>6, UseIsNext DEF Abstract!Use
<1> QED BY <1>4, <1>5

LEMMA FreeStep ==
    ASSUME Inv, HashmapFree
    PROVE  Inv' /\ Abstract!Next
<1>1. Running /\ UNCHANGED status
  BY DEF HashmapFree
<1>2. PICK m \in DOMAIN tables :
          /\ heap' = [n \in DOMAIN heap \ Range(NodesOf(Memory, m)) |-> heap[n]]
          /\ tables' = [l \in DOMAIN tables \ {m} |-> tables[l]]
  BY DEF HashmapFree, Live
<1>3. /\ Memory \in States /\ Good(Memory.heap, Memory.tables)
      /\ Memory.heap = heap /\ Memory.tables = tables
      /\ Memory' = [heap |-> heap', tables |-> tables', ok |-> TRUE]
  BY MemoryFacts DEF Inv, Memory
<1>4. /\ Memory' \in States /\ Good(heap', tables')
      /\ \A l \in DOMAIN tables \ {m}, k \in Keys : Look(Memory', l, k) = Look(Memory, l, k)
  <2> DEFINE d == Memory
             h2 == [n \in DOMAIN d.heap \ Range(NodesOf(d, m)) |-> d.heap[n]]
             t2 == [l \in DOMAIN d.tables \ {m} |-> d.tables[l]]
             g == [heap |-> h2, tables |-> t2, ok |-> TRUE]
  <2>1. d \in States /\ Good(d.heap, d.tables) /\ m \in DOMAIN d.tables
    BY <1>3
  <2> HIDE DEF d
  <2>2. /\ g \in States /\ Good(h2, t2)
        /\ \A l \in DOMAIN d.tables \ {m}, k \in Keys : Look(g, l, k) = Look(d, l, k)
    BY <2>1, FreeFacts
  <2>3. heap' = h2 /\ tables' = t2
    BY <1>2, <1>3 DEF d
  <2> HIDE DEF h2, t2
  <2>4. Memory' = g
    BY <1>3, <2>3
  <2> HIDE DEF g
  <2> QED BY <1>3, <2>2, <2>3, <2>4 DEF d
<1>5. Inv'
  <2>1. heap' \in Heaps /\ tables' \in AllTables
    BY <1>4, MemoryFacts DEF States
  <2> QED BY <1>1, <1>4, <2>1 DEF Inv
<1>6. DOMAIN tables' = DOMAIN tables \ {m} /\ m \in Handles
  <2>1. DOMAIN tables \subseteq Handles
    BY TableFacts DEF Inv
  <2> QED BY <1>2, <2>1
<1>7. Abstract!OnlyOn(m)
  BY <1>1, <1>4, <1>6, OnlyOnFacts
<1>8. Abstract!Free(m)
  BY <1>6 DEF Abstract!Free, Abstract!Made, Abstract!MadeNow, Live
<1> QED BY <1>1, <1>5, <1>6, <1>7, <1>8, UseIsNext DEF Abstract!Use

LEMMA NoTableStep ==
    ASSUME Inv, NoTable
    PROVE  Inv' /\ Abstract!Next
BY GivingUp DEF NoTable

LEMMA StepFacts ==
    ASSUME Inv, [Next]_vars
    PROVE  Inv' /\ [Abstract!Next]_Abstract!vars
<1>1. CASE Next
  BY <1>1, NewStep, NoTableStep, AddStep, FillStep, CloneStep, FreeStep DEF Next
<1>2. CASE UNCHANGED vars
  <2>1. Inv' /\ Memory' = Memory /\ UNCHANGED <<tables, status>>
    BY <1>2 DEF Inv, vars, Memory
  <2>2. [m \in Live |-> EntriesOf(m)]' = [m \in Live |-> EntriesOf(m)]
    BY <2>1, MemoryFacts DEF Live
  <2> QED BY <2>1, <2>2 DEF Abstract!vars
<1> QED BY <1>1, <1>2

LEMMA InitFacts ==
    ASSUME Init
    PROVE  Inv /\ Abstract!Init
<1>1. heap = <<>> /\ tables = <<>> /\ status = "running"
  BY DEF Init
<1>2. DOMAIN heap = {} /\ DOMAIN tables = {}
  BY <1>1
<1>3. heap \in Heaps /\ tables \in AllTables
  <2>1. heap = [n \in DOMAIN heap |-> heap[n]] /\ tables = [m \in DOMAIN tables |-> tables[m]]
    BY <1>1
  <2> QED BY <1>2, <2>1, HeapIs, TablesAre
<1>4. Shape(heap, tables, tables)
  BY <1>2, <1>3 DEF Shape, Once
<1>5. Inv
  BY <1>1, <1>3, <1>4, ShapeIsGood DEF Inv
<1>6. Abstract!Init
  <2>1. [m \in Live |-> EntriesOf(m)] = [h \in {} |-> {}]
    BY <1>2 DEF Live
  <2> QED BY <1>1, <2>1 DEF Abstract!Init
<1> QED BY <1>5, <1>6

LEMMA InvHolds == Spec => []Inv
<1>1. Init => Inv
  BY InitFacts
<1>2. Inv /\ [Next]_vars => Inv'
  BY StepFacts
<1> QED BY <1>1, <1>2, PTL DEF Spec

-----------------------------------------------------------------------------
(* Nodes and tables have their fields, and a node's successor is never     *)
(* anything but a node or NULL: what insert() and hashmap_free() do never  *)
(* leaves a field of another kind.                                         *)
THEOREM TypeCorrect == Spec => []TypeOK
<1>1. Inv => TypeOK
  <2> SUFFICES ASSUME Inv PROVE TypeOK
    OBVIOUS
  <2>1. /\ DOMAIN heap \subseteq 1 .. MaxNodes
        /\ \A n \in DOMAIN heap : heap[n] \in Nodes
    BY HeapFacts DEF Inv
  <2>2. /\ DOMAIN tables \subseteq Handles
        /\ \A m \in DOMAIN tables : tables[m] \in [Places -> Links]
    BY TableFacts DEF Inv
  <2> QED BY <2>1, <2>2 DEF Inv, TypeOK, Live, Nodes, Links
<1> QED BY <1>1, InvHolds, PTL

(* No node is lost, shared or followed after it was freed, and no key is   *)
(* twice in a map, whatever is added, cloned and freed in whatever order.  *)
THEOREM HeapStaysExact == Spec => []HeapExact
<1>1. Inv => HeapExact
  <2> SUFFICES ASSUME Inv PROVE HeapExact
    OBVIOUS
  <2> DEFINE L == Chains(heap, tables)
  <2>1. Shape(heap, tables, L) /\ heap \in Heaps
    BY DEF Inv, Good
  <2>2. ASSUME NEW p \in Spots
        PROVE  LET s == L[p[1]][p[2]] IN
               /\ p[1] \in DOMAIN tables /\ p[2] \in Places /\ p = <<p[1], p[2]>>
               /\ ChainAt(p) = s /\ DOMAIN ChainAt(p) = 1 .. Len(s)
               /\ \A i \in 1 .. Len(s) : s[i] \in DOMAIN heap
               /\ AtPlace(heap, p[2], s) /\ KeysOnce(heap, s)
    <3>1. PICK m \in DOMAIN tables, b \in Places : p = <<m, b>>
      BY DEF Live, Spots
    <3> HIDE DEF L
    <3>2. Chain(heap, tables[m][b]) = L[m][b]
      BY <2>1, ShapeIsGood
    <3>3. /\ DOMAIN L[m][b] = 1 .. Len(L[m][b])
          /\ \A i \in 1 .. Len(L[m][b]) : L[m][b][i] \in DOMAIN heap
      BY <2>1, NodesOfList
    <3>4. AtPlace(heap, b, L[m][b]) /\ KeysOnce(heap, L[m][b])
      BY <2>1 DEF Shape
    <3>5. p[1] = m /\ p[2] = b
      BY <3>1
    <3>6. ChainAt(p) = L[m][b]
      BY <3>2, <3>5 DEF ChainAt
    <3> QED BY <3>1, <3>3, <3>4, <3>5, <3>6
  <2>3. Once(tables, L) /\ \A n \in DOMAIN heap : InSome(tables, L, n)
    BY <2>1 DEF Shape
  <2>4. \A m \in DOMAIN tables : \A b \in Places :
            LET p == <<m, b>> IN p \in Spots /\ p[1] = m /\ p[2] = b
    BY DEF Live, Spots
  <2> HIDE DEF L
  <2>5. DOMAIN heap = UNION {Range(ChainAt(p)) : p \in Spots}
    <3>1. ASSUME NEW n \in DOMAIN heap PROVE \E p \in Spots : n \in Range(ChainAt(p))
      <4>1. PICK m \in DOMAIN tables, b \in Places : \E i \in 1 .. Len(L[m][b]) : L[m][b][i] = n
        BY <2>3 DEF InSome
      <4>2. PICK p \in Spots : p[1] = m /\ p[2] = b
        BY <2>4
      <4>3. ChainAt(p) = L[m][b] /\ DOMAIN ChainAt(p) = 1 .. Len(L[m][b])
        BY <2>2, <4>2
      <4> QED BY <4>1, <4>3 DEF Range
    <3>2. ASSUME NEW p \in Spots, NEW n \in Range(ChainAt(p)) PROVE n \in DOMAIN heap
      <4>1. PICK i \in DOMAIN ChainAt(p) : n = ChainAt(p)[i]
        BY DEF Range
      <4> QED BY <2>2, <4>1
    <3> QED BY <3>1, <3>2
  <2>6. ASSUME NEW p \in Spots, NEW q \in Spots, NEW i \in DOMAIN ChainAt(p), NEW j \in DOMAIN ChainAt(q),
               ChainAt(p)[i] = ChainAt(q)[j]
        PROVE  p = q /\ i = j
    <3>1. /\ i \in 1 .. Len(L[p[1]][p[2]]) /\ j \in 1 .. Len(L[q[1]][q[2]])
          /\ L[p[1]][p[2]][i] = L[q[1]][q[2]][j]
          /\ p[1] \in DOMAIN tables /\ q[1] \in DOMAIN tables /\ p[2] \in Places /\ q[2] \in Places
      BY <2>2, <2>6
    <3>2. p[1] = q[1] /\ p[2] = q[2] /\ i = j
      <4>1. PICK m \in DOMAIN tables : m = p[1]
        BY <3>1
      <4>2. PICK l \in DOMAIN tables : l = q[1]
        BY <3>1
      <4>3. PICK b \in Places : b = p[2]
        BY <3>1
      <4>4. PICK c \in Places : c = q[2]
        BY <3>1
      <4>5. /\ i \in 1 .. Len(L[m][b]) /\ j \in 1 .. Len(L[l][c])
            /\ L[m][b][i] = L[l][c][j]
        BY <3>1, <4>1, <4>2, <4>3, <4>4
      <4>6. m = l /\ b = c /\ i = j
        BY <2>3, <4>5 DEF Once
      <4> QED BY <4>1, <4>2, <4>3, <4>4, <4>6
    <3>3. p = <<p[1], p[2]>> /\ q = <<q[1], q[2]>>
      BY <2>2
    <3> QED BY <3>2, <3>3, Zenon
  <2>7. ASSUME NEW p \in Spots, NEW i \in DOMAIN ChainAt(p), NEW j \in DOMAIN ChainAt(p)
        PROVE  /\ Bucket[heap[ChainAt(p)[i]].key] = p[2]
               /\ heap[ChainAt(p)[i]].key = heap[ChainAt(p)[j]].key => i = j
    <3> DEFINE s == L[p[1]][p[2]]
               b == p[2]
    <3>1. ChainAt(p) = s /\ AtPlace(heap, b, s) /\ KeysOnce(heap, s)
      BY <2>2
    <3>2. i \in 1 .. Len(s) /\ j \in 1 .. Len(s)
      BY <2>2, <2>7
    <3> HIDE DEF s, b
    <3>3. Bucket[heap[s[i]].key] = b
      BY <3>1, <3>2 DEF AtPlace
    <3>4. heap[s[i]].key = heap[s[j]].key => i = j
      BY <3>1, <3>2 DEF KeysOnce
    <3>5. b = p[2]
      BY DEF b
    <3> QED BY <3>1, <3>3, <3>4, <3>5
  <2>8. NoneLost
    BY <2>5 DEF NoneLost
  <2>9. NoneShared
    BY <2>6 DEF NoneShared
  <2>10. InPlace /\ KeysDiffer
    BY <2>7 DEF InPlace, KeysDiffer
  <2> QED BY <2>8, <2>9, <2>10 DEF HeapExact
<1> QED BY <1>1, InvHolds, PTL

(* The hash maps are maps: hashmap_get finds what hashmap_add put there    *)
(* last, a clone starts with the entries of its map and lives its own life,*)
(* and freeing a map leaves the others alone.                              *)
THEOREM HashMapsAreMaps == Spec => ImplementsMaps
<1>1. Init => Abstract!Init
  BY InitFacts
<1>2. Inv /\ [Next]_vars => [Abstract!Next]_Abstract!vars
  BY StepFacts
<1> QED BY <1>1, <1>2, InvHolds, PTL DEF Spec, ImplementsMaps, Abstract!Spec

=============================================================================
