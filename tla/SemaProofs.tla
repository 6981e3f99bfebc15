----------------------------- MODULE SemaProofs -----------------------------
(***************************************************************************)
(* Proofs about the semantic checker, for every set of programs the parser *)
(* can build, every word size and every content of unset memory.           *)
(*                                                                         *)
(* That locals lie apart needs to know that offsets are handed out from    *)
(* the end of a frame that only grows, and that a declaration is never met *)
(* outside a function, which would have no frame: the agenda holds nothing *)
(* but functions until the first one has been entered.  That a return      *)
(* finds its function needs every scope to have the function's name, and   *)
(* so that scopes are opened and closed in pairs: the agenda closes as     *)
(* many scopes as are open, and a function is met when one is (AgendaOK).  *)
(* What the passes behind it are given needs to know which nodes were met  *)
(* (Reached) and which functions (Named).                                  *)
(***************************************************************************)
EXTENDS Sema, WellFoundedInduction, SequenceTheorems, TLAPS

IsList(s) == \E S : s \in Seq(S)

-----------------------------------------------------------------------------
(* The inductive invariant.                                                *)

Items(nodes) == [act : {"check", "define"}, node : DOMAIN nodes] \cup {Leave}
IsFunc(nodes, item) == item.act = "check" /\ nodes[item.node].type = "FUNC_DEF"

(* Nodes that are no functions, and the items sym_check makes of them.     *)
PlainNodes(nodes) == {n \in DOMAIN nodes : nodes[n].type # "FUNC_DEF"}
Plain(nodes)  == [act : {"check"}, node : PlainNodes(nodes)] \cup [act : {"define"}, node : DOMAIN nodes]

(* d[i] is the number of scopes when item i is met; behind the last one    *)
(* the global scope is left.                                               *)
Depths(nodes, t, d) ==
    /\ d[Len(t) + 1] = 1
    /\ \A i \in 1 .. Len(t) :
         /\ t[i].act = "leave" => d[i] >= 2 /\ d[i + 1] = d[i] - 1
         /\ t[i].act # "leave" => d[i + 1] = d[i]
         /\ IsFunc(nodes, t[i]) => d[i] = 1
AgendaOK(nodes, t, n) ==
    \E d \in [1 .. Len(t) + 1 -> Nat \ {0}] : d[1] = n /\ Depths(nodes, t, d)

TableOK(table, ids) == \A k \in DOMAIN table : table[k] \in ids
ChainOK(chain, ids) == IsList(chain) /\ \A i \in DOMAIN chain : TableOK(chain[i], ids)

(* Locals lie in the frame of their function, in the order they were made. *)
Layout ==
    /\ \A s \in DOMAIN syms : IsLocal(s) =>
         /\ syms[s].owner \in DOMAIN frame /\ syms[s].offset \in Nat
         /\ syms[s].offset + WordSize <= frame[syms[s].owner]
    /\ \A s, t \in DOMAIN syms :
         IsLocal(s) /\ IsLocal(t) /\ syms[s].owner = syms[t].owner /\ s < t
           => syms[s].offset + WordSize <= syms[t].offset

Running ==
    /\ AgendaOK(prog.nodes, todo, Len(scopes))
    /\ func = NULL => \A i \in DOMAIN todo : IsFunc(prog.nodes, todo[i])
    /\ func # NULL => \A i \in DOMAIN scopes : syms[func].key \in DOMAIN scopes[i]

Inv ==
    /\ prog \in Programs
    /\ junk \in JunkWords
    /\ todo \in Seq(Items(prog.nodes))
    /\ IsList(syms)
    /\ ChainOK(scopes, DOMAIN syms)
    /\ DOMAIN symOf \subseteq DOMAIN prog.nodes /\ TableOK(symOf, DOMAIN syms)
    /\ DOMAIN frame \subseteq DOMAIN syms \cap DOMAIN params
    /\ \A s \in DOMAIN frame : frame[s] \in Nat /\ params[s] \in Seq(DOMAIN syms)
    /\ func \in DOMAIN frame \cup {NULL}
    /\ used \subseteq DOMAIN syms
    /\ verdict \in {"symbols", "types", "accepted", "exit1", "crash"}
    /\ verdict = "symbols" => Running
    /\ Layout

-----------------------------------------------------------------------------
(* Sequences and numbers.                                                  *)

(* A nonempty set of positions has a last one.                             *)
LEMMA LastPosition ==
    ASSUME NEW n \in Nat, NEW S \in SUBSET (1 .. n), S # {}
    PROVE  \E j \in S : \A k \in S : k <= j
<1> DEFINE Less == {p \in Nat \X Nat : p[1] < p[2]}
           D    == {n - x : x \in S}
<1>1. IsWellFoundedOn(Less, Nat)
  BY NatLessThanWellFounded, Zenon DEF OpToRel
<1>2. D \subseteq Nat /\ D # {}
  <2> SUFFICES ASSUME NEW x \in S PROVE n - x \in Nat
    OBVIOUS
  <2> QED OBVIOUS
<1>3. PICK m \in D : \A y \in D : ~(<<y, m>> \in Less)
  <2> HIDE DEF Less, D
  <2> QED BY <1>1, <1>2, WFMin
<1>4. PICK x \in S : m = n - x
  OBVIOUS
<1>5. ASSUME NEW y \in S PROVE x >= y
  <2>1. n - y \in D /\ n - y \in Nat /\ m \in Nat
    BY <1>2
  <2>2. ~(n - y < m)
    BY <1>3, <2>1
  <2> QED BY <1>4, <2>2
<1> QED BY <1>5

LEMMA GreatestElement ==
    ASSUME NEW n \in Nat, NEW S \in SUBSET (1 .. n), S # {}
    PROVE  Max(S) \in S
  BY LastPosition DEF Max

(* What a list is a function on.                                           *)
LEMMA ListFacts ==
    /\ IsList(<<>>)
    /\ \A a : IsList(<<a>>)
    /\ \A s : IsList(s) => /\ Len(s) \in Nat /\ DOMAIN s = 1 .. Len(s)
                           /\ s # <<>> => Len(s) \in Nat \ {0}
<1>1. <<>> \in Seq({})
  OBVIOUS
<1>2. ASSUME NEW a PROVE <<a>> \in Seq({a})
  OBVIOUS
<1>3. ASSUME NEW s, IsList(s)
      PROVE  /\ Len(s) \in Nat /\ DOMAIN s = 1 .. Len(s)
             /\ s # <<>> => Len(s) \in Nat \ {0}
  BY <1>3 DEF IsList
<1> QED BY <1>1, <1>2, <1>3 DEF IsList

(* Two lists in a row are a list of the elements of both.                  *)
LEMMA JoinedLists ==
    ASSUME NEW s, NEW t, IsList(s), IsList(t)
    PROVE  /\ IsList(s \o t)
           /\ Len(s \o t) = Len(s) + Len(t)
           /\ \A i \in 1 .. Len(s) : (s \o t)[i] = s[i]
           /\ \A i \in 1 .. Len(t) : (s \o t)[Len(s) + i] = t[i]
<1>1. PICK S : s \in Seq(S)
  BY DEF IsList
<1>2. PICK U : t \in Seq(U)
  BY DEF IsList
<1> DEFINE W == S \cup U
<1>3. s \in Seq(W) /\ t \in Seq(W)
  BY <1>1, <1>2
<1> HIDE DEF W
<1>4. /\ s \o t \in Seq(W)
      /\ Len(s \o t) = Len(s) + Len(t)
      /\ \A i \in 1 .. Len(s) + Len(t) :
           (s \o t)[i] = IF i <= Len(s) THEN s[i] ELSE t[i - Len(s)]
  BY <1>3, ConcatProperties
<1>5. Len(s) \in Nat /\ Len(t) \in Nat
  BY <1>3
<1> QED BY <1>4, <1>5 DEF IsList

(* Opening a scope, closing it and changing the innermost one.             *)
LEMMA AppendFacts ==
    ASSUME NEW s, IsList(s), NEW a
    PROVE  /\ IsList(Append(s, a)) /\ Len(Append(s, a)) = Len(s) + 1
           /\ \A i \in 1 .. Len(s) : Append(s, a)[i] = s[i]
           /\ Append(s, a)[Len(s) + 1] = a
<1>1. PICK S : s \in Seq(S)
  BY DEF IsList
<1> DEFINE W == S \cup {a}
<1>2. s \in Seq(W) /\ a \in W
  BY <1>1
<1> HIDE DEF W
<1>3. Append(s, a) \in Seq(W)
  BY <1>2
<1> QED BY <1>2, <1>3 DEF IsList

LEMMA FrontFacts ==
    ASSUME NEW s, IsList(s), s # <<>>
    PROVE  /\ IsList(Front(s)) /\ Len(Front(s)) = Len(s) - 1
           /\ \A i \in 1 .. (Len(s) - 1) : Front(s)[i] = s[i]
<1>1. PICK S : s \in Seq(S)
  BY DEF IsList
<1>2. Len(s) \in Nat \ {0} /\ \A i \in 1 .. (Len(s) - 1) : s[i] \in S
  BY <1>1
<1> DEFINE n == Len(s) - 1
<1>3. n \in Nat /\ \A i \in 1 .. n : s[i] \in S
  BY <1>2
<1>4. Front(s) = SubSeq(s, 1, n)
  BY DEF Front
<1> HIDE DEF n
<1>5. /\ SubSeq(s, 1, n) \in Seq(S)
      /\ Len(SubSeq(s, 1, n)) = IF 1 <= n THEN n - 1 + 1 ELSE 0
      /\ \A i \in 1 .. n - 1 + 1 : SubSeq(s, 1, n)[i] = s[1 + i - 1]
  BY <1>3, SubSeqProperties
<1>6. n - 1 + 1 = n /\ Len(SubSeq(s, 1, n)) = n
  BY <1>3, <1>5
<1>7. ASSUME NEW i \in 1 .. n PROVE SubSeq(s, 1, n)[i] = s[i]
  BY <1>3, <1>5, <1>6, 1 + i - 1 = i
<1>8. IsList(Front(s)) /\ Len(Front(s)) = n /\ \A i \in 1 .. n : Front(s)[i] = s[i]
  BY <1>4, <1>5, <1>6, <1>7 DEF IsList
<1> QED BY <1>8 DEF n

-----------------------------------------------------------------------------
(* The agenda.                                                             *)

(* Taking the first item of an agenda.                                     *)
LEMMA AgendaTail ==
    ASSUME NEW nodes, NEW t \in Seq(Items(nodes)), t # <<>>, NEW n, AgendaOK(nodes, t, n)
    PROVE  /\ Head(t) = t[1] /\ t[1] \in Items(nodes) /\ Tail(t) \in Seq(Items(nodes))
           /\ Len(Tail(t)) = Len(t) - 1
           /\ \A i \in 1 .. Len(Tail(t)) : Tail(t)[i] = t[i + 1]
           /\ n \in Nat \ {0}
           /\ t[1].act = "leave" => n >= 2 /\ AgendaOK(nodes, Tail(t), n - 1)
           /\ t[1].act # "leave" => AgendaOK(nodes, Tail(t), n)
           /\ IsFunc(nodes, t[1]) => n = 1
<1> DEFINE m == Len(t) - 1
<1>1. /\ Tail(t) \in Seq(Items(nodes)) /\ Len(Tail(t)) = m
      /\ \A i \in 1 .. m : Tail(t)[i] = t[i + 1]
  BY HeadTailProperties
<1>2. m \in Nat /\ Len(t) = m + 1 /\ t[1] \in Items(nodes) /\ Head(t) = t[1]
  OBVIOUS
<1> HIDE DEF m
<1>3. PICK d \in [1 .. m + 1 + 1 -> Nat \ {0}] : d[1] = n /\ Depths(nodes, t, d)
  BY <1>2 DEF AgendaOK
<1> DEFINE e == [i \in 1 .. m + 1 |-> d[i + 1]]
<1>4. /\ e \in [1 .. m + 1 -> Nat \ {0}] /\ e[1] = d[2]
      /\ \A i \in 1 .. m : e[i] = d[i + 1] /\ e[i + 1] = d[i + 1 + 1]
      /\ e[m + 1] = d[m + 1 + 1]
  BY <1>2
<1> HIDE DEF e
<1>5. Depths(nodes, Tail(t), e)
  <2>1. ASSUME NEW i \in 1 .. m
        PROVE  /\ Tail(t)[i].act = "leave" => e[i] >= 2 /\ e[i + 1] = e[i] - 1
               /\ Tail(t)[i].act # "leave" => e[i + 1] = e[i]
               /\ IsFunc(nodes, Tail(t)[i]) => e[i] = 1
    <3>1. i + 1 \in 1 .. Len(t) /\ Tail(t)[i] = t[i + 1]
      BY <1>1, <1>2
    <3> QED BY <3>1, <1>3, <1>4 DEF Depths
  <2> QED BY <2>1, <1>1, <1>2, <1>3, <1>4 DEF Depths
<1>6. 1 \in 1 .. Len(t) /\ 1 + 1 = 2 /\ d[1] \in Nat \ {0}
  BY <1>2
<1>7. /\ t[1].act = "leave" => d[1] >= 2 /\ e[1] = d[1] - 1
      /\ t[1].act # "leave" => e[1] = d[1]
      /\ IsFunc(nodes, t[1]) => d[1] = 1
  BY <1>3, <1>4, <1>6 DEF Depths
<1>8. AgendaOK(nodes, Tail(t), e[1])
  BY <1>1, <1>4, <1>5 DEF AgendaOK
<1> QED BY <1>1, <1>2, <1>3, <1>6, <1>7, <1>8

(* Checking more nodes first, at the depth the rest is met at.             *)
LEMMA AgendaVisit ==
    ASSUME NEW nodes, NEW t \in Seq(Items(nodes)), NEW n, AgendaOK(nodes, t, n),
           NEW p \in Seq(Plain(nodes))
    PROVE  p \o t \in Seq(Items(nodes)) /\ AgendaOK(nodes, p \o t, n)
<1> DEFINE k == Len(p)
           m == Len(t)
<1>1. p \in Seq(Items(nodes))
  BY DEF Plain, PlainNodes, Items
<1>2. /\ p \o t \in Seq(Items(nodes)) /\ Len(p \o t) = k + m
      /\ \A i \in 1 .. k + m : (p \o t)[i] = IF i <= k THEN p[i] ELSE t[i - k]
  BY <1>1, ConcatProperties
<1>3. k \in Nat /\ m \in Nat /\ \A i \in 1 .. k : p[i] \in Plain(nodes)
  OBVIOUS
<1>4. PICK d \in [1 .. m + 1 -> Nat \ {0}] : d[1] = n /\ Depths(nodes, t, d)
  BY DEF AgendaOK
<1>5. d[m + 1] = 1 /\ n \in Nat \ {0}
  BY <1>3, <1>4 DEF Depths
<1>6. ASSUME NEW i \in 1 .. m
      PROVE  /\ t[i].act = "leave" => d[i] >= 2 /\ d[i + 1] = d[i] - 1
             /\ t[i].act # "leave" => d[i + 1] = d[i]
             /\ IsFunc(nodes, t[i]) => d[i] = 1
  BY <1>4 DEF Depths
<1>7. Len(p \o t) = k + m
  BY <1>2
<1> HIDE DEF k, m
<1> DEFINE e == [i \in 1 .. k + m + 1 |-> IF i <= k THEN n ELSE d[i - k]]
<1>8. /\ e \in [1 .. k + m + 1 -> Nat \ {0}] /\ e[1] = n /\ e[k + m + 1] = 1
      /\ \A i \in 1 .. k : e[i] = n /\ e[i + 1] = n
      /\ \A i \in 1 .. k + m : i > k => e[i] = d[i - k] /\ e[i + 1] = d[i - k + 1]
  <2>1. ASSUME NEW i \in 1 .. k + m + 1
        PROVE  /\ e[i] = IF i <= k THEN n ELSE d[i - k]
               /\ i > k => i - k \in 1 .. m + 1
               /\ e[i] \in Nat \ {0}
    BY <1>3, <1>4, <1>5
  <2>6. e \in [1 .. k + m + 1 -> Nat \ {0}]
    BY <2>1
  <2> HIDE DEF e
  <2>2. ASSUME NEW i \in 1 .. k PROVE e[i] = n /\ e[i + 1] = n
    <3> DEFINE j == i + 1
    <3>1. i \in 1 .. k + m + 1 /\ i <= k /\ j \in 1 .. k + m + 1
      BY <1>3
    <3>2. ~(j <= k) => j - k = 1
      BY <1>3
    <3> HIDE DEF j
    <3>3. e[i] = n
      BY <2>1, <3>1
    <3>4. e[j] = IF j <= k THEN n ELSE d[j - k]
      BY <2>1, <3>1
    <3>5. e[j] = n
      BY <1>4, <3>2, <3>4
    <3> QED BY <3>3, <3>5 DEF j
  <2>3. ASSUME NEW i \in 1 .. k + m, i > k
        PROVE  e[i] = d[i - k] /\ e[i + 1] = d[i - k + 1]
    <3> DEFINE j == i + 1
               l == i - k + 1
    <3>1. /\ i \in 1 .. k + m + 1 /\ j \in 1 .. k + m + 1 /\ j - k = l
          /\ ~(i <= k) /\ ~(j <= k)
      BY <1>3, <2>3
    <3> HIDE DEF j, l
    <3>2. e[i] = d[i - k] /\ e[j] = d[l]
      BY <2>1, <3>1
    <3> QED BY <3>2 DEF j, l
  <2>4. e[1] = n
    <3>1. 1 \in 1 .. k + m + 1 /\ (~(1 <= k) => 1 - k = 1)
      BY <1>3
    <3> QED BY <2>1, <3>1, <1>4
  <2>5. e[k + m + 1] = 1
    <3> DEFINE j == k + m + 1
               l == m + 1
    <3>1. j \in 1 .. j /\ j - k = l /\ ~(j <= k) /\ d[l] = 1
      BY <1>3, <1>5
    <3>2. \A i \in 1 .. j : e[i] = IF i <= k THEN n ELSE d[i - k]
      BY <2>1
    <3> HIDE DEF j, l
    <3>3. e[j] = 1
      BY <3>1, <3>2
    <3> QED BY <3>3 DEF j
  <2> QED BY <2>2, <2>3, <2>4, <2>5, <2>6
<1> HIDE DEF e
<1>9. Depths(nodes, p \o t, e)
  <2>1. ASSUME NEW i \in 1 .. k + m
        PROVE  /\ (p \o t)[i].act = "leave" => e[i] >= 2 /\ e[i + 1] = e[i] - 1
               /\ (p \o t)[i].act # "leave" => e[i + 1] = e[i]
               /\ IsFunc(nodes, (p \o t)[i]) => e[i] = 1
    <3>1. CASE i <= k
      <4>1. i \in 1 .. k /\ (p \o t)[i] = p[i]
        BY <1>2, <1>3, <3>1 DEF k, m
      <4>2. p[i].act # "leave" /\ ~IsFunc(nodes, p[i])
        BY <1>3, <4>1 DEF Plain, PlainNodes, IsFunc
      <4> QED BY <1>8, <4>1, <4>2
    <3>2. CASE i > k
      <4>1. i - k \in 1 .. m /\ (p \o t)[i] = t[i - k]
        BY <1>2, <1>3, <3>2 DEF k, m
      <4>2. e[i] = d[i - k] /\ e[i + 1] = d[i - k + 1]
        BY <1>8, <3>2
      <4> QED BY <1>6, <4>1, <4>2
    <3>3. i <= k \/ i > k
      BY <1>3
    <3> QED BY <3>1, <3>2, <3>3
  <2> QED BY <2>1, <1>7, <1>8 DEF Depths
<1> QED BY <1>2, <1>7, <1>8, <1>9 DEF AgendaOK

(* Leaving a scope that has just been entered.                             *)
LEMMA AgendaLeave ==
    ASSUME NEW nodes, NEW t \in Seq(Items(nodes)), NEW n, AgendaOK(nodes, t, n)
    PROVE  <<Leave>> \o t \in Seq(Items(nodes)) /\ AgendaOK(nodes, <<Leave>> \o t, n + 1)
<1> DEFINE m == Len(t)
           u == <<Leave>> \o t
<1>1. <<Leave>> \in Seq(Items(nodes)) /\ Len(<<Leave>>) = 1 /\ <<Leave>>[1] = Leave
  BY DEF Items
<1>2. /\ u \in Seq(Items(nodes)) /\ Len(u) = 1 + m
      /\ \A i \in 1 .. 1 + m : u[i] = IF i <= 1 THEN <<Leave>>[i] ELSE t[i - 1]
  <2> DEFINE l == <<Leave>>
  <2>1. l \in Seq(Items(nodes)) /\ Len(l) = 1
    BY <1>1
  <2> HIDE DEF l
  <2>2. /\ l \o t \in Seq(Items(nodes)) /\ Len(l \o t) = Len(l) + Len(t)
        /\ \A i \in 1 .. Len(l) + Len(t) : (l \o t)[i] = IF i <= Len(l) THEN l[i] ELSE t[i - Len(l)]
    BY <2>1, ConcatProperties
  <2> QED BY <2>1, <2>2 DEF l
<1>3. m \in Nat
  OBVIOUS
<1>4. PICK d \in [1 .. m + 1 -> Nat \ {0}] : d[1] = n /\ Depths(nodes, t, d)
  BY DEF AgendaOK
<1>5. d[m + 1] = 1 /\ n \in Nat \ {0}
  BY <1>3, <1>4 DEF Depths
<1>6. ASSUME NEW i \in 1 .. m
      PROVE  /\ t[i].act = "leave" => d[i] >= 2 /\ d[i + 1] = d[i] - 1
             /\ t[i].act # "leave" => d[i + 1] = d[i]
             /\ IsFunc(nodes, t[i]) => d[i] = 1
  BY <1>4 DEF Depths
<1> HIDE DEF m, u
<1> DEFINE e == [i \in 1 .. 1 + m + 1 |-> IF i = 1 THEN n + 1 ELSE d[i - 1]]
<1>7. /\ e \in [1 .. 1 + m + 1 -> Nat \ {0}] /\ e[1] = n + 1 /\ e[1 + m + 1] = 1 /\ e[2] = n
      /\ \A i \in 2 .. 1 + m : e[i] = d[i - 1] /\ e[i + 1] = d[i - 1 + 1]
  <2>1. ASSUME NEW i \in 1 .. 1 + m + 1
        PROVE  /\ e[i] = IF i = 1 THEN n + 1 ELSE d[i - 1]
               /\ i # 1 => i - 1 \in 1 .. m + 1
               /\ e[i] \in Nat \ {0}
    BY <1>3, <1>4, <1>5
  <2>5. e \in [1 .. 1 + m + 1 -> Nat \ {0}]
    BY <2>1
  <2> HIDE DEF e
  <2>2. e[1] = n + 1 /\ e[2] = n
    <3>1. 1 \in 1 .. 1 + m + 1 /\ 2 \in 1 .. 1 + m + 1 /\ 2 - 1 = 1
      BY <1>3
    <3> QED BY <2>1, <3>1, <1>4
  <2>3. e[1 + m + 1] = 1
    <3> DEFINE j == 1 + m + 1
               l == m + 1
    <3>1. j \in 1 .. j /\ j - 1 = l /\ j # 1 /\ d[l] = 1
      BY <1>3, <1>5
    <3>2. \A i \in 1 .. j : e[i] = IF i = 1 THEN n + 1 ELSE d[i - 1]
      BY <2>1
    <3> HIDE DEF j, l
    <3>3. e[j] = 1
      BY <3>1, <3>2
    <3> QED BY <3>3 DEF j
  <2>4. ASSUME NEW i \in 2 .. 1 + m PROVE e[i] = d[i - 1] /\ e[i + 1] = d[i - 1 + 1]
    <3>1. /\ i \in 1 .. 1 + m + 1 /\ i + 1 \in 1 .. 1 + m + 1
          /\ i # 1 /\ i + 1 # 1 /\ i + 1 - 1 = i - 1 + 1
      BY <1>3
    <3> QED BY <2>1, <3>1
  <2> QED BY <2>2, <2>3, <2>4, <2>5
<1> HIDE DEF e
<1>8. Depths(nodes, u, e)
  <2>1. ASSUME NEW i \in 1 .. 1 + m
        PROVE  /\ u[i].act = "leave" => e[i] >= 2 /\ e[i + 1] = e[i] - 1
               /\ u[i].act # "leave" => e[i + 1] = e[i]
               /\ IsFunc(nodes, u[i]) => e[i] = 1
    <3>1. CASE i = 1
      <4>1. u[i] = Leave /\ Leave.act = "leave" /\ ~IsFunc(nodes, Leave)
        BY <1>1, <1>2, <3>1 DEF Leave, IsFunc
      <4>2. n + 1 >= 2 /\ n + 1 - 1 = n
        BY <1>5
      <4>5. e[1] = n + 1 /\ e[2] = n
        BY <1>7
      <4>3. e[1] >= 2 /\ e[2] = e[1] - 1
        BY <1>5, <4>2, <4>5
      <4>4. i + 1 = 2
        BY <3>1
      <4> QED BY <4>1, <4>3, <4>4, <3>1
    <3>2. CASE i # 1
      <4>1. i \in 2 .. 1 + m /\ i - 1 \in 1 .. m /\ u[i] = t[i - 1]
        BY <1>2, <1>3, <3>2
      <4> QED BY <1>6, <1>7, <4>1
    <3> QED BY <3>1, <3>2
  <2> QED BY <2>1, <1>2, <1>7 DEF Depths
<1> QED BY <1>2, <1>7, <1>8 DEF AgendaOK, u

-----------------------------------------------------------------------------
(* Tables.                                                                 *)

(* Binding a name to a symbol there is.                                    *)
LEMMA BoundFacts ==
    ASSUME NEW table, NEW key, NEW ids, NEW s \in ids, TableOK(table, ids)
    PROVE  /\ DOMAIN Bound(table, key, s) = DOMAIN table \cup {key}
           /\ TableOK(Bound(table, key, s), ids)
  BY DEF Bound, TableOK

(* A table stays right when symbols are made.                              *)
LEMMA TableGrows ==
    ASSUME NEW table, NEW ids, NEW more, TableOK(table, ids), ids \subseteq more
    PROVE  TableOK(table, more)
  BY DEF TableOK

(* The names are bound to symbols among those made for them.               *)
LEMMA BoundAllFacts ==
    ASSUME IsList(syms), NEW table, TableOK(table, DOMAIN syms), NEW keys, IsList(keys)
    PROVE  /\ TableOK(BoundAll(table, keys), 1 .. (Len(syms) + Len(keys)))
           /\ DOMAIN table \subseteq DOMAIN BoundAll(table, keys)
<1> DEFINE l == Len(syms)
           n == Len(keys)
<1>1. l \in Nat /\ DOMAIN syms = 1 .. l /\ n \in Nat /\ DOMAIN keys = 1 .. n
  BY ListFacts
<1> DEFINE At0(k) == {i \in DOMAIN keys : keys[i] = k}
<1>2. ASSUME NEW k \in Range(keys) PROVE Max(At0(k)) \in 1 .. n
  <2>1. At0(k) \in SUBSET (1 .. n) /\ At0(k) # {}
    BY <1>1 DEF Range
  <2> HIDE DEF At0, n
  <2>2. Max(At0(k)) \in At0(k)
    BY <1>1, <2>1, GreatestElement
  <2> QED BY <2>1, <2>2
<1>3. DOMAIN BoundAll(table, keys) = DOMAIN table \cup Range(keys)
  BY DEF BoundAll
<1>4. ASSUME NEW k \in DOMAIN table \cup Range(keys)
      PROVE  BoundAll(table, keys)[k] \in 1 .. (l + n)
  <2>1. CASE k \in Range(keys)
    <3>1. BoundAll(table, keys)[k] = l + Max(At0(k))
      BY <2>1 DEF BoundAll
    <3>2. Max(At0(k)) \in 1 .. n
      BY <1>2, <2>1
    <3> HIDE DEF At0, l, n
    <3> QED BY <1>1, <3>1, <3>2
  <2>2. CASE k \notin Range(keys)
    <3>1. BoundAll(table, keys)[k] = table[k] /\ k \in DOMAIN table
      BY <2>2 DEF BoundAll
    <3>2. table[k] \in 1 .. l
      BY <1>1, <3>1 DEF TableOK
    <3> HIDE DEF l, n
    <3> QED BY <1>1, <3>1, <3>2
  <2> QED BY <2>1, <2>2
<1> QED BY <1>3, <1>4 DEF TableOK

(* A name in scope is found in a scope that has it.                        *)
LEMMA LookupFacts ==
    ASSUME ChainOK(scopes, DOMAIN syms), NEW key, InScope(key)
    PROVE  Lookup(key) \in DOMAIN syms
<1> DEFINE n == Len(scopes)
<1>1. n \in Nat /\ DOMAIN scopes = 1 .. n
  BY ListFacts DEF ChainOK
<1>2. Holders(key) \in SUBSET (1 .. n) /\ Holders(key) # {}
  BY <1>1 DEF Holders, InScope
<1> HIDE DEF n
<1>3. Max(Holders(key)) \in Holders(key)
  BY <1>1, <1>2, GreatestElement
<1> QED BY <1>3 DEF Holders, Lookup, ChainOK, TableOK

(* Changing the innermost scope of a chain.                                *)
LEMMA ScopeChanges ==
    ASSUME NEW chain, NEW ids, NEW more, ChainOK(chain, ids), ids \subseteq more,
           Len(chain) \in Nat \ {0}, NEW table, TableOK(table, more)
    PROVE  /\ ChainOK(Append(Front(chain), table), more)
           /\ Len(Append(Front(chain), table)) = Len(chain)
           /\ \A i \in 1 .. (Len(chain) - 1) : Append(Front(chain), table)[i] = chain[i]
           /\ Append(Front(chain), table)[Len(chain)] = table
<1> DEFINE n == Len(chain) - 1
<1>1. IsList(chain) /\ chain # <<>> /\ n \in Nat /\ Len(chain) = n + 1
      /\ DOMAIN chain = 1 .. (n + 1)
  BY ListFacts DEF ChainOK
<1>2. /\ IsList(Front(chain)) /\ Len(Front(chain)) = n
      /\ \A i \in 1 .. n : Front(chain)[i] = chain[i]
  BY <1>1, FrontFacts
<1> DEFINE new == Append(Front(chain), table)
<1> HIDE DEF n
<1>3. /\ IsList(new) /\ Len(new) = n + 1
      /\ \A i \in 1 .. n : new[i] = Front(chain)[i]
      /\ new[n + 1] = table
  BY <1>2, AppendFacts
<1> HIDE DEF new
<1>4. ASSUME NEW i \in 1 .. (n + 1) PROVE TableOK(new[i], more)
  <2>1. CASE i = n + 1
    BY <1>3, <2>1
  <2>2. CASE i # n + 1
    <3>1. i \in 1 .. n
      BY <1>1, <2>2
    <3>2. new[i] = chain[i] /\ TableOK(chain[i], ids)
      BY <1>1, <1>2, <1>3, <3>1 DEF ChainOK
    <3> QED BY <3>2, TableGrows
  <2> QED BY <2>1, <2>2
<1>5. DOMAIN new = 1 .. (n + 1)
  BY <1>3, ListFacts
<1>6. ChainOK(new, more)
  BY <1>3, <1>4, <1>5 DEF ChainOK
<1>7. \A i \in 1 .. n : new[i] = chain[i]
  BY <1>2, <1>3
<1> QED BY <1>1, <1>3, <1>6, <1>7 DEF new, n

-----------------------------------------------------------------------------
(* What the first item of the agenda says of the rest of the state.        *)

LEMMA HeadFacts ==
    ASSUME Inv, verdict = "symbols", todo # <<>>
    PROVE  /\ Head1 \in Items(prog.nodes) /\ Tail(todo) \in Seq(Items(prog.nodes))
           /\ Len(scopes) \in Nat \ {0} /\ scopes # <<>> /\ DOMAIN scopes = 1 .. Len(scopes)
           /\ Head1.act \in {"check", "define"} => Head1.node \in DOMAIN prog.nodes
           /\ Head1.act = "leave" => /\ Len(scopes) >= 2
                                     /\ AgendaOK(prog.nodes, Tail(todo), Len(scopes) - 1)
           /\ Head1.act # "leave" => AgendaOK(prog.nodes, Tail(todo), Len(scopes))
           /\ IsFunc(prog.nodes, Head1) => Len(scopes) = 1
           /\ ~IsFunc(prog.nodes, Head1) => func # NULL /\ func \in DOMAIN frame
<1>1. todo \in Seq(Items(prog.nodes)) /\ AgendaOK(prog.nodes, todo, Len(scopes))
  BY DEF Inv, Running
<1>2. /\ Head(todo) = todo[1] /\ todo[1] \in Items(prog.nodes)
      /\ Tail(todo) \in Seq(Items(prog.nodes)) /\ Len(scopes) \in Nat \ {0}
      /\ todo[1].act = "leave" => /\ Len(scopes) >= 2
                                  /\ AgendaOK(prog.nodes, Tail(todo), Len(scopes) - 1)
      /\ todo[1].act # "leave" => AgendaOK(prog.nodes, Tail(todo), Len(scopes))
      /\ IsFunc(prog.nodes, todo[1]) => Len(scopes) = 1
  BY <1>1, AgendaTail
<1>3. Head1 = todo[1] /\ 1 \in DOMAIN todo
  BY <1>1, <1>2 DEF Head1
<1>4. ~IsFunc(prog.nodes, todo[1]) => func # NULL
  BY <1>3 DEF Inv, Running
<1>5. func # NULL => func \in DOMAIN frame
  BY DEF Inv
<1>6. IsList(scopes) /\ DOMAIN scopes = 1 .. Len(scopes) /\ scopes # <<>>
  BY <1>2, ListFacts DEF Inv, ChainOK
<1>7. todo[1].act \in {"check", "define"} => todo[1].node \in DOMAIN prog.nodes
  BY <1>2 DEF Items, Leave
<1> QED BY <1>2, <1>3, <1>4, <1>5, <1>6, <1>7

(* The children of a node that is met are nodes, and no functions.         *)
LEMMA NodeFacts ==
    ASSUME Inv, NEW n \in DOMAIN prog.nodes
    PROVE  /\ NodeOK(prog.nodes, n) /\ n \in Nat
           /\ {k \in 1 .. (n - 1) : prog.nodes[k].type # "FUNC_DEF"} \subseteq PlainNodes(prog.nodes)
<1>1. ProgramOK(prog)
  BY SemaAssumption DEF Inv
<1>2. DOMAIN prog.nodes = 1 .. Len(prog.nodes) /\ Len(prog.nodes) \in Nat
  BY <1>1 DEF ProgramOK, HeapOK, IsVector
<1> QED BY <1>1, <1>2 DEF ProgramOK, HeapOK, PlainNodes

(* The items of a list of children.                                        *)
LEMMA ChecksFacts ==
    ASSUME NEW nodes, NEW ns \in Seq(PlainNodes(nodes))
    PROVE  Checks(ns) \in Seq(Plain(nodes))
<1>1. Len(ns) \in Nat /\ \A i \in 1 .. Len(ns) : Check(ns[i]) \in Plain(nodes)
  BY DEF Plain, Check
<1>2. [i \in 1 .. Len(ns) |-> Check(ns[i])] \in Seq(Plain(nodes))
  <2> DEFINE l == Len(ns)
  <2>1. l \in Nat /\ \A i \in 1 .. l : Check(ns[i]) \in Plain(nodes)
    BY <1>1
  <2> HIDE DEF l
  <2>2. [i \in 1 .. l |-> Check(ns[i])] \in Seq(Plain(nodes))
    BY <2>1
  <2> QED BY <2>2 DEF l
<1> QED BY <1>2 DEF Checks

(* Entering a scope clones the innermost one.                              *)
LEMMA EnterFacts ==
    ASSUME Inv, verdict = "symbols", todo # <<>>, func # NULL
    PROVE  /\ ChainOK(Append(scopes, Scope), DOMAIN syms)
           /\ Len(Append(scopes, Scope)) = Len(scopes) + 1
           /\ \A i \in DOMAIN Append(scopes, Scope) :
                syms[func].key \in DOMAIN Append(scopes, Scope)[i]
<1> DEFINE new == Append(scopes, Scope)
           n   == Len(scopes)
<1>1. n \in Nat \ {0} /\ DOMAIN scopes = 1 .. n /\ Scope = scopes[n] /\ IsList(scopes)
  BY HeadFacts DEF Scope, Last, Inv, ChainOK
<1>2. /\ IsList(new) /\ Len(new) = n + 1 /\ DOMAIN new = 1 .. (n + 1)
      /\ \A i \in 1 .. n : new[i] = scopes[i]
      /\ new[n + 1] = scopes[n]
  BY <1>1, AppendFacts, ListFacts
<1>3. \A i \in 1 .. n : TableOK(scopes[i], DOMAIN syms) /\ syms[func].key \in DOMAIN scopes[i]
  BY <1>1 DEF Inv, ChainOK, Running
<1> HIDE DEF new, n
<1>4. ASSUME NEW i \in 1 .. (n + 1)
      PROVE  TableOK(new[i], DOMAIN syms) /\ syms[func].key \in DOMAIN new[i]
  <2>1. CASE i = n + 1
    BY <1>1, <1>2, <1>3, <2>1
  <2>2. CASE i # n + 1
    <3>1. i \in 1 .. n
      BY <1>1, <2>2
    <3> QED BY <1>2, <1>3, <3>1
  <2> QED BY <2>1, <2>2
<1>5. ChainOK(new, DOMAIN syms) /\ Len(new) = n + 1
      /\ \A i \in DOMAIN new : syms[func].key \in DOMAIN new[i]
  BY <1>2, <1>4 DEF ChainOK
<1> QED BY <1>5 DEF new, n

-----------------------------------------------------------------------------
(* Steps that make no symbol.                                              *)

(* Steps that make no symbol move no local.                                *)
LEMMA LayoutSame ==
    ASSUME Layout, UNCHANGED <<syms, frame>>
    PROVE  Layout'
  BY DEF Layout, IsLocal

(* A step that goes on and makes no symbol.                                *)
LEMMA QuietStep ==
    ASSUME Inv, verdict = "symbols", func # NULL,
           UNCHANGED <<prog, junk, syms, frame, params, func, verdict>>,
           todo' \in Seq(Items(prog.nodes)),
           AgendaOK(prog.nodes, todo', Len(scopes')),
           ChainOK(scopes', DOMAIN syms),
           \A i \in DOMAIN scopes' : syms[func].key \in DOMAIN scopes'[i],
           DOMAIN symOf' \subseteq DOMAIN prog.nodes, TableOK(symOf', DOMAIN syms),
           used' \subseteq DOMAIN syms
    PROVE  Inv'
<1>1. Layout'
  BY LayoutSame DEF Inv
<1>2. Running'
  BY DEF Running
<1> QED BY <1>1, <1>2 DEF Inv

(* A step that ends the pass.                                              *)
LEMMA DeadStep ==
    ASSUME Inv, UNCHANGED <<prog, junk, todo, syms, symOf, frame, params, func, used>>,
           ChainOK(scopes', DOMAIN syms),
           verdict' \in {"types", "accepted", "exit1", "crash"}
    PROVE  Inv'
<1>1. Layout'
  BY LayoutSame DEF Inv
<1> QED BY <1>1 DEF Inv

(* Checking parts of a node in the scope it is in.                         *)
LEMMA PlainStep ==
    ASSUME Inv, verdict = "symbols", todo # <<>>,
           Head1.act # "leave", ~IsFunc(prog.nodes, Head1),
           UNCHANGED <<prog, junk, scopes, syms, frame, params, func, verdict>>,
           NEW p \in Seq(Plain(prog.nodes)), Visit(p),
           DOMAIN symOf' \subseteq DOMAIN prog.nodes, TableOK(symOf', DOMAIN syms),
           used' \subseteq DOMAIN syms
    PROVE  Inv'
<1>1. Tail(todo) \in Seq(Items(prog.nodes)) /\ AgendaOK(prog.nodes, Tail(todo), Len(scopes))
      /\ func # NULL
  BY HeadFacts
<1>2. todo' \in Seq(Items(prog.nodes)) /\ AgendaOK(prog.nodes, todo', Len(scopes))
  BY <1>1, AgendaVisit DEF Visit
<1>3. ChainOK(scopes, DOMAIN syms) /\ \A i \in DOMAIN scopes : syms[func].key \in DOMAIN scopes[i]
  BY <1>1 DEF Inv, Running
<1> QED BY <1>1, <1>2, <1>3, QuietStep

(* Checking parts of a node in a scope of their own.                       *)
LEMMA BlockStep ==
    ASSUME Inv, verdict = "symbols", todo # <<>>,
           Head1.act # "leave", ~IsFunc(prog.nodes, Head1), EnterScope,
           UNCHANGED <<prog, junk, syms, symOf, frame, params, func, used, verdict>>,
           NEW p \in Seq(Plain(prog.nodes)), Visit(p \o <<Leave>>)
    PROVE  Inv'
<1>1. Tail(todo) \in Seq(Items(prog.nodes)) /\ AgendaOK(prog.nodes, Tail(todo), Len(scopes))
      /\ func # NULL
  BY HeadFacts
<1> DEFINE rest == <<Leave>> \o Tail(todo)
<1>2. rest \in Seq(Items(prog.nodes)) /\ AgendaOK(prog.nodes, rest, Len(scopes) + 1)
  BY <1>1, AgendaLeave
<1>3. (p \o <<Leave>>) \o Tail(todo) = p \o rest
  <2>1. p \in Seq(Items(prog.nodes)) /\ <<Leave>> \in Seq(Items(prog.nodes))
    BY DEF Plain, PlainNodes, Items
  <2> DEFINE l == <<Leave>>
  <2>2. l \in Seq(Items(prog.nodes))
    BY <2>1
  <2> HIDE DEF l
  <2>3. (p \o l) \o Tail(todo) = p \o (l \o Tail(todo))
    BY <2>1, <2>2, <1>1, ConcatAssociative, SMTT(30)
  <2> QED BY <2>3 DEF l
<1> HIDE DEF rest
<1>4. todo' \in Seq(Items(prog.nodes)) /\ AgendaOK(prog.nodes, todo', Len(scopes) + 1)
  BY <1>2, <1>3, AgendaVisit DEF Visit
<1>5. /\ ChainOK(scopes', DOMAIN syms) /\ Len(scopes') = Len(scopes) + 1
      /\ \A i \in DOMAIN scopes' : syms[func].key \in DOMAIN scopes'[i]
  BY <1>1, EnterFacts DEF EnterScope
<1> QED BY <1>1, <1>4, <1>5, QuietStep DEF Inv

(* Leaving a symbol on a node.                                             *)
LEMMA BindFacts ==
    ASSUME Inv, NEW n \in DOMAIN prog.nodes, NEW more, DOMAIN syms \subseteq more,
           NEW s \in more, Bind(n, s)
    PROVE  DOMAIN symOf' \subseteq DOMAIN prog.nodes /\ TableOK(symOf', more)
<1>1. TableOK(symOf, more) /\ DOMAIN symOf \subseteq DOMAIN prog.nodes
  BY TableGrows DEF Inv
<1>2. DOMAIN Bound(symOf, n, s) = DOMAIN symOf \cup {n} /\ TableOK(Bound(symOf, n, s), more)
  BY <1>1, BoundFacts
<1> QED BY <1>1, <1>2 DEF Bind

(* The item in front checks a node.                                        *)
LEMMA CheckedNode ==
    ASSUME Inv, At("check")
    PROVE  /\ verdict = "symbols" /\ todo # <<>> /\ Head1.act = "check" /\ Head1.act # "leave"
           /\ Head1.node \in DOMAIN prog.nodes
           /\ Node.type # "FUNC_DEF" => ~IsFunc(prog.nodes, Head1) /\ func # NULL
           /\ NodeOK(prog.nodes, Head1.node)
           /\ {k \in 1 .. (Head1.node - 1) : prog.nodes[k].type # "FUNC_DEF"}
                \subseteq PlainNodes(prog.nodes)
<1>1. verdict = "symbols" /\ todo # <<>> /\ Head1.act = "check"
  BY DEF At
<1>2. Head1.node \in DOMAIN prog.nodes
  BY <1>1, HeadFacts
<1>3. Node.type # "FUNC_DEF" => ~IsFunc(prog.nodes, Head1)
  BY DEF Node, IsFunc
<1> QED BY <1>1, <1>2, <1>3, HeadFacts, NodeFacts

(* The parts of a node are nodes, and no functions.                        *)
LEMMA PartsFacts ==
    ASSUME Inv, At("check"),
           Node.type \in {"IF", "BIN_EXP", "VAR_ASGN", "WHILE", "EXPR_STMT", "UNARY_EXPR",
                          "LVAL", "INT_CONST", "EMPTY_EXPR"}
    PROVE  Parts \in Seq(PlainNodes(prog.nodes))
<1> DEFINE Kids == {k \in 1 .. (Head1.node - 1) : prog.nodes[k].type # "FUNC_DEF"}
<1>1. NodeOK(prog.nodes, Head1.node) /\ Kids \subseteq PlainNodes(prog.nodes)
  BY CheckedNode
<1>2. /\ Node.type = "UNARY_EXPR" => Node.postfix_expr \in Kids
      /\ Node.type = "BIN_EXP"    => Node.left \in Kids /\ Node.right \in Kids
      /\ Node.type = "LVAL"       => Node.ident \in Kids
      /\ Node.type = "VAR_ASGN"   => Node.lval \in Kids /\ Node.rval \in Kids
      /\ Node.type = "EXPR_STMT"  => Node.expr \in Kids
      /\ Node.type = "IF"         => /\ Node.if_expr \in Kids /\ Node.if_body \in Kids
                                     /\ Node.else_body \in Kids \cup {NULL}
      /\ Node.type = "WHILE"      => Node.expr \in Kids /\ Node.body \in Kids
  BY <1>1 DEF NodeOK, Node
<1> HIDE DEF Kids
<1>3. /\ \A a \in Kids : <<a>> \in Seq(Kids)
      /\ \A a, b \in Kids : <<a, b>> \in Seq(Kids)
      /\ <<>> \in Seq(Kids)
  OBVIOUS
<1>4. Parts \in Seq(Kids)
  <2>1. CASE Node.type = "IF"
    <3>1. <<Node.if_body, Node.if_expr>> \in Seq(Kids)
      BY <1>2, <1>3, <2>1
    <3>2. (IF Node.else_body = NULL THEN <<>> ELSE <<Node.else_body>>) \in Seq(Kids)
      BY <1>2, <1>3, <2>1
    <3>3. Parts = <<Node.if_body, Node.if_expr>>
                    \o (IF Node.else_body = NULL THEN <<>> ELSE <<Node.else_body>>)
      BY <2>1 DEF Parts
    <3> QED BY <3>1, <3>2, <3>3, ConcatProperties
  <2>2. CASE Node.type = "BIN_EXP"
    BY <1>2, <1>3, <2>2 DEF Parts
  <2>3. CASE Node.type = "VAR_ASGN"
    BY <1>2, <1>3, <2>3 DEF Parts
  <2>4. CASE Node.type = "WHILE"
    BY <1>2, <1>3, <2>4 DEF Parts
  <2>5. CASE Node.type = "EXPR_STMT"
    BY <1>2, <1>3, <2>5 DEF Parts
  <2>6. CASE Node.type = "UNARY_EXPR"
    BY <1>2, <1>3, <2>6 DEF Parts
  <2>7. CASE Node.type = "LVAL"
    BY <1>2, <1>3, <2>7 DEF Parts
  <2>8. CASE Node.type \in {"INT_CONST", "EMPTY_EXPR"}
    BY <1>3, <2>8 DEF Parts
  <2> QED BY <2>1, <2>2, <2>3, <2>4, <2>5, <2>6, <2>7, <2>8
<1> QED BY <1>1, <1>4, SeqMonotonic

LEMMA CheckPartsKeeps ==
    ASSUME Inv, CheckParts
    PROVE  Inv'
<1>1. At("check") /\ Node.type # "FUNC_DEF" /\ Visit(Checks(Parts))
  BY DEF CheckParts
<1>2. Checks(Parts) \in Seq(Plain(prog.nodes))
  BY PartsFacts, ChecksFacts DEF CheckParts
<1>3. /\ UNCHANGED <<prog, junk, scopes, syms, frame, params, func, verdict>>
      /\ UNCHANGED <<symOf, used>>
  BY DEF CheckParts
<1>4. DOMAIN symOf' \subseteq DOMAIN prog.nodes /\ TableOK(symOf', DOMAIN syms)
      /\ used' \subseteq DOMAIN syms
  BY <1>3 DEF Inv
<1> QED BY <1>1, <1>2, <1>3, <1>4, CheckedNode, PlainStep

LEMMA CheckCompStmtKeeps ==
    ASSUME Inv, CheckCompStmt
    PROVE  Inv'
<1>1. /\ At("check") /\ Node.type = "COMP_STMT" /\ EnterScope
      /\ Visit(Checks(Node.stmts) \o <<Leave>>)
      /\ UNCHANGED <<prog, junk, syms, symOf, frame, params, func, used, verdict>>
  BY DEF CheckCompStmt, Checking
<1>2. Node.stmts \in Seq(PlainNodes(prog.nodes))
  <2>1. Node.stmts \in Seq({k \in 1 .. (Head1.node - 1) : prog.nodes[k].type # "FUNC_DEF"})
    BY <1>1, CheckedNode DEF NodeOK, Node
  <2> QED BY <1>1, <2>1, CheckedNode, SeqMonotonic
<1>3. Checks(Node.stmts) \in Seq(Plain(prog.nodes))
  BY <1>2, ChecksFacts
<1> QED BY <1>1, <1>3, CheckedNode, BlockStep

LEMMA CheckForKeeps ==
    ASSUME Inv, CheckFor
    PROVE  Inv'
<1> DEFINE ns == <<Node.init, Node.cond, Node.step, Node.body>>
<1>1. /\ At("check") /\ Node.type = "FOR" /\ EnterScope
      /\ Visit(Checks(ns) \o <<Leave>>)
      /\ UNCHANGED <<prog, junk, syms, symOf, frame, params, func, used, verdict>>
  BY DEF CheckFor, Checking
<1>2. ns \in Seq(PlainNodes(prog.nodes))
  <2> DEFINE Kids == {k \in 1 .. (Head1.node - 1) : prog.nodes[k].type # "FUNC_DEF"}
  <2>1. Node.init \in Kids /\ Node.cond \in Kids /\ Node.step \in Kids /\ Node.body \in Kids
    BY <1>1, CheckedNode DEF NodeOK, Node
  <2>2. Kids \subseteq PlainNodes(prog.nodes)
    BY <1>1, CheckedNode
  <2> HIDE DEF Kids
  <2> QED BY <2>1, <2>2
<1> HIDE DEF ns
<1>3. Checks(ns) \in Seq(Plain(prog.nodes))
  BY <1>2, ChecksFacts
<1> QED BY <1>1, <1>3, CheckedNode, BlockStep

LEMMA CheckVarDefKeeps ==
    ASSUME Inv, CheckVarDef
    PROVE  Inv'
<1> DEFINE p == <<Check(Node.expr), DefineVar(Head1.node)>>
<1>1. /\ At("check") /\ Node.type = "VAR_DEF" /\ Visit(p)
      /\ UNCHANGED <<prog, junk, scopes, syms, frame, params, func, verdict>>
      /\ UNCHANGED <<symOf, used>>
  BY DEF CheckVarDef, Checking
<1>2. p \in Seq(Plain(prog.nodes))
  <2>1. Node.expr \in PlainNodes(prog.nodes)
    BY <1>1, CheckedNode DEF NodeOK, Node
  <2>2. Head1.node \in DOMAIN prog.nodes
    BY <1>1, CheckedNode
  <2>3. Check(Node.expr) \in Plain(prog.nodes) /\ DefineVar(Head1.node) \in Plain(prog.nodes)
    BY <2>1, <2>2 DEF Plain, Check, DefineVar
  <2> QED BY <2>3
<1>3. DOMAIN symOf' \subseteq DOMAIN prog.nodes /\ TableOK(symOf', DOMAIN syms)
      /\ used' \subseteq DOMAIN syms
  BY <1>1 DEF Inv
<1> HIDE DEF p
<1> QED BY <1>1, <1>2, <1>3, CheckedNode, PlainStep

LEMMA CheckIdentKeeps ==
    ASSUME Inv, CheckIdent
    PROVE  Inv'
<1>1. /\ At("check") /\ Node.type = "IDENT" /\ InScope(Node.value) /\ Visit(<<>>)
      /\ Bind(Head1.node, Lookup(Node.value)) /\ used' = used \cup {Lookup(Node.value)}
      /\ UNCHANGED <<prog, junk, scopes, syms, frame, params, func, verdict>>
  BY DEF CheckIdent, Checking
<1>2. Lookup(Node.value) \in DOMAIN syms
  BY <1>1, LookupFacts DEF Inv
<1>3. DOMAIN symOf' \subseteq DOMAIN prog.nodes /\ TableOK(symOf', DOMAIN syms)
      /\ used' \subseteq DOMAIN syms
  <2>1. used' \subseteq DOMAIN syms
    BY <1>1, <1>2 DEF Inv
  <2> QED BY <2>1, <1>1, <1>2, CheckedNode, BindFacts
<1>4. <<>> \in Seq(Plain(prog.nodes))
  OBVIOUS
<1> QED BY <1>1, <1>3, <1>4, CheckedNode, PlainStep

LEMMA CheckFuncCallKeeps ==
    ASSUME Inv, CheckFuncCall
    PROVE  Inv'
<1>1. /\ At("check") /\ Node.type = "FUNC_CALL" /\ InScope(Node.value) /\ Visit(Checks(Node.args))
      /\ Bind(Head1.node, Lookup(Node.value)) /\ used' = used \cup {Lookup(Node.value)}
      /\ UNCHANGED <<prog, junk, scopes, syms, frame, params, func, verdict>>
  BY DEF CheckFuncCall, Checking, Callable
<1>2. Lookup(Node.value) \in DOMAIN syms
  BY <1>1, LookupFacts DEF Inv
<1>3. DOMAIN symOf' \subseteq DOMAIN prog.nodes /\ TableOK(symOf', DOMAIN syms)
      /\ used' \subseteq DOMAIN syms
  <2>1. used' \subseteq DOMAIN syms
    BY <1>1, <1>2 DEF Inv
  <2> QED BY <2>1, <1>1, <1>2, CheckedNode, BindFacts
<1>4. Checks(Node.args) \in Seq(Plain(prog.nodes))
  <2>1. Node.args \in Seq({k \in 1 .. (Head1.node - 1) : prog.nodes[k].type # "FUNC_DEF"})
    BY <1>1, CheckedNode DEF NodeOK, Node
  <2>2. Node.args \in Seq(PlainNodes(prog.nodes))
    BY <1>1, <2>1, CheckedNode, SeqMonotonic
  <2> QED BY <2>2, ChecksFacts
<1> QED BY <1>1, <1>3, <1>4, CheckedNode, PlainStep

LEMMA CheckRetKeeps ==
    ASSUME Inv, CheckRet
    PROVE  Inv'
<1>1. /\ At("check") /\ Node.type = "RET" /\ Visit(<<Check(Node.expr)>>)
      /\ Bind(Head1.node, Lookup(syms[func].key))
      /\ UNCHANGED <<prog, junk, scopes, syms, frame, params, func, verdict>>
      /\ UNCHANGED used
  BY DEF CheckRet, Checking
<1>2. InScope(syms[func].key)
  <2>1. func # NULL /\ verdict = "symbols" /\ todo # <<>>
    BY <1>1, CheckedNode
  <2>2. 1 \in DOMAIN scopes
    BY <2>1, HeadFacts
  <2>3. \A i \in DOMAIN scopes : syms[func].key \in DOMAIN scopes[i]
    BY <2>1 DEF Inv, Running
  <2> QED BY <2>2, <2>3 DEF InScope, Holders
<1>3. Lookup(syms[func].key) \in DOMAIN syms
  BY <1>2, LookupFacts DEF Inv
<1>4. DOMAIN symOf' \subseteq DOMAIN prog.nodes /\ TableOK(symOf', DOMAIN syms)
      /\ used' \subseteq DOMAIN syms
  <2>1. used' \subseteq DOMAIN syms
    BY <1>1 DEF Inv
  <2> QED BY <2>1, <1>1, <1>3, CheckedNode, BindFacts
<1>5. <<Check(Node.expr)>> \in Seq(Plain(prog.nodes))
  <2>1. Node.expr \in PlainNodes(prog.nodes)
    BY <1>1, CheckedNode DEF NodeOK, Node
  <2>2. Check(Node.expr) \in Plain(prog.nodes)
    BY <2>1 DEF Plain, Check
  <2> QED BY <2>2
<1> QED BY <1>1, <1>4, <1>5, CheckedNode, PlainStep

LEMMA LeaveScopeKeeps ==
    ASSUME Inv, LeaveScope
    PROVE  Inv'
<1>1. /\ verdict = "symbols" /\ todo # <<>> /\ Head1.act = "leave"
      /\ scopes' = Front(scopes) /\ todo' = <<>> \o Tail(todo)
      /\ UNCHANGED <<prog, junk, syms, frame, params, func, verdict>> /\ UNCHANGED <<symOf, used>>
  BY DEF LeaveScope, At, Visit
<1> DEFINE n == Len(scopes) - 1
<1>2. ~IsFunc(prog.nodes, Head1)
  BY <1>1 DEF IsFunc
<1>3. /\ Tail(todo) \in Seq(Items(prog.nodes)) /\ AgendaOK(prog.nodes, Tail(todo), n)
      /\ n \in Nat /\ scopes # <<>> /\ DOMAIN scopes = 1 .. Len(scopes) /\ Len(scopes) = n + 1
      /\ func # NULL
  BY <1>1, <1>2, HeadFacts
<1>4. todo' = Tail(todo)
  BY <1>1, <1>3, ConcatEmptySeq
<1>5. /\ IsList(scopes') /\ Len(scopes') = n /\ DOMAIN scopes' = 1 .. n
      /\ \A i \in 1 .. n : scopes'[i] = scopes[i]
  BY <1>1, <1>3, FrontFacts, ListFacts DEF Inv, ChainOK
<1> HIDE DEF n
<1>6. /\ ChainOK(scopes', DOMAIN syms)
      /\ \A i \in DOMAIN scopes' : syms[func].key \in DOMAIN scopes'[i]
  <2>1. \A i \in 1 .. n : i \in DOMAIN scopes
    BY <1>3
  <2> QED BY <2>1, <1>1, <1>3, <1>5 DEF Inv, ChainOK, Running
<1> QED BY <1>1, <1>3, <1>4, <1>5, <1>6, QuietStep DEF Inv

(* A message and exit(1), or a crash.                                      *)
LEMMA DieKeeps ==
    ASSUME Inv, NEW how \in {"exit1", "crash"}, Die(how)
    PROVE  Inv'
<1>1. ChainOK(scopes', DOMAIN syms)
  BY DEF Die, Inv
<1> QED BY <1>1, DeadStep DEF Die

LEMMA SymbolsDoneKeeps ==
    ASSUME Inv, SymbolsDone
    PROVE  Inv'
<1>1. todo = <<>> /\ AgendaOK(prog.nodes, todo, Len(scopes)) /\ scopes' = Front(scopes)
  BY DEF SymbolsDone, Inv, Running
<1>2. Len(scopes) \in Nat \ {0}
  BY <1>1 DEF AgendaOK
<1>3. IsList(scopes) /\ scopes # <<>> /\ DOMAIN scopes = 1 .. Len(scopes)
  BY <1>2, ListFacts DEF Inv, ChainOK
<1>4. ChainOK(scopes', DOMAIN syms)
  <2> DEFINE n == Len(scopes) - 1
  <2>1. n \in Nat /\ \A i \in 1 .. n : i \in DOMAIN scopes
    BY <1>2, <1>3
  <2>2. IsList(scopes') /\ DOMAIN scopes' = 1 .. n /\ \A i \in 1 .. n : scopes'[i] = scopes[i]
    BY <1>1, <1>3, FrontFacts, ListFacts
  <2> HIDE DEF n
  <2> QED BY <2>1, <2>2 DEF Inv, ChainOK
<1> QED BY <1>4, DeadStep DEF SymbolsDone

LEMMA TypeCheckKeeps ==
    ASSUME Inv, TypeCheck
    PROVE  Inv'
<1>1. verdict' \in {"exit1", "accepted"}
  BY DEF TypeCheck
<1>2. ChainOK(scopes', DOMAIN syms)
  BY DEF TypeCheck, Inv
<1> QED BY <1>1, <1>2, DeadStep DEF TypeCheck

-----------------------------------------------------------------------------
(* Steps that make symbols.                                                *)

(* A function on 1 .. n is a list.                                         *)
LEMMA ListOf ==
    ASSUME NEW f, NEW n \in Nat, f = [i \in 1 .. n |-> f[i]]
    PROVE  IsList(f) /\ Len(f) = n /\ DOMAIN f = 1 .. n
<1> DEFINE S == {f[i] : i \in 1 .. n}
<1>1. f \in [1 .. n -> S]
  OBVIOUS
<1> HIDE DEF S
<1>2. f \in Seq(S) /\ Len(f) = n
  BY <1>1
<1> QED BY <1>1, <1>2 DEF IsList

Local(sym) == sym.kind = "VARIABLE" /\ sym.decl[2] = 0

(* Symbols that are no locals take no room.                                *)
LEMMA LayoutGrows ==
    ASSUME Layout, IsList(syms), IsList(syms'), Len(syms) <= Len(syms'),
           \A i \in 1 .. Len(syms) : syms'[i] = syms[i],
           \A i \in 1 .. Len(syms') : i > Len(syms) => ~Local(syms'[i]),
           DOMAIN frame \subseteq DOMAIN frame', \A s \in DOMAIN frame : frame'[s] = frame[s]
    PROVE  Layout'
<1>1. Len(syms) \in Nat /\ DOMAIN syms = 1 .. Len(syms) /\ DOMAIN syms' = 1 .. Len(syms')
      /\ Len(syms') \in Nat
  BY ListFacts
<1>2. ASSUME NEW s \in DOMAIN syms', IsLocal(s)'
      PROVE  s \in DOMAIN syms /\ syms'[s] = syms[s] /\ IsLocal(s)
  <2>1. Local(syms'[s])
    BY <1>2 DEF IsLocal, Local
  <2>2. s \in 1 .. Len(syms)
    BY <1>1, <2>1
  <2> QED BY <1>1, <1>2, <2>2 DEF IsLocal
<1>3. ASSUME NEW s \in DOMAIN syms', IsLocal(s)'
      PROVE  /\ syms'[s].owner \in DOMAIN frame' /\ syms'[s].offset \in Nat
             /\ syms'[s].offset + WordSize <= frame'[syms'[s].owner]
  BY <1>2, <1>3 DEF Layout
<1>4. ASSUME NEW s \in DOMAIN syms', NEW t \in DOMAIN syms', IsLocal(s)', IsLocal(t)',
             syms'[s].owner = syms'[t].owner, s < t
      PROVE  syms'[s].offset + WordSize <= syms'[t].offset
  BY <1>2, <1>4 DEF Layout
<1> QED BY <1>3, <1>4 DEF Layout

(* ScopeChanges for the chain of scopes, as it is after a step.            *)
LEMMA ScopeReplaced ==
    ASSUME ChainOK(scopes, DOMAIN syms), DOMAIN syms \subseteq DOMAIN syms',
           Len(scopes) \in Nat \ {0}, NEW table, TableOK(table, DOMAIN syms'),
           scopes' = Append(Front(scopes), table)
    PROVE  /\ ChainOK(scopes', DOMAIN syms') /\ Len(scopes') = Len(scopes)
           /\ \A i \in 1 .. (Len(scopes) - 1) : scopes'[i] = scopes[i]
           /\ scopes'[Len(scopes)] = table
<1>1. /\ ChainOK(Append(Front(scopes), table), DOMAIN syms')
      /\ Len(Append(Front(scopes), table)) = Len(scopes)
      /\ \A i \in 1 .. (Len(scopes) - 1) : Append(Front(scopes), table)[i] = scopes[i]
      /\ Append(Front(scopes), table)[Len(scopes)] = table
  BY ScopeChanges
<1> QED BY <1>1

(* A declaration inside a function.                                        *)
LEMMA DeclareStep ==
    ASSUME Inv, verdict = "symbols", todo # <<>>,
           Head1.act # "leave", ~IsFunc(prog.nodes, Head1), Visit(<<>>),
           UNCHANGED <<prog, junk, params, func, used, verdict>>,
           IsList(syms'), Len(syms) <= Len(syms'),
           \A i \in 1 .. Len(syms) : syms'[i] = syms[i],
           NEW table, scopes' = Append(Front(scopes), table),
           TableOK(table, DOMAIN syms'), DOMAIN Scope \subseteq DOMAIN table,
           DOMAIN symOf' \subseteq DOMAIN prog.nodes, TableOK(symOf', DOMAIN syms'),
           DOMAIN frame' = DOMAIN frame, \A s \in DOMAIN frame : frame'[s] \in Nat,
           Layout'
    PROVE  Inv'
<1> DEFINE n == Len(scopes)
<1>1. /\ Tail(todo) \in Seq(Items(prog.nodes)) /\ AgendaOK(prog.nodes, Tail(todo), n)
      /\ func # NULL /\ func \in DOMAIN frame /\ n \in Nat \ {0} /\ DOMAIN scopes = 1 .. n
  BY HeadFacts
<1>2. todo' = Tail(todo)
  BY <1>1, ConcatEmptySeq DEF Visit
<1>3. DOMAIN syms \subseteq DOMAIN syms' /\ \A i \in DOMAIN syms : syms'[i] = syms[i]
  <2>1. /\ Len(syms) \in Nat /\ DOMAIN syms = 1 .. Len(syms)
        /\ Len(syms') \in Nat /\ DOMAIN syms' = 1 .. Len(syms')
    BY ListFacts DEF Inv
  <2> QED BY <2>1
<1>4. /\ ChainOK(scopes', DOMAIN syms') /\ Len(scopes') = n
      /\ \A i \in 1 .. (n - 1) : scopes'[i] = scopes[i]
      /\ scopes'[n] = table
  BY <1>1, <1>3, ScopeReplaced DEF Inv
<1>5. ASSUME NEW i \in DOMAIN scopes' PROVE syms'[func'].key \in DOMAIN scopes'[i]
  <2>1. i \in 1 .. n
    BY <1>4, ListFacts DEF ChainOK
  <2>2. syms'[func'].key = syms[func].key
    BY <1>1, <1>3 DEF Inv
  <2>3. syms[func].key \in DOMAIN scopes[i] /\ syms[func].key \in DOMAIN scopes[n]
    <3>1. \A j \in DOMAIN scopes : syms[func].key \in DOMAIN scopes[j]
      BY <1>1 DEF Inv, Running
    <3>2. i \in DOMAIN scopes /\ n \in DOMAIN scopes
      BY <1>1, <2>1
    <3> QED BY <3>1, <3>2
  <2>4. CASE i = n
    BY <1>4, <2>2, <2>3, <2>4 DEF Scope, Last
  <2>5. CASE i # n
    <3>1. i \in 1 .. (n - 1)
      BY <1>1, <2>1, <2>5
    <3> QED BY <1>4, <2>2, <2>3, <3>1
  <2> QED BY <2>4, <2>5
<1>6. AgendaOK(prog.nodes, todo', Len(scopes'))
  BY <1>1, <1>2, <1>4
<1> HIDE DEF n
<1>7. Running'
  BY <1>1, <1>5, <1>6 DEF Running
<1>8. \A s \in DOMAIN frame' : params'[s] \in Seq(DOMAIN syms')
  BY <1>3, SeqMonotonic DEF Inv
<1> QED BY <1>1, <1>2, <1>3, <1>4, <1>7, <1>8 DEF Inv

(* What is declared in the innermost scope names symbols there are.        *)
LEMMA ScopeFacts ==
    ASSUME Inv, verdict = "symbols", todo # <<>>
    PROVE  TableOK(Scope, DOMAIN syms) /\ IsList(syms) /\ Len(syms) \in Nat
           /\ DOMAIN syms = 1 .. Len(syms)
<1>1. Len(scopes) \in DOMAIN scopes
  BY HeadFacts
<1> QED BY <1>1, ListFacts DEF Scope, Last, Inv, ChainOK

LEMMA CheckEnumKeeps ==
    ASSUME Inv, CheckEnum
    PROVE  Inv'
<1> DEFINE es  == Node.enums
           new == [i \in 1 .. Len(es) |->
                     NewSym(es[i], "CONST", "int", junk, i - 1, func, <<Head1.node, i>>)]
           l   == Len(syms)
           k   == Len(es)
<1>1. /\ At("check") /\ Node.type = "ENUM" /\ Visit(<<>>)
      /\ syms' = syms \o new /\ scopes' = Append(Front(scopes), BoundAll(Scope, es))
      /\ UNCHANGED <<prog, junk, params, func, used, verdict>> /\ UNCHANGED <<symOf, frame>>
  BY DEF CheckEnum, Checking
<1>2. IsList(es)
  BY <1>1, CheckedNode DEF NodeOK, Node, IsVector, IsList
<1>3. TableOK(Scope, DOMAIN syms) /\ IsList(syms) /\ l \in Nat /\ DOMAIN syms = 1 .. l /\ k \in Nat
  BY <1>1, <1>2, CheckedNode, ScopeFacts, ListFacts
<1>4. IsList(new) /\ Len(new) = k /\ \A i \in 1 .. k : ~Local(new[i])
  <2>1. \A i \in 1 .. k : new[i].kind = "CONST"
    BY DEF NewSym
  <2>2. new = [i \in 1 .. k |-> new[i]]
    OBVIOUS
  <2> HIDE DEF new, k
  <2> QED BY <1>3, <2>1, <2>2, ListOf DEF Local
<1> HIDE DEF new
<1>5. /\ IsList(syms') /\ Len(syms') = l + k
      /\ \A i \in 1 .. l : syms'[i] = syms[i]
      /\ \A i \in 1 .. k : syms'[l + i] = new[i]
  <2>1. /\ IsList(syms \o new) /\ Len(syms \o new) = l + Len(new)
        /\ \A i \in 1 .. l : (syms \o new)[i] = syms[i]
        /\ \A i \in 1 .. Len(new) : (syms \o new)[l + i] = new[i]
    BY <1>3, <1>4, JoinedLists
  <2> QED BY <2>1, <1>1, <1>4
<1>6. DOMAIN syms' = 1 .. (l + k)
  BY <1>5, ListFacts
<1>7. TableOK(BoundAll(Scope, es), 1 .. (l + k)) /\ DOMAIN Scope \subseteq DOMAIN BoundAll(Scope, es)
  BY <1>2, <1>3, BoundAllFacts
<1> HIDE DEF l, k
<1>8. ASSUME NEW i \in 1 .. Len(syms'), i > Len(syms) PROVE ~Local(syms'[i])
  <2> DEFINE j == i - l
  <2>1. j \in 1 .. k /\ l + j = i
    BY <1>3, <1>5, <1>8 DEF l
  <2> HIDE DEF j
  <2> QED BY <2>1, <1>4, <1>5
<1>9. Len(syms) <= Len(syms')
  BY <1>3, <1>5 DEF l
<1>10. \A i \in 1 .. Len(syms) : syms'[i] = syms[i]
  BY <1>5 DEF l
<1>11. Layout'
  BY <1>1, <1>3, <1>5, <1>8, <1>9, <1>10, LayoutGrows DEF Inv
<1>12. DOMAIN syms \subseteq DOMAIN syms'
  BY <1>3, <1>6
<1>13. DOMAIN symOf' \subseteq DOMAIN prog.nodes /\ TableOK(symOf', DOMAIN syms')
  BY <1>1, <1>12, TableGrows DEF Inv
<1>14. DOMAIN frame' = DOMAIN frame /\ \A s \in DOMAIN frame : frame'[s] \in Nat
  BY <1>1 DEF Inv
<1> QED BY <1>1, <1>5, <1>6, <1>7, <1>9, <1>10, <1>11, <1>13, <1>14, CheckedNode, DeclareStep

LEMMA DeclareVarKeeps ==
    ASSUME Inv, DeclareVar
    PROVE  Inv'
<1> DEFINE sym == NewSym(Node.value, "VARIABLE", Node.ctype, frame[func], junk, func,
                         <<Head1.node, 0>>)
           l   == Len(syms)
<1>1. /\ syms' = Append(syms, sym) /\ frame' = [frame EXCEPT ![func] = @ + WordSize]
      /\ Bind(Head1.node, l + 1) /\ Visit(<<>>)
      /\ scopes' = Append(Front(scopes), Bound(Scope, Node.value, l + 1))
      /\ UNCHANGED <<prog, junk, params, func, used, verdict>>
  BY DEF DeclareVar, StackFrameAdd, ScopeAdd, NextSym
<1>2. /\ verdict = "symbols" /\ todo # <<>> /\ Head1.act # "leave"
      /\ ~IsFunc(prog.nodes, Head1) /\ Head1.node \in DOMAIN prog.nodes
  <2>1. CASE Checking("VAR_DEC")
    BY <2>1, CheckedNode DEF Checking
  <2>2. CASE At("define")
    BY <2>2, HeadFacts DEF At, IsFunc
  <2> QED BY <2>1, <2>2 DEF DeclareVar
<1>3. func \in DOMAIN frame /\ frame[func] \in Nat
  BY <1>2, HeadFacts DEF Inv
<1>4. TableOK(Scope, DOMAIN syms) /\ IsList(syms) /\ l \in Nat /\ DOMAIN syms = 1 .. l
  BY <1>2, ScopeFacts
<1>5. sym.owner = func /\ sym.offset = frame[func]
  BY DEF NewSym
<1> HIDE DEF sym
<1>6. /\ IsList(syms') /\ Len(syms') = l + 1
      /\ \A i \in 1 .. l : syms'[i] = syms[i]
      /\ syms'[l + 1] = sym
  BY <1>1, <1>4, AppendFacts
<1>7. DOMAIN syms' = 1 .. (l + 1)
  BY <1>6, ListFacts
<1> HIDE DEF l
<1>8. DOMAIN syms \subseteq DOMAIN syms' /\ l + 1 \in DOMAIN syms'
  BY <1>4, <1>7
<1>9. /\ TableOK(Bound(Scope, Node.value, l + 1), DOMAIN syms')
      /\ DOMAIN Scope \subseteq DOMAIN Bound(Scope, Node.value, l + 1)
  <2>1. TableOK(Scope, DOMAIN syms')
    BY <1>4, <1>8, TableGrows
  <2> DEFINE ids == DOMAIN syms'
             s   == l + 1
  <2>2. TableOK(Scope, ids) /\ s \in ids
    BY <1>8, <2>1
  <2> HIDE DEF ids, s
  <2>3. /\ DOMAIN Bound(Scope, Node.value, s) = DOMAIN Scope \cup {Node.value}
        /\ TableOK(Bound(Scope, Node.value, s), ids)
    BY <2>2, BoundFacts
  <2> QED BY <2>3 DEF ids, s
<1>10. DOMAIN symOf' \subseteq DOMAIN prog.nodes /\ TableOK(symOf', DOMAIN syms')
  BY <1>1, <1>2, <1>8, BindFacts
<1>11. /\ DOMAIN frame' = DOMAIN frame
       /\ \A s \in DOMAIN frame : frame[s] \in Nat /\ frame'[s] \in Nat /\ frame[s] <= frame'[s]
       /\ frame'[func] = frame[func] + WordSize
  <2>1. \A s \in DOMAIN frame : frame[s] \in Nat
    BY DEF Inv
  <2>2. WordSize \in Nat
    BY SemaAssumption
  <2> QED BY <1>1, <1>3, <2>1, <2>2
<1>12. ASSUME NEW s \in 1 .. l, IsLocal(s)'
       PROVE  /\ IsLocal(s) /\ syms'[s] = syms[s]
              /\ syms[s].owner \in DOMAIN frame /\ syms[s].offset \in Nat
              /\ syms[s].offset + WordSize <= frame[syms[s].owner]
  <2>1. syms'[s] = syms[s] /\ s \in DOMAIN syms
    BY <1>4, <1>6
  <2>2. IsLocal(s)
    BY <1>12, <2>1 DEF IsLocal
  <2> QED BY <2>1, <2>2 DEF Inv, Layout
<1>13. Layout'
  <2>1. WordSize \in Nat
    BY SemaAssumption
  <2>2. ASSUME NEW s \in DOMAIN syms', IsLocal(s)'
        PROVE  /\ syms'[s].owner \in DOMAIN frame' /\ syms'[s].offset \in Nat
               /\ syms'[s].offset + WordSize <= frame'[syms'[s].owner]
    <3>1. CASE s = l + 1
      BY <3>1, <1>3, <1>5, <1>6, <1>11
    <3>2. CASE s # l + 1
      <4>1. s \in 1 .. l
        BY <1>4, <1>7, <3>2
      <4>2. /\ syms'[s] = syms[s] /\ syms[s].owner \in DOMAIN frame /\ syms[s].offset \in Nat
            /\ syms[s].offset + WordSize <= frame[syms[s].owner]
        BY <1>12, <2>2, <4>1
      <4> QED BY <4>2, <2>1, <1>11
    <3> QED BY <3>1, <3>2
  <2>3. ASSUME NEW s \in DOMAIN syms', NEW t \in DOMAIN syms', IsLocal(s)', IsLocal(t)',
               syms'[s].owner = syms'[t].owner, s < t
        PROVE  syms'[s].offset + WordSize <= syms'[t].offset
    <3>1. s \in 1 .. l
      BY <1>4, <1>7, <2>3
    <3>2. /\ IsLocal(s) /\ syms'[s] = syms[s]
          /\ syms[s].offset + WordSize <= frame[syms[s].owner]
      BY <1>12, <2>3, <3>1
    <3>3. CASE t = l + 1
      BY <3>2, <3>3, <2>3, <1>5, <1>6
    <3>4. CASE t # l + 1
      <4>1. t \in 1 .. l
        BY <1>4, <1>7, <3>4
      <4>2. IsLocal(t) /\ syms'[t] = syms[t]
        BY <1>12, <2>3, <4>1
      <4> QED BY <3>1, <3>2, <4>1, <4>2, <2>3, <1>4 DEF Inv, Layout
    <3> QED BY <3>3, <3>4
  <2> QED BY <2>2, <2>3 DEF Layout
<1>14. Len(syms) <= Len(syms') /\ \A i \in 1 .. Len(syms) : syms'[i] = syms[i]
  BY <1>4, <1>6 DEF l
<1> QED BY <1>1, <1>2, <1>6, <1>9, <1>10, <1>11, <1>13, <1>14, DeclareStep

(* The parameters and the function itself go into the global scope, the    *)
(* only one there is when a definition is met.                             *)
LEMMA CheckFuncDefKeeps ==
    ASSUME Inv, CheckFuncDef
    PROVE  Inv'
<1> DEFINE ps   == Node.params
           l    == Len(syms)
           k    == Len(ps)
           f    == l + 1 + k
           keys == [i \in 1 .. k |-> ps[i].value]
           pars == [i \in 1 .. k |-> NewSym(ps[i].value, "VARIABLE", ps[i].ctype,
                                            junk, junk, f, <<Head1.node, i>>)]
           own  == NewSym(Node.value, "FUNCTION", Node.ctype, junk, junk, f, <<Head1.node, 0>>)
           ids  == [i \in 1 .. k |-> l + i]
           table == Bound(BoundAll(Scope, keys), Node.value, f)
<1>1. /\ At("check") /\ Node.type = "FUNC_DEF" /\ Visit(<<Check(Node.body)>>)
      /\ syms' = (syms \o pars) \o <<own>>
      /\ frame' = Bound(frame, f, 0) /\ params' = Bound(params, f, ids) /\ func' = f
      /\ scopes' = Append(Front(scopes), table) /\ Bind(Head1.node, f)
      /\ UNCHANGED <<prog, junk, used, verdict>>
  BY DEF CheckFuncDef, Checking, NewFrame, NextSym
<1>2. IsList(ps)
  BY <1>1, CheckedNode DEF NodeOK, Node, IsVector, IsList
<1>3. /\ TableOK(Scope, DOMAIN syms) /\ IsList(syms) /\ l \in Nat /\ DOMAIN syms = 1 .. l
      /\ k \in Nat /\ verdict = "symbols" /\ todo # <<>>
  BY <1>1, <1>2, CheckedNode, ScopeFacts, ListFacts
<1>4. Len(scopes) = 1
  BY <1>1, CheckedNode, HeadFacts DEF IsFunc, Node
<1>5. IsList(pars) /\ Len(pars) = k /\ \A i \in 1 .. k : ~Local(pars[i])
  <2>1. \A i \in 1 .. k : pars[i].decl[2] = i
    BY DEF NewSym
  <2>2. pars = [i \in 1 .. k |-> pars[i]]
    OBVIOUS
  <2> HIDE DEF pars, k
  <2>3. \A i \in 1 .. k : ~Local(pars[i])
    BY <1>3, <2>1 DEF Local
  <2> QED BY <1>3, <2>2, <2>3, ListOf
<1>6. own.kind = "FUNCTION" /\ own.key = Node.value
  BY DEF NewSym
<1>7. IsList(keys) /\ Len(keys) = k
  <2>1. keys = [i \in 1 .. k |-> keys[i]]
    OBVIOUS
  <2> HIDE DEF keys, k
  <2> QED BY <1>3, <2>1, ListOf
<1>8. ids \in Seq(1 .. f)
  <2> HIDE DEF k, l, pars, own, keys, table
  <2>1. f \in Nat /\ \A i \in 1 .. k : l + i \in 1 .. f
    BY <1>3
  <2> HIDE DEF f
  <2> QED BY <1>3, <2>1
<1> HIDE DEF pars, own, keys, ids, table
<1>9. /\ IsList(syms') /\ Len(syms') = f
      /\ \A i \in 1 .. l : syms'[i] = syms[i]
      /\ \A i \in 1 .. k : syms'[l + i] = pars[i]
      /\ syms'[f] = own
  <2> DEFINE mid == syms \o pars
  <2>1. /\ IsList(mid) /\ Len(mid) = l + Len(pars)
        /\ \A i \in 1 .. l : mid[i] = syms[i]
        /\ \A i \in 1 .. Len(pars) : mid[l + i] = pars[i]
    BY <1>3, <1>5, JoinedLists
  <2> DEFINE last == <<own>>
  <2>2. IsList(last) /\ Len(last) = 1 /\ last[1] = own
    BY ListFacts
  <2> HIDE DEF mid, last, l, k, f
  <2>3. /\ IsList(mid \o last) /\ Len(mid \o last) = Len(mid) + Len(last)
        /\ \A i \in 1 .. Len(mid) : (mid \o last)[i] = mid[i]
        /\ \A i \in 1 .. Len(last) : (mid \o last)[Len(mid) + i] = last[i]
    <3>1. IsList(mid) /\ IsList(last)
      BY <2>1, <2>2
    <3> QED BY <3>1, JoinedLists
  <2>4. syms' = mid \o last
    BY <1>1 DEF mid, last
  <2>5. Len(mid) = l + k
    BY <1>5, <2>1
  <2>6. ASSUME NEW i \in 1 .. l PROVE syms'[i] = syms[i]
    <3>1. i \in 1 .. Len(mid)
      BY <1>3, <2>5
    <3> QED BY <3>1, <2>1, <2>3, <2>4
  <2>7. ASSUME NEW i \in 1 .. k PROVE syms'[l + i] = pars[i]
    <3> DEFINE j == l + i
    <3>1. j \in 1 .. Len(mid) /\ mid[j] = pars[i]
      BY <1>3, <1>5, <2>1, <2>5
    <3> HIDE DEF j
    <3>2. syms'[j] = pars[i]
      BY <3>1, <2>3, <2>4
    <3> QED BY <3>2 DEF j
  <2>8. Len(mid) + 1 = f
    BY <1>3, <2>5 DEF f
  <2>9. Len(syms') = f /\ syms'[f] = own
    <3>1. 1 \in 1 .. Len(last)
      BY <2>2
    <3>2. syms'[Len(mid) + 1] = own
      BY <3>1, <2>2, <2>3, <2>4
    <3> QED BY <3>2, <2>2, <2>3, <2>4, <2>8
  <2> QED BY <2>3, <2>4, <2>6, <2>7, <2>9
<1>10. DOMAIN syms' = 1 .. f
  BY <1>9, ListFacts
<1>11. TableOK(BoundAll(Scope, keys), 1 .. (l + k))
  BY <1>3, <1>7, BoundAllFacts
<1>12. f \in Nat \ {0} /\ f > l /\ f \in 1 .. f /\ 1 .. (l + k) \subseteq 1 .. f /\ 1 .. l \subseteq 1 .. f
  <2> HIDE DEF l, k
  <2> QED BY <1>3
<1>13. TableOK(table, 1 .. f) /\ Node.value \in DOMAIN table
  <2> DEFINE old == BoundAll(Scope, keys)
  <2>1. TableOK(old, 1 .. f)
    BY <1>11, <1>12, TableGrows
  <2> HIDE DEF old, f
  <2>2. DOMAIN Bound(old, Node.value, f) = DOMAIN old \cup {Node.value}
        /\ TableOK(Bound(old, Node.value, f), 1 .. f)
    BY <2>1, <1>12, BoundFacts
  <2> QED BY <2>2 DEF old, table
<1>14. ChainOK(scopes', 1 .. f) /\ Len(scopes') = 1 /\ scopes'[1] = table
  <2>1. ChainOK(scopes, 1 .. l) /\ Len(scopes) \in Nat \ {0}
    BY <1>3, <1>4 DEF Inv
  <2> DEFINE new == Append(Front(scopes), table)
  <2> HIDE DEF f, l
  <2>2. ChainOK(new, 1 .. f) /\ Len(new) = Len(scopes) /\ new[Len(scopes)] = table
    BY <2>1, <1>12, <1>13, ScopeChanges
  <2> QED BY <2>2, <1>1, <1>4
<1>15. DOMAIN symOf' \subseteq DOMAIN prog.nodes /\ TableOK(symOf', 1 .. f)
  <2>1. Head1.node \in DOMAIN prog.nodes /\ DOMAIN syms \subseteq 1 .. f
    BY <1>1, <1>3, <1>12, CheckedNode
  <2> HIDE DEF f
  <2> QED BY <2>1, <1>1, <1>12, BindFacts
<1>16. todo' \in Seq(Items(prog.nodes)) /\ AgendaOK(prog.nodes, todo', 1)
  <2>1. Tail(todo) \in Seq(Items(prog.nodes)) /\ AgendaOK(prog.nodes, Tail(todo), 1)
    BY <1>1, <1>4, CheckedNode, HeadFacts
  <2>2. Node.body \in PlainNodes(prog.nodes)
    BY <1>1, CheckedNode DEF NodeOK, Node
  <2>3. Check(Node.body) \in Plain(prog.nodes)
    BY <2>2 DEF Plain, Check
  <2> DEFINE p == <<Check(Node.body)>>
  <2>4. p \in Seq(Plain(prog.nodes))
    BY <2>3
  <2> HIDE DEF p
  <2>5. p \o Tail(todo) \in Seq(Items(prog.nodes)) /\ AgendaOK(prog.nodes, p \o Tail(todo), 1)
    BY <2>1, <2>4, AgendaVisit
  <2> QED BY <2>5, <1>1 DEF p, Visit
<1>17. Running'
  <2>1. DOMAIN scopes' = 1 .. 1
    BY <1>14, ListFacts DEF ChainOK
  <2>2. syms'[func'].key = Node.value
    BY <1>1, <1>6, <1>9
  <2>3. func' # NULL
    BY <1>1, <1>12 DEF NULL
  <2>4. \A i \in DOMAIN scopes' : i = 1
    BY <2>1
  <2>5. AgendaOK(prog.nodes, todo', Len(scopes')) /\ prog' = prog
    BY <1>1, <1>14, <1>16
  <2> QED BY <2>2, <2>3, <2>4, <2>5, <1>13, <1>14 DEF Running
<1>18. f \notin DOMAIN frame
  <2>1. DOMAIN frame \subseteq 1 .. l
    BY <1>3 DEF Inv
  <2> HIDE DEF f, l
  <2> QED BY <2>1, <1>3, <1>12
<1>19. /\ DOMAIN frame' = DOMAIN frame \cup {f} /\ frame'[f] = 0
       /\ \A s \in DOMAIN frame : frame'[s] = frame[s]
  <2> HIDE DEF f
  <2> QED BY <1>1, <1>18 DEF Bound
<1>20. /\ DOMAIN params' = DOMAIN params \cup {f} /\ params'[f] = ids
       /\ \A s \in DOMAIN frame : s \in DOMAIN params /\ params'[s] = params[s]
  <2>1. DOMAIN frame \subseteq DOMAIN params
    BY DEF Inv
  <2> HIDE DEF f
  <2> QED BY <1>1, <1>18, <2>1 DEF Bound
<1> HIDE DEF f, l, k
<1>21. Layout'
  <2>1. Len(syms) <= Len(syms') /\ \A i \in 1 .. Len(syms) : syms'[i] = syms[i]
    BY <1>3, <1>9, <1>12 DEF l
  <2>2. ASSUME NEW i \in 1 .. Len(syms'), i > Len(syms) PROVE ~Local(syms'[i])
    <3>1. CASE i = f
      BY <3>1, <1>6, <1>9 DEF Local
    <3>2. CASE i # f
      <4> DEFINE j == i - l
      <4>1. j \in 1 .. k /\ l + j = i
        BY <1>3, <1>9, <2>2, <3>2 DEF l, f
      <4> HIDE DEF j
      <4> QED BY <4>1, <1>5, <1>9
    <3> QED BY <3>1, <3>2
  <2> QED BY <1>3, <1>9, <1>19, <2>1, <2>2, LayoutGrows DEF Inv
<1>22. DOMAIN syms \subseteq DOMAIN syms' /\ f \in DOMAIN syms'
  BY <1>3, <1>10, <1>12
<1>23. ASSUME NEW s \in DOMAIN frame' PROVE frame'[s] \in Nat /\ params'[s] \in Seq(DOMAIN syms')
  <2>1. CASE s = f
    BY <2>1, <1>8, <1>10, <1>19, <1>20
  <2>2. CASE s # f
    <3>1. s \in DOMAIN frame /\ frame'[s] = frame[s] /\ params'[s] = params[s]
      BY <2>2, <1>19, <1>20
    <3>2. frame[s] \in Nat /\ params[s] \in Seq(DOMAIN syms)
      BY <3>1 DEF Inv
    <3> QED BY <3>1, <3>2, <1>22, SeqMonotonic
  <2> QED BY <2>1, <2>2
<1>24. DOMAIN frame' \subseteq DOMAIN syms' \cap DOMAIN params' /\ func' \in DOMAIN frame'
  BY <1>1, <1>19, <1>20, <1>22 DEF Inv
<1>25. used' \subseteq DOMAIN syms' /\ prog' = prog /\ junk' = junk /\ verdict' = verdict
  BY <1>1, <1>22 DEF Inv
<1> QED BY <1>9, <1>10, <1>14, <1>15, <1>16, <1>17, <1>21, <1>23, <1>24, <1>25 DEF Inv

-----------------------------------------------------------------------------

LEMMA InitInv == Init => Inv
<1> SUFFICES ASSUME Init PROVE Inv
  OBVIOUS
<1> DEFINE fs    == prog.funcs
           Funcs == {n \in DOMAIN prog.nodes : prog.nodes[n].type = "FUNC_DEF"}
           m     == Len(fs)
<1>1. fs \in Seq(Funcs) /\ m \in Nat
  <2>1. ProgramOK(prog)
    BY SemaAssumption DEF Init
  <2> QED BY <2>1 DEF ProgramOK, HeapOK
<1>2. \A i \in 1 .. m : Check(fs[i]) \in Items(prog.nodes) /\ IsFunc(prog.nodes, Check(fs[i]))
  BY <1>1 DEF Check, Items, IsFunc
<1>3. todo = [i \in 1 .. m |-> Check(fs[i])]
  BY DEF Init, Checks
<1> HIDE DEF m, fs, Funcs
<1>4. /\ todo \in Seq(Items(prog.nodes)) /\ Len(todo) = m /\ DOMAIN todo = 1 .. m
      /\ \A i \in 1 .. m : todo[i] = Check(fs[i])
  BY <1>1, <1>2, <1>3
<1>5. AgendaOK(prog.nodes, todo, 1)
  <2> DEFINE d == [i \in 1 .. m + 1 |-> 1]
  <2>1. d \in [1 .. m + 1 -> Nat \ {0}] /\ d[1] = 1 /\ d[m + 1] = 1
    BY <1>1
  <2>2. \A i \in 1 .. m : d[i] = 1 /\ d[i + 1] = 1
    BY <1>1
  <2> HIDE DEF d
  <2>3. \A i \in 1 .. m : todo[i].act # "leave"
    BY <1>4 DEF Check
  <2>4. Depths(prog.nodes, todo, d)
    BY <1>4, <2>1, <2>2, <2>3 DEF Depths
  <2> QED BY <1>4, <2>1, <2>4 DEF AgendaOK
<1>6. /\ IsList(syms) /\ DOMAIN syms = {} /\ DOMAIN symOf = {} /\ DOMAIN frame = {}
      /\ TableOK(symOf, DOMAIN syms)
  BY ListFacts DEF Init, TableOK
<1>7. ChainOK(scopes, DOMAIN syms) /\ Len(scopes) = 1
  <2>1. scopes = << <<>> >> /\ IsList(scopes) /\ Len(scopes) = 1
    BY ListFacts DEF Init
  <2>2. \A i \in DOMAIN scopes : scopes[i] = <<>>
    BY <2>1
  <2> QED BY <2>1, <2>2 DEF ChainOK, TableOK
<1>8. Running
  BY <1>2, <1>4, <1>5, <1>7 DEF Running, Init
<1>9. Layout
  BY <1>6 DEF Layout
<1> QED BY <1>4, <1>6, <1>7, <1>8, <1>9 DEF Init, Inv

LEMMA NextInv == Inv /\ [Next]_vars => Inv'
<1> SUFFICES ASSUME Inv, [Next]_vars PROVE Inv'
  OBVIOUS
<1>1. CASE CheckCompStmt
  BY <1>1, CheckCompStmtKeeps
<1>2. CASE LeaveScope
  BY <1>2, LeaveScopeKeeps
<1>3. CASE CheckParts
  BY <1>3, CheckPartsKeeps
<1>4. CASE CheckFor
  BY <1>4, CheckForKeeps
<1>5. CASE Redeclaration
  BY <1>5, DieKeeps DEF Redeclaration
<1>6. CASE CheckVarDef
  BY <1>6, CheckVarDefKeeps
<1>7. CASE DeclareVar
  BY <1>7, DeclareVarKeeps
<1>8. CASE CheckFuncDef
  BY <1>8, CheckFuncDefKeeps
<1>9. CASE CheckIdent
  BY <1>9, CheckIdentKeeps
<1>10. CASE UndefinedIdent
  BY <1>10, DieKeeps DEF UndefinedIdent
<1>11. CASE CheckFuncCall
  BY <1>11, CheckFuncCallKeeps
<1>12. CASE BadCall
  BY <1>12, DieKeeps DEF BadCall
<1>13. CASE CheckRet
  BY <1>13, CheckRetKeeps
<1>14. CASE CheckEnum
  BY <1>14, CheckEnumKeeps
<1>15. CASE SymbolsDone
  BY <1>15, SymbolsDoneKeeps
<1>16. CASE TypeCheck
  BY <1>16, TypeCheckKeeps
<1>17. CASE UNCHANGED vars
  <2>1. Layout'
    BY <1>17, LayoutSame DEF vars, Inv
  <2>2. Running' <=> Running
    BY <1>17 DEF vars, Running
  <2> QED BY <1>17, <2>1, <2>2 DEF vars, Inv
<1> QED BY <1>1, <1>2, <1>3, <1>4, <1>5, <1>6, <1>7, <1>8, <1>9, <1>10, <1>11, <1>12, <1>13,
           <1>14, <1>15, <1>16, <1>17 DEF Next, Case, Stopped

LEMMA Invariance == Spec => []Inv
  BY InitInv, NextInv, PTL DEF Spec

-----------------------------------------------------------------------------
(* What is left for the passes behind sym_check.  Reached follows the      *)
(* nodes sym_check was called with: what they point to was met too or is   *)
(* on the agenda, so when the agenda is empty no node below a function was *)
(* left out, and there are no others (NoneLoose).                          *)

Annotated == {"IDENT", "FUNC_CALL", "RET", "FUNC_DEF", "VAR_DEF"}
Waits(items, act, n) == \E i \in DOMAIN items : items[i].act = act /\ items[i].node = n

Followed(met) ==
    /\ met \subseteq DOMAIN prog.nodes
    /\ \A n \in Elements(prog.funcs) : n \in met \/ Waits(todo, "check", n)
    /\ \A m \in met : \A n \in Children(prog.nodes[m]) : n \in met \/ Waits(todo, "check", n)
    /\ \A m \in met : prog.nodes[m].type \in Annotated
           => m \in DOMAIN symOf \/ Waits(todo, "define", m)

Framed ==
    /\ DOMAIN params \subseteq DOMAIN frame
    /\ \A i \in DOMAIN todo :
           todo[i].act = "define" => prog.nodes[todo[i].node].type = "VAR_DEF"
    /\ \A n \in DOMAIN symOf :
           prog.nodes[n].type \in {"FUNC_CALL", "FUNC_DEF"} => symOf[n] \in DOMAIN frame

Reached ==
    /\ verdict \in {"symbols", "types", "accepted"} => \E met : Followed(met)
    /\ verdict \in {"types", "accepted"} => todo = <<>>
    /\ Framed

(* A list in front of another, position by position.                       *)
LEMMA JoinedAt ==
    ASSUME NEW front, IsList(front), NEW back, IsList(back), NEW both, both = front \o back
    PROVE  /\ IsList(both) /\ Len(front) \in Nat /\ Len(back) \in Nat
           /\ DOMAIN both = 1 .. (Len(front) + Len(back))
           /\ \A i \in 1 .. Len(front) : both[i] = front[i]
           /\ \A i \in 1 .. Len(back) : both[Len(front) + i] = back[i]
<1>1. IsList(front \o back) /\ Len(front \o back) = Len(front) + Len(back)
  BY JoinedLists
<1>2. /\ \A i \in 1 .. Len(front) : (front \o back)[i] = front[i]
      /\ \A i \in 1 .. Len(back) : (front \o back)[Len(front) + i] = back[i]
  BY JoinedLists
<1>3. IsList(both) /\ Len(both) = Len(front) + Len(back)
  BY ONLY <1>1, both = front \o back, Zenon
<1>4. /\ \A i \in 1 .. Len(front) : both[i] = front[i]
      /\ \A i \in 1 .. Len(back) : both[Len(front) + i] = back[i]
  BY ONLY <1>2, both = front \o back, Zenon
<1>5. Len(front) \in Nat /\ Len(back) \in Nat /\ DOMAIN both = 1 .. Len(both)
  BY <1>3, ListFacts
<1> QED BY <1>3, <1>4, <1>5

LEMMA ItemsOn ==
    ASSUME NEW t, IsList(t), t # <<>>, NEW p, IsList(p), NEW act, NEW n
    PROVE  /\ Waits(p, act, n) => Waits(p \o Tail(t), act, n)
           /\ Waits(t, act, n) => \/ Waits(p \o Tail(t), act, n)
                                  \/ Head(t).act = act /\ Head(t).node = n
           /\ Waits(p \o Tail(t), act, n) => Waits(p, act, n) \/ Waits(t, act, n)
<1> DEFINE r == Tail(t)
           l == Len(p)
<1>1. /\ IsList(r) /\ Len(r) = Len(t) - 1 /\ Head(t) = t[1]
      /\ \A i \in 1 .. (Len(t) - 1) : r[i] = t[i + 1]
  <2>1. PICK S : t \in Seq(S)
    BY DEF IsList
  <2>2. r \in Seq(S) /\ Len(r) = Len(t) - 1 /\ \A i \in 1 .. (Len(t) - 1) : r[i] = t[i + 1]
    BY <2>1, HeadTailProperties
  <2> QED BY <2>1, <2>2 DEF IsList
<1>2. /\ Len(t) \in Nat \ {0} /\ DOMAIN t = 1 .. Len(t) /\ DOMAIN r = 1 .. (Len(t) - 1)
      /\ l \in Nat /\ DOMAIN p = 1 .. l
  BY <1>1, ListFacts
<1> HIDE DEF r
<1> DEFINE q == p \o r
<1>3. /\ DOMAIN q = 1 .. (Len(p) + Len(r))
      /\ \A i \in 1 .. Len(p) : q[i] = p[i]
      /\ \A i \in 1 .. Len(r) : q[Len(p) + i] = r[i]
  BY <1>1, JoinedAt
<1> HIDE DEF q
<1>4. DOMAIN q = 1 .. (l + (Len(t) - 1)) /\ \A i \in 1 .. l : q[i] = p[i]
  BY <1>1, <1>3
<1>5. \A i \in 1 .. (Len(t) - 1) : q[l + i] = t[i + 1]
  BY <1>1, <1>3
<1> HIDE DEF q, l
<1>6. ASSUME Waits(p, act, n) PROVE Waits(q, act, n)
  <2>1. PICK i \in 1 .. l : p[i].act = act /\ p[i].node = n
    BY <1>2, <1>6 DEF Waits
  <2>2. i \in DOMAIN q
    BY <1>2, <1>4
  <2> QED BY <1>4, <2>1, <2>2 DEF Waits
<1>7. ASSUME Waits(t, act, n) PROVE Waits(q, act, n) \/ (t[1].act = act /\ t[1].node = n)
  <2>1. PICK i \in 1 .. Len(t) : t[i].act = act /\ t[i].node = n
    BY <1>2, <1>7 DEF Waits
  <2>2. CASE i # 1
    <3>1. PICK k \in 1 .. (Len(t) - 1) : i = k + 1
      <4>1. i - 1 \in 1 .. (Len(t) - 1) /\ i = (i - 1) + 1
        BY <1>2, <2>2
      <4> QED BY <4>1
    <3>2. l + k \in DOMAIN q /\ q[l + k] = t[i]
      BY <1>2, <1>4, <1>5, <3>1
    <3> QED BY <2>1, <3>2 DEF Waits
  <2> QED BY <2>1, <2>2
<1>8. ASSUME Waits(q, act, n) PROVE Waits(p, act, n) \/ Waits(t, act, n)
  <2>1. PICK i \in DOMAIN q : q[i].act = act /\ q[i].node = n
    BY <1>8 DEF Waits
  <2>2. CASE i \in 1 .. l
    BY <1>2, <1>4, <2>1, <2>2 DEF Waits
  <2>3. CASE i \notin 1 .. l
    <3>1. PICK k \in 1 .. (Len(t) - 1) : i = l + k
      <4>1. i - l \in 1 .. (Len(t) - 1) /\ i = l + (i - l)
        BY <1>2, <1>4, <2>3
      <4> QED BY <4>1
    <3>2. k + 1 \in DOMAIN t /\ q[i] = t[k + 1]
      BY <1>2, <1>5, <3>1
    <3> QED BY <2>1, <3>2 DEF Waits
  <2> QED BY <2>2, <2>3
<1> QED BY <1>1, <1>6, <1>7, <1>8 DEF q, r

(* The checks of a list of nodes.                                          *)
LEMMA ChecksWait ==
    ASSUME NEW ns, IsList(ns)
    PROVE  /\ IsList(Checks(ns)) /\ IsList(Checks(ns) \o <<Leave>>)
           /\ \A n \in Elements(ns) : /\ Waits(Checks(ns), "check", n)
                                      /\ Waits(Checks(ns) \o <<Leave>>, "check", n)
           /\ \A n : /\ ~Waits(Checks(ns), "define", n)
                     /\ ~Waits(Checks(ns) \o <<Leave>>, "define", n)
<1> DEFINE c == Checks(ns)
           l == Len(ns)
<1>1. l \in Nat /\ DOMAIN ns = 1 .. l
  BY ListFacts
<1>2. c = [i \in 1 .. l |-> Check(ns[i])]
  BY DEF Checks
<1> HIDE DEF c, l
<1>3. IsList(c) /\ Len(c) = l
  <2> DEFINE S == {Check(ns[i]) : i \in 1 .. l}
  <2>1. c \in [1 .. l -> S]
    BY <1>2
  <2> HIDE DEF S
  <2>2. c \in Seq(S) /\ Len(c) = l
    BY <1>1, <2>1
  <2> QED BY <2>2 DEF IsList
<1>4. DOMAIN c = 1 .. l /\ \A i \in 1 .. l : c[i] = Check(ns[i])
  BY <1>2
<1> DEFINE last == <<Leave>>
           d == c \o last
<1>5. IsList(last) /\ Len(last) = 1 /\ last[1] = Leave
  BY ListFacts
<1> HIDE DEF last
<1>6. /\ IsList(d) /\ DOMAIN d = 1 .. (l + 1)
      /\ \A i \in 1 .. l : d[i] = Check(ns[i])
      /\ d[l + 1] = Leave
  <2>1. PICK a, b : a = c /\ b = last
    OBVIOUS
  <2>2. /\ IsList(a \o b) /\ DOMAIN (a \o b) = 1 .. (Len(a) + Len(b))
        /\ \A i \in 1 .. Len(a) : (a \o b)[i] = a[i]
        /\ \A i \in 1 .. Len(b) : (a \o b)[Len(a) + i] = b[i]
    <3>1. IsList(a) /\ IsList(b)
      BY <1>3, <1>5, <2>1
    <3>2. IsList(a \o b)
      BY ONLY <3>1, JoinedLists
    <3>3. /\ DOMAIN (a \o b) = 1 .. (Len(a) + Len(b))
          /\ \A i \in 1 .. Len(a) : (a \o b)[i] = a[i]
          /\ \A i \in 1 .. Len(b) : (a \o b)[Len(a) + i] = b[i]
      BY ONLY <3>1, JoinedAt
    <3> QED BY <3>2, <3>3
  <2>3. d = a \o b
    BY <2>1
  <2> HIDE DEF d
  <2>4. /\ IsList(d) /\ DOMAIN d = 1 .. (Len(a) + Len(b))
        /\ \A i \in 1 .. Len(a) : d[i] = a[i]
        /\ \A i \in 1 .. Len(b) : d[Len(a) + i] = b[i]
    BY ONLY <2>2, <2>3, Zenon
  <2>5. 1 \in 1 .. 1
    OBVIOUS
  <2> QED BY <1>3, <1>4, <1>5, <2>1, <2>4, <2>5
<1> HIDE DEF d
<1>7. ASSUME NEW n \in Elements(ns) PROVE Waits(c, "check", n) /\ Waits(d, "check", n)
  <2>1. PICK i \in 1 .. l : n = ns[i]
    BY <1>1 DEF Elements
  <2>2. i \in DOMAIN c /\ i \in DOMAIN d /\ c[i] = Check(n) /\ d[i] = Check(n)
    BY <1>1, <1>4, <1>6, <2>1
  <2> QED BY <2>2 DEF Waits, Check
<1>8. ASSUME NEW n PROVE ~Waits(c, "define", n) /\ ~Waits(d, "define", n)
  <2>1. \A i \in 1 .. (l + 1) : i \in 1 .. l \/ i = l + 1
    BY <1>1
  <2>2. \A i \in DOMAIN c : c[i].act # "define"
    BY <1>4 DEF Check
  <2>3. ASSUME NEW i \in DOMAIN d PROVE d[i].act # "define"
    <3>1. CASE i \in 1 .. l
      <4>1. d[i] = Check(ns[i])
        BY <1>6, <3>1
      <4> QED BY <4>1 DEF Check
    <3>2. CASE i = l + 1
      <4>1. d[i] = Leave
        BY <1>6, <3>2
      <4> QED BY <4>1 DEF Leave
    <3> QED BY <1>6, <2>1, <3>1, <3>2
  <2> QED BY <2>2, <2>3 DEF Waits
<1> QED BY <1>3, <1>6, <1>7, <1>8 DEF c, d, last

(* A step that takes the first item and puts others in front.              *)
LEMMA FollowStep ==
    ASSUME Inv, Reached, verdict = "symbols", todo # <<>>, verdict' = "symbols",
           NEW p, IsList(p), Visit(p), UNCHANGED prog,
           DOMAIN symOf \subseteq DOMAIN symOf',
           \A n : Waits(p, "define", n) => prog.nodes[n].type = "VAR_DEF",
           Head1.act = "check" =>
               /\ \A n \in Children(Node) : Waits(p, "check", n)
               /\ Node.type \in Annotated =>
                      Head1.node \in DOMAIN symOf' \/ Waits(p, "define", Head1.node),
           Head1.act = "define" => Head1.node \in DOMAIN symOf',
           DOMAIN params' \subseteq DOMAIN frame',
           \A n \in DOMAIN symOf' :
               prog.nodes[n].type \in {"FUNC_CALL", "FUNC_DEF"} => symOf'[n] \in DOMAIN frame'
    PROVE  Reached'
<1>1. PICK met : Followed(met)
  BY DEF Reached
<1>2. IsList(todo) /\ Head1 = Head(todo) /\ todo' = p \o Tail(todo)
  BY DEF Inv, IsList, Head1, Visit
<1>3. /\ \A act, n : Waits(p, act, n) => Waits(todo', act, n)
      /\ \A act, n : Waits(todo, act, n) => \/ Waits(todo', act, n)
                                            \/ Head1.act = act /\ Head1.node = n
      /\ \A act, n : Waits(todo', act, n) => Waits(p, act, n) \/ Waits(todo, act, n)
  BY <1>2, ItemsOn
<1>4. Head1.act = "check" => Head1.node \in DOMAIN prog.nodes
  BY HeadFacts
<1> DEFINE now == IF Head1.act = "check" THEN met \cup {Head1.node} ELSE met
<1>5. now \subseteq DOMAIN prog.nodes
  BY <1>1, <1>4 DEF Followed
<1>6. ASSUME NEW n, n \in met \/ Waits(todo, "check", n)
      PROVE  n \in now \/ Waits(todo', "check", n)
  BY <1>3, <1>6
<1>7. ASSUME NEW m \in now, NEW n \in Children(prog.nodes[m])
      PROVE  n \in now \/ Waits(todo', "check", n)
  <2>1. CASE m \in met
    BY <1>1, <1>6, <1>7, <2>1 DEF Followed
  <2>2. CASE m \notin met
    <3>1. Head1.act = "check" /\ prog.nodes[m] = Node
      BY <2>2 DEF Node
    <3> QED BY <1>3, <1>7, <3>1
  <2> QED BY <2>1, <2>2
<1>8. ASSUME NEW m \in now, prog.nodes[m].type \in Annotated
      PROVE  m \in DOMAIN symOf' \/ Waits(todo', "define", m)
  <2>1. CASE m \in met
    <3>1. m \in DOMAIN symOf \/ Waits(todo, "define", m)
      BY <1>1, <1>8, <2>1 DEF Followed
    <3> QED BY <1>3, <3>1
  <2>2. CASE m \notin met
    <3>1. Head1.act = "check" /\ prog.nodes[m] = Node /\ m = Head1.node
      BY <2>2 DEF Node
    <3> QED BY <1>3, <1>8, <3>1
  <2> QED BY <2>1, <2>2
<1>9. \E seen : Followed(seen)'
  <2>1. \A n \in Elements(prog.funcs) : n \in now \/ Waits(todo', "check", n)
    BY <1>1, <1>6 DEF Followed
  <2> HIDE DEF now
  <2>2. PICK seen : seen = now
    OBVIOUS
  <2>3. /\ seen \subseteq DOMAIN prog.nodes
        /\ \A n \in Elements(prog.funcs) : n \in seen \/ Waits(todo', "check", n)
        /\ \A m \in seen : \A n \in Children(prog.nodes[m]) :
               n \in seen \/ Waits(todo', "check", n)
        /\ \A m \in seen : prog.nodes[m].type \in Annotated
               => m \in DOMAIN symOf' \/ Waits(todo', "define", m)
    BY <1>5, <1>7, <1>8, <2>1, <2>2
  <2>4. Followed(seen)'
    BY <2>3 DEF Followed
  <2> QED BY <2>4
<1>10. Framed'
  <2>1. ASSUME NEW i \in DOMAIN todo', todo'[i].act = "define"
        PROVE  prog.nodes[todo'[i].node].type = "VAR_DEF"
    <3>1. Waits(todo', "define", todo'[i].node)
      BY <2>1 DEF Waits
    <3>2. CASE Waits(todo, "define", todo'[i].node)
      BY <3>2 DEF Reached, Framed, Waits
    <3> QED BY <1>3, <3>1, <3>2
  <2> QED BY <2>1 DEF Framed
<1> QED BY <1>9, <1>10 DEF Reached

(* Binding a node to a symbol leaves the others bound.                     *)
LEMMA BoundNode ==
    ASSUME NEW n, NEW s, Bind(n, s)
    PROVE  /\ DOMAIN symOf' = DOMAIN symOf \cup {n} /\ symOf'[n] = s
           /\ \A m \in DOMAIN symOf \ {n} : symOf'[m] = symOf[m]
  BY DEF Bind, Bound

(* Only the parts of a node are checked.                                   *)
LEMMA PartsFollow ==
    ASSUME Inv, Reached, CheckParts
    PROVE  Reached'
<1>1. /\ At("check") /\ Visit(Checks(Parts)) /\ verdict = "symbols" /\ todo # <<>>
      /\ UNCHANGED <<prog, symOf, frame, params, verdict>>
      /\ Node.type \in {"IF", "BIN_EXP", "VAR_ASGN", "WHILE", "EXPR_STMT", "UNARY_EXPR",
                        "LVAL", "INT_CONST", "EMPTY_EXPR"}
  BY DEF CheckParts, At
<1>2. Children(Node) \subseteq Elements(Parts) /\ IsList(Parts)
  <2>1. IsList(Parts)
    BY <1>1, PartsFacts DEF IsList
  <2>2. CASE Node.type = "IF"
    <3> DEFINE a == <<Node.if_body, Node.if_expr>>
               b == IF Node.else_body = NULL THEN <<>> ELSE <<Node.else_body>>
    <3>1. Parts = a \o b
      BY <2>2 DEF Parts
    <3>2. IsList(a) /\ Len(a) = 2 /\ a[1] = Node.if_body /\ a[2] = Node.if_expr
      <4>1. a \in Seq({Node.if_body, Node.if_expr})
        OBVIOUS
      <4> QED BY <4>1 DEF IsList
    <3>3. IsList(b) /\ (Node.else_body # NULL => Len(b) = 1 /\ b[1] = Node.else_body)
      <4>1. CASE Node.else_body = NULL
        <5>1. b = <<>>
          BY <4>1
        <5> HIDE DEF b
        <5> QED BY <4>1, <5>1, ListFacts
      <4>2. CASE Node.else_body # NULL
        <5>1. b = <<Node.else_body>>
          BY <4>2
        <5> HIDE DEF b
        <5>2. b \in Seq({Node.else_body}) /\ Len(b) = 1 /\ b[1] = Node.else_body
          BY <5>1
        <5> QED BY <5>2 DEF IsList
      <4> QED BY <4>1, <4>2
    <3> HIDE DEF a, b
    <3>4. /\ DOMAIN Parts = 1 .. (Len(a) + Len(b)) /\ Len(b) \in Nat
          /\ \A i \in 1 .. Len(a) : Parts[i] = a[i]
          /\ \A i \in 1 .. Len(b) : Parts[Len(a) + i] = b[i]
      <4>1. /\ DOMAIN (a \o b) = 1 .. (Len(a) + Len(b)) /\ Len(b) \in Nat
            /\ \A i \in 1 .. Len(a) : (a \o b)[i] = a[i]
            /\ \A i \in 1 .. Len(b) : (a \o b)[Len(a) + i] = b[i]
        <5>1. IsList(a) /\ IsList(b)
          BY <3>2, <3>3
        <5> QED BY ONLY <5>1, JoinedAt
      <4> QED BY ONLY <3>1, <4>1, Zenon
    <3>5. /\ Parts[1] = Node.if_body /\ Parts[2] = Node.if_expr
          /\ Node.else_body # NULL => Len(b) = 1 /\ Parts[3] = Node.else_body
      <4>1. 1 \in 1 .. 2 /\ 2 \in 1 .. 2 /\ 1 \in 1 .. 1 /\ 2 + 1 = 3
        OBVIOUS
      <4> QED BY <3>2, <3>3, <3>4, <4>1
    <3>6. /\ Node.if_body \in Elements(Parts) /\ Node.if_expr \in Elements(Parts)
          /\ Node.else_body # NULL => Node.else_body \in Elements(Parts)
      <4>1. 1 \in DOMAIN Parts /\ 2 \in DOMAIN Parts
            /\ (Node.else_body # NULL => 3 \in DOMAIN Parts)
        <5>1. Len(b) \in Nat /\ DOMAIN Parts = 1 .. (2 + Len(b))
          BY <3>2, <3>4
        <5>2. Node.else_body # NULL => Len(b) = 1
          BY <3>5
        <5> QED BY ONLY <5>1, <5>2
      <4> QED BY <3>5, <4>1 DEF Elements
    <3> QED BY <2>1, <2>2, <3>6 DEF Children
  <2>3. CASE Node.type \in {"BIN_EXP", "VAR_ASGN", "WHILE"}
    <3>1. PICK x, y : Parts = <<x, y>> /\ Children(Node) = {x, y}
      BY <2>3 DEF Parts, Children
    <3>2. DOMAIN Parts = {1, 2} /\ Parts[1] = x /\ Parts[2] = y
      BY <3>1
    <3> QED BY <2>1, <3>1, <3>2 DEF Elements
  <2>4. CASE Node.type \in {"EXPR_STMT", "UNARY_EXPR", "LVAL"}
    <3>1. PICK x : Parts = <<x>> /\ Children(Node) = {x}
      BY <2>4 DEF Parts, Children
    <3>2. DOMAIN Parts = {1} /\ Parts[1] = x
      BY <3>1
    <3> QED BY <2>1, <3>1, <3>2 DEF Elements
  <2>5. CASE Node.type \in {"INT_CONST", "EMPTY_EXPR"}
    BY <2>1, <2>5 DEF Children
  <2> QED BY <1>1, <2>2, <2>3, <2>4, <2>5
<1>3. /\ IsList(Checks(Parts))
      /\ \A n \in Children(Node) : Waits(Checks(Parts), "check", n)
      /\ \A n : ~Waits(Checks(Parts), "define", n)
  BY <1>2, ChecksWait
<1>4. Head1.act = "check" /\ Node.type \notin Annotated
  BY <1>1 DEF At, Annotated
<1>5. Framed
  BY DEF Reached
<1> QED BY <1>1, <1>3, <1>4, <1>5, FollowStep DEF Framed

(* The statements of a block, and the clauses of a for.                    *)
LEMMA BlocksFollow ==
    ASSUME Inv, Reached, CheckCompStmt \/ CheckFor
    PROVE  Reached'
<1>1. PICK ns : /\ Visit(Checks(ns) \o <<Leave>>) /\ IsList(ns)
                /\ Children(Node) = Elements(ns)
  <2>1. CASE CheckCompStmt
    <3>1. At("check") /\ Node.type = "COMP_STMT" /\ Visit(Checks(Node.stmts) \o <<Leave>>)
      BY <2>1 DEF CheckCompStmt, Checking
    <3>2. IsList(Node.stmts)
      <4>1. NodeOK(prog.nodes, Head1.node)
        BY <3>1, CheckedNode
      <4> QED BY <3>1, <4>1 DEF NodeOK, Node, IsList
    <3> QED BY <3>1, <3>2 DEF Children
  <2>2. CASE CheckFor
    <3> DEFINE ns == <<Node.init, Node.cond, Node.step, Node.body>>
    <3>1. Node.type = "FOR" /\ Visit(Checks(ns) \o <<Leave>>)
      BY <2>2 DEF CheckFor, Checking
    <3>2. ns \in Seq({Node.init, Node.cond, Node.step, Node.body})
      OBVIOUS
    <3>3. Elements(ns) = {Node.init, Node.cond, Node.step, Node.body}
      BY DEF Elements
    <3>4. Children(Node) = {Node.init, Node.cond, Node.step, Node.body}
      BY <3>1 DEF Children
    <3> QED BY <3>1, <3>2, <3>3, <3>4 DEF IsList
  <2> QED BY <2>1, <2>2
<1>2. /\ At("check") /\ Node.type \in {"COMP_STMT", "FOR"}
      /\ UNCHANGED <<prog, symOf, frame, params, verdict>>
  BY DEF CheckCompStmt, CheckFor, Checking
<1>3. verdict = "symbols" /\ todo # <<>> /\ Head1.act = "check" /\ Node.type \notin Annotated
  BY <1>2 DEF At, Annotated
<1> DEFINE p == Checks(ns) \o <<Leave>>
<1>4. /\ IsList(p) /\ \A n \in Children(Node) : Waits(p, "check", n)
      /\ \A n : ~Waits(p, "define", n)
  BY <1>1, ChecksWait
<1>5. Visit(p)
  BY <1>1
<1>6. Framed
  BY DEF Reached
<1> HIDE DEF p
<1> QED BY <1>2, <1>3, <1>4, <1>5, <1>6, FollowStep DEF Framed

(* An initialiser is checked before its variable is defined.               *)
LEMMA VarDefFollows ==
    ASSUME Inv, Reached, CheckVarDef
    PROVE  Reached'
<1> DEFINE p == <<Check(Node.expr), DefineVar(Head1.node)>>
<1>1. /\ At("check") /\ Node.type = "VAR_DEF" /\ Visit(p)
      /\ UNCHANGED <<prog, symOf, frame, params, verdict>>
  BY DEF CheckVarDef, Checking
<1>2. verdict = "symbols" /\ todo # <<>> /\ Head1.act = "check"
  BY <1>1 DEF At
<1>3. Node.type = "VAR_DEF" /\ Children(Node) = {Node.expr}
  BY <1>1 DEF Children
<1>4. /\ IsList(p) /\ DOMAIN p = {1, 2}
      /\ p[1] = Check(Node.expr) /\ p[2] = DefineVar(Head1.node)
  <2>1. PICK x, y : x = Check(Node.expr) /\ y = DefineVar(Head1.node)
    OBVIOUS
  <2>2. p = <<x, y>>
    BY <2>1
  <2> HIDE DEF p
  <2>3. p \in Seq({x, y}) /\ DOMAIN p = {1, 2} /\ p[1] = x /\ p[2] = y
    BY <2>2
  <2>4. IsList(p)
    BY <2>3 DEF IsList
  <2> QED BY <2>1, <2>3, <2>4
<1> HIDE DEF p
<1>5. /\ Waits(p, "check", Node.expr) /\ Waits(p, "define", Head1.node)
      /\ \A n : Waits(p, "define", n) => n = Head1.node
  <2>1. /\ p[1].act = "check" /\ p[1].node = Node.expr
        /\ p[2].act = "define" /\ p[2].node = Head1.node
    BY <1>4 DEF Check, DefineVar
  <2>2. \A n : Waits(p, "define", n) => n = Head1.node
    BY <1>4, <2>1 DEF Waits
  <2> QED BY <1>4, <2>1, <2>2 DEF Waits
<1>6. \A n : Waits(p, "define", n) => prog.nodes[n].type = "VAR_DEF"
  BY <1>3, <1>5 DEF Node
<1>7. Framed
  BY DEF Reached
<1> QED BY <1>1, <1>2, <1>3, <1>4, <1>5, <1>6, <1>7, FollowStep DEF Framed

(* Nothing is put in front of the agenda.                                  *)
LEMMA NothingWaits == IsList(<<>>) /\ \A act, n : ~Waits(<<>>, act, n)
  BY ListFacts DEF Waits

LEMMA LeaveFollows ==
    ASSUME Inv, Reached, LeaveScope \/ CheckEnum
    PROVE  Reached'
<1>1. /\ verdict = "symbols" /\ todo # <<>> /\ Visit(<<>>)
      /\ UNCHANGED <<prog, symOf, frame, params, verdict>>
      /\ Head1.act = "leave" \/ (Head1.act = "check" /\ Node.type = "ENUM")
  BY DEF LeaveScope, CheckEnum, Checking, At
<1>2. Node.type = "ENUM" => Children(Node) = {} /\ Node.type \notin Annotated
  BY DEF Children, Annotated
<1>3. Framed
  BY DEF Reached
<1>4. Head1.act # "define" /\ (Head1.act = "check" => Children(Node) = {} /\ Node.type \notin Annotated)
  BY <1>1, <1>2
<1> QED BY <1>1, <1>3, <1>4, NothingWaits, FollowStep DEF Framed

LEMMA DeclareFollows ==
    ASSUME Inv, Reached, DeclareVar
    PROVE  Reached'
<1>1. /\ verdict = "symbols" /\ todo # <<>> /\ Visit(<<>>)
      /\ Bind(Head1.node, NextSym) /\ frame' = StackFrameAdd
      /\ UNCHANGED <<prog, params, verdict>>
      /\ Head1.act = "define" \/ (Head1.act = "check" /\ Node.type = "VAR_DEC")
  BY DEF DeclareVar, Checking, At
<1>2. Node.type = "VAR_DEC" => Children(Node) = {} /\ Node.type \notin Annotated
  BY DEF Children, Annotated
<1>3. Framed
  BY DEF Reached
<1>4. Node.type \in {"VAR_DEC", "VAR_DEF"}
  <2>1. CASE Head1.act = "define"
    <3>1. IsList(todo) /\ todo # <<>>
      BY <1>1 DEF Inv, IsList
    <3>2. 1 \in DOMAIN todo /\ Head1 = todo[1]
      BY <3>1 DEF IsList, Head1
    <3> QED BY <1>3, <2>1, <3>2 DEF Framed, Node
  <2> QED BY <1>1, <2>1
<1>5. DOMAIN frame' = DOMAIN frame
  BY <1>1 DEF StackFrameAdd
<1>6. DOMAIN symOf' = DOMAIN symOf \cup {Head1.node}
      /\ \A m \in DOMAIN symOf \ {Head1.node} : symOf'[m] = symOf[m]
  BY <1>1, BoundNode
<1>7. ASSUME NEW n \in DOMAIN symOf', prog.nodes[n].type \in {"FUNC_CALL", "FUNC_DEF"}
      PROVE  symOf'[n] \in DOMAIN frame'
  <2>1. n # Head1.node
    BY <1>4, <1>7 DEF Node
  <2> QED BY <1>3, <1>5, <1>6, <1>7, <2>1 DEF Framed
<1>8. /\ DOMAIN params' \subseteq DOMAIN frame' /\ DOMAIN symOf \subseteq DOMAIN symOf'
      /\ Head1.node \in DOMAIN symOf'
  BY <1>1, <1>3, <1>5, <1>6 DEF Framed
<1>9. Head1.act = "check" => Children(Node) = {} /\ Node.type \notin Annotated
  BY <1>1, <1>2
<1> QED BY <1>1, <1>7, <1>8, <1>9, NothingWaits, FollowStep

(* Identifiers, calls and returns are bound when they are met.             *)
LEMMA UsesFollow ==
    ASSUME Inv, Reached, CheckIdent \/ CheckFuncCall \/ CheckRet
    PROVE  Reached'
<1>1. /\ At("check") /\ Node.type \in {"IDENT", "FUNC_CALL", "RET"}
      /\ UNCHANGED <<prog, frame, params, verdict>>
  BY DEF CheckIdent, CheckFuncCall, CheckRet, Checking
<1>2. PICK s : Bind(Head1.node, s) /\ (Node.type = "FUNC_CALL" => s \in DOMAIN frame)
  <2>1. CASE CheckFuncCall
    <3>1. Bind(Head1.node, Lookup(Node.value)) /\ Lookup(Node.value) \in DOMAIN params
      BY <2>1 DEF CheckFuncCall, Callable
    <3> QED BY <3>1 DEF Reached, Framed
  <2> QED BY <2>1 DEF CheckIdent, CheckRet, Checking
<1>3. PICK p : /\ Visit(p) /\ IsList(p)
               /\ \A n \in Children(Node) : Waits(p, "check", n)
               /\ \A n : ~Waits(p, "define", n)
  <2>1. CASE CheckIdent
    <3>1. Visit(<<>>) /\ Children(Node) = {}
      BY <2>1 DEF CheckIdent, Checking, Children
    <3> QED BY <3>1, NothingWaits
  <2>2. CASE CheckFuncCall
    <3>1. Visit(Checks(Node.args)) /\ Children(Node) = Elements(Node.args)
      BY <2>2 DEF CheckFuncCall, Checking, Children
    <3>2. NodeOK(prog.nodes, Head1.node) /\ Node.type = "FUNC_CALL"
      BY <1>1, <2>2, CheckedNode DEF CheckFuncCall, Checking
    <3>3. IsList(Node.args)
      BY <3>2 DEF NodeOK, Node, IsList
    <3> QED BY <3>1, <3>3, ChecksWait
  <2>3. CASE CheckRet
    <3>1. Visit(<<Check(Node.expr)>>) /\ Children(Node) = {Node.expr}
      BY <2>3 DEF CheckRet, Checking, Children
    <3>2. IsList(<<Check(Node.expr)>>)
      BY ListFacts
    <3>3. /\ Waits(<<Check(Node.expr)>>, "check", Node.expr)
          /\ \A n : ~Waits(<<Check(Node.expr)>>, "define", n)
      BY DEF Waits, Check
    <3> QED BY <3>1, <3>2, <3>3
  <2> QED BY <2>1, <2>2, <2>3
<1>4. verdict = "symbols" /\ todo # <<>> /\ Head1.act = "check"
  BY <1>1 DEF At
<1>5. /\ DOMAIN symOf' = DOMAIN symOf \cup {Head1.node} /\ symOf'[Head1.node] = s
      /\ \A m \in DOMAIN symOf \ {Head1.node} : symOf'[m] = symOf[m]
  BY <1>2, BoundNode
<1>6. ASSUME NEW n \in DOMAIN symOf', prog.nodes[n].type \in {"FUNC_CALL", "FUNC_DEF"}
      PROVE  symOf'[n] \in DOMAIN frame'
  <2>1. CASE n = Head1.node
    BY <1>1, <1>2, <1>5, <1>6, <2>1 DEF Node
  <2>2. CASE n # Head1.node
    BY <1>1, <1>5, <1>6, <2>2 DEF Reached, Framed
  <2> QED BY <2>1, <2>2
<1>7. /\ DOMAIN params' \subseteq DOMAIN frame' /\ DOMAIN symOf \subseteq DOMAIN symOf'
      /\ Head1.node \in DOMAIN symOf'
  BY <1>1, <1>5 DEF Reached, Framed
<1> QED BY <1>1, <1>3, <1>4, <1>6, <1>7, FollowStep

(* A function is bound to its symbol, which has a frame and parameters.    *)
LEMMA FuncDefFollows ==
    ASSUME Inv, Reached, CheckFuncDef
    PROVE  Reached'
<1>1. PICK f, ps : /\ frame' = Bound(frame, f, 0) /\ params' = Bound(params, f, ps)
                   /\ Bind(Head1.node, f)
  BY DEF CheckFuncDef, NewFrame
<1> DEFINE p == <<Check(Node.body)>>
<1>2. At("check") /\ Node.type = "FUNC_DEF" /\ Visit(p) /\ UNCHANGED <<prog, verdict>>
  BY DEF CheckFuncDef, Checking
<1>3. verdict = "symbols" /\ todo # <<>> /\ Head1.act = "check"
  BY <1>2 DEF At
<1>4. Children(Node) = {Node.body}
  BY <1>2 DEF Children
<1>5. IsList(p) /\ Waits(p, "check", Node.body) /\ \A n : ~Waits(p, "define", n)
  BY ListFacts DEF Waits, Check
<1> HIDE DEF p
<1>6. /\ DOMAIN frame' = DOMAIN frame \cup {f} /\ DOMAIN params' = DOMAIN params \cup {f}
  BY <1>1 DEF Bound
<1>7. /\ DOMAIN symOf' = DOMAIN symOf \cup {Head1.node} /\ symOf'[Head1.node] = f
      /\ \A m \in DOMAIN symOf \ {Head1.node} : symOf'[m] = symOf[m]
  BY <1>1, BoundNode
<1>8. Framed
  BY DEF Reached
<1>9. ASSUME NEW n \in DOMAIN symOf', prog.nodes[n].type \in {"FUNC_CALL", "FUNC_DEF"}
      PROVE  symOf'[n] \in DOMAIN frame'
  BY <1>6, <1>7, <1>8, <1>9 DEF Framed
<1>10. /\ DOMAIN params' \subseteq DOMAIN frame' /\ DOMAIN symOf \subseteq DOMAIN symOf'
       /\ Head1.node \in DOMAIN symOf'
  BY <1>6, <1>7, <1>8 DEF Framed
<1> QED BY <1>2, <1>3, <1>4, <1>5, <1>9, <1>10, FollowStep

(* A pass ends.                                                            *)
LEMMA EndFollows ==
    ASSUME Reached, UNCHANGED <<prog, todo, symOf, frame, params>>,
           \/ verdict' \in {"exit1", "crash"}
           \/ verdict' = verdict
           \/ verdict = "symbols" /\ todo = <<>> /\ verdict' = "types"
           \/ verdict = "types" /\ verdict' = "accepted"
    PROVE  Reached'
<1>1. Framed'
  BY DEF Reached, Framed
<1>2. \A met : Followed(met)' <=> Followed(met)
  BY DEF Followed, Waits
<1>3. verdict' \in {"symbols", "types", "accepted"} => \E met : Followed(met)'
  BY <1>2 DEF Reached
<1> QED BY <1>1, <1>3 DEF Reached

LEMMA ReachedHolds == Spec => []Reached
<1>1. Init => Reached
  <2> SUFFICES ASSUME Init PROVE Reached
    OBVIOUS
  <2>1. prog.funcs \in Seq({n \in DOMAIN prog.nodes : prog.nodes[n].type = "FUNC_DEF"})
    BY SemaAssumption DEF Init, ProgramOK, HeapOK
  <2>2. IsList(prog.funcs)
    BY <2>1 DEF IsList
  <2>3. todo = Checks(prog.funcs) /\ verdict = "symbols" /\ DOMAIN symOf = {} /\ DOMAIN params = {}
    BY DEF Init
  <2>4. /\ \A n \in Elements(prog.funcs) : Waits(todo, "check", n)
        /\ \A n : ~Waits(todo, "define", n)
    BY <2>2, <2>3, ChecksWait
  <2>5. Followed({})
    BY <2>4 DEF Followed
  <2>6. Framed
    BY <2>3, <2>4 DEF Framed, Waits
  <2> QED BY <2>3, <2>5, <2>6 DEF Reached
<1>2. Inv /\ Reached /\ [Next]_vars => Reached'
  <2> SUFFICES ASSUME Inv, Reached, [Next]_vars PROVE Reached'
    OBVIOUS
  <2>1. CASE Redeclaration \/ UndefinedIdent \/ BadCall
    BY <2>1, EndFollows DEF Redeclaration, UndefinedIdent, BadCall, Die
  <2>2. CASE SymbolsDone \/ TypeCheck
    BY <2>2, EndFollows DEF SymbolsDone, TypeCheck
  <2>3. CASE UNCHANGED vars
    BY <2>3, EndFollows DEF vars
  <2> QED BY <2>1, <2>2, <2>3, PartsFollow, BlocksFollow, VarDefFollows, LeaveFollows,
             DeclareFollows, UsesFollow, FuncDefFollows DEF Next, Case, Stopped
<1> QED BY <1>1, <1>2, Invariance, PTL DEF Spec

(* What a node points to was made before it.                               *)
LEMMA ChildrenPlain ==
    ASSUME NEW nodes, NEW m, NodeOK(nodes, m), NEW n \in Children(nodes[m])
    PROVE  n \in {k \in 1 .. (m - 1) : nodes[k].type # "FUNC_DEF"}
<1> DEFINE nd   == nodes[m]
           Kids == {k \in 1 .. (m - 1) : nodes[k].type # "FUNC_DEF"}
<1>1. \A s : s \in Seq(Kids) => Elements(s) \subseteq Kids
  BY DEF Elements
<1>2. /\ nd.type = "UNARY_EXPR" => nd.postfix_expr \in Kids
      /\ nd.type = "BIN_EXP" => nd.left \in Kids /\ nd.right \in Kids
      /\ nd.type = "FUNC_CALL" => nd.args \in Seq(Kids)
      /\ nd.type = "LVAL" => nd.ident \in Kids
      /\ nd.type = "VAR_ASGN" => nd.lval \in Kids /\ nd.rval \in Kids
      /\ nd.type = "COMP_STMT" => nd.stmts \in Seq(Kids)
      /\ nd.type \in {"EXPR_STMT", "RET", "VAR_DEF"} => nd.expr \in Kids
      /\ nd.type = "IF" => nd.if_expr \in Kids /\ nd.if_body \in Kids /\ nd.else_body \in Kids \cup {NULL}
      /\ nd.type = "WHILE" => nd.expr \in Kids /\ nd.body \in Kids
      /\ nd.type = "FOR" => nd.init \in Kids /\ nd.cond \in Kids /\ nd.step \in Kids /\ nd.body \in Kids
      /\ nd.type = "FUNC_DEF" => nd.body \in Kids
  BY DEF NodeOK
<1>3. n \in Children(nd)
  OBVIOUS
<1> HIDE DEF nd, Kids
<1>4. n \in Kids
  BY <1>1, <1>2, <1>3, SMTT(30) DEF Children
<1> QED BY <1>4 DEF Kids

LEMMA ChildrenBefore ==
    ASSUME NEW nodes, NEW m \in Nat, NodeOK(nodes, m), NEW n \in Children(nodes[m])
    PROVE  n < m
  BY ChildrenPlain

(* With nothing left to do, every node was met: the last one that was not  *)
(* would be no function, and its parent, which was made later, was met.    *)
LEMMA AllMet ==
    ASSUME Inv, todo = <<>>, NEW met, Followed(met)
    PROVE  met = DOMAIN prog.nodes
<1> DEFINE Rest == DOMAIN prog.nodes \ met
<1>1. ProgramOK(prog)
  BY SemaAssumption DEF Inv
<1>2. DOMAIN prog.nodes = 1 .. Len(prog.nodes) /\ Len(prog.nodes) \in Nat
  BY <1>1 DEF ProgramOK, HeapOK, IsVector
<1>3. \A act, n : ~Waits(todo, act, n)
  BY DEF Waits
<1>4. ASSUME Rest # {} PROVE FALSE
  <2>1. PICK n \in Rest : \A k \in Rest : k <= n
    <3>1. Rest \in SUBSET (1 .. Len(prog.nodes))
      BY <1>2
    <3> HIDE DEF Rest
    <3> QED BY <1>2, <1>4, <3>1, LastPosition
  <2>2. PICK m \in DOMAIN prog.nodes : n \in Children(prog.nodes[m])
    <3>1. n \notin Elements(prog.funcs)
      BY <1>3, <2>1 DEF Followed
    <3> QED BY <1>1, <2>1, <3>1 DEF ProgramOK, NoneLoose
  <2>3. n < m
    BY <1>1, <1>2, <2>2, ChildrenBefore DEF ProgramOK, HeapOK
  <2>4. m \in met
    BY <1>2, <2>1, <2>2, <2>3
  <2> QED BY <1>3, <2>1, <2>2, <2>4 DEF Followed
<1> QED BY <1>4 DEF Followed

-----------------------------------------------------------------------------
(* The names of functions.  sym_check meets the functions in the order of  *)
(* the program, each in the global scope; no scope ever loses a name, so   *)
(* one that is met twice is found (Redeclaration).  Symbols are made anew, *)
(* so what is bound to the symbol of a function is its name, and a call    *)
(* that is let through names a function.                                   *)

(* The last m functions are still to be checked, behind everything else.   *)
FuncsLeft(p, t, m) ==
    /\ m \in 0 .. Len(p.funcs) /\ m <= Len(t)
    /\ \A j \in 1 .. m : t[Len(t) + 1 - j] = Check(p.funcs[Len(p.funcs) + 1 - j])
    /\ \A i \in 1 .. (Len(t) - m) : ~IsFunc(p.nodes, t[i])

(* The first k functions have different names, and every scope has them.   *)
NamesMet(p, chain, k) ==
    /\ \A i, j \in 1 .. k : FuncName(p, i) = FuncName(p, j) => i = j
    /\ \A i \in 1 .. k : \A h \in DOMAIN chain : FuncName(p, i) \in DOMAIN chain[h]

(* Only a function's name is bound to one of the symbols fs of functions,  *)
(* and only functions are called.                                          *)
Known(p, chain, fs) ==
    \A h \in DOMAIN chain : \A x \in DOMAIN chain[h] : chain[h][x] \in fs => x \in FuncNames(p)
CallsNamed(p, bound) ==
    \A n \in bound : p.nodes[n].type = "FUNC_CALL" => p.nodes[n].value \in FuncNames(p)

Named ==
    /\ verdict = "symbols" =>
         /\ \E m \in 0 .. Len(prog.funcs) :
              FuncsLeft(prog, todo, m) /\ NamesMet(prog, scopes, Len(prog.funcs) - m)
         /\ Known(prog, scopes, DOMAIN params)
    /\ verdict \in {"types", "accepted"} => NamesMet(prog, <<>>, Len(prog.funcs))
    /\ CallsNamed(prog, DOMAIN symOf)

(* Items that are no checks of functions.                                  *)
NoFuncs(nodes, q) == IsList(q) /\ \A i \in DOMAIN q : ~IsFunc(nodes, q[i])

LEMMA PlainNoFuncs ==
    ASSUME NEW nodes, NEW q \in Seq(Plain(nodes))
    PROVE  NoFuncs(nodes, q) /\ NoFuncs(nodes, q \o <<Leave>>)
<1>1. IsList(q) /\ NoFuncs(nodes, q)
  BY DEF NoFuncs, IsList, IsFunc, Plain, PlainNodes
<1> DEFINE last == <<Leave>>
<1>2. IsList(last) /\ Len(last) = 1 /\ DOMAIN last = 1 .. 1 /\ last[1] = Leave
  BY ListFacts
<1> HIDE DEF last
<1> DEFINE r == q \o last
<1>3. /\ IsList(r) /\ Len(q) \in Nat /\ DOMAIN r = 1 .. (Len(q) + 1)
      /\ \A i \in 1 .. Len(q) : r[i] = q[i]
      /\ r[Len(q) + 1] = Leave
  <2>1. /\ IsList(r) /\ Len(q) \in Nat /\ DOMAIN r = 1 .. (Len(q) + Len(last))
        /\ \A i \in 1 .. Len(q) : r[i] = q[i]
        /\ \A i \in 1 .. Len(last) : r[Len(q) + i] = last[i]
    <3>1. IsList(q) /\ IsList(last)
      BY <1>1, <1>2
    <3>2. IsList(r)
      BY ONLY <3>1, JoinedLists
    <3>3. /\ Len(q) \in Nat /\ DOMAIN r = 1 .. (Len(q) + Len(last))
          /\ \A i \in 1 .. Len(q) : r[i] = q[i]
          /\ \A i \in 1 .. Len(last) : r[Len(q) + i] = last[i]
      BY ONLY <3>1, JoinedAt
    <3> QED BY <3>2, <3>3
  <2>2. 1 \in 1 .. Len(last)
    BY <1>2
  <2> HIDE DEF r
  <2> QED BY <1>2, <2>1, <2>2
<1> HIDE DEF r
<1>4. ASSUME NEW i \in DOMAIN r PROVE ~IsFunc(nodes, r[i])
  <2>1. CASE i = Len(q) + 1
    BY <1>3, <2>1 DEF IsFunc, Leave
  <2>2. CASE i # Len(q) + 1
    <3>1. i \in 1 .. Len(q)
      BY <1>3, <2>2
    <3>2. i \in DOMAIN q /\ r[i] = q[i]
      BY <1>1, <1>3, <3>1, ListFacts
    <3> QED BY <1>1, <3>2 DEF NoFuncs
  <2> QED BY <2>1, <2>2
<1> QED BY <1>1, <1>3, <1>4 DEF NoFuncs, r, last

(* The functions left when the first item is taken and others are put in   *)
(* front: the same, or one fewer if it was a function.                     *)
LEMMA FuncsLeftOn ==
    ASSUME NEW p, p.funcs \in Seq({n \in DOMAIN p.nodes : p.nodes[n].type = "FUNC_DEF"}),
           NEW t, IsList(t), t # <<>>, NEW q, NoFuncs(p.nodes, q), NEW m, FuncsLeft(p, t, m)
    PROVE  /\ ~IsFunc(p.nodes, t[1]) => FuncsLeft(p, q \o Tail(t), m)
           /\ IsFunc(p.nodes, t[1]) => /\ m \in 1 .. Len(p.funcs)
                                       /\ t[1] = Check(p.funcs[Len(p.funcs) + 1 - m])
                                       /\ FuncsLeft(p, q \o Tail(t), m - 1)
<1> DEFINE r == Tail(t)
           u == q \o r
           n == Len(t)
           l == Len(q)
           k == Len(p.funcs)
<1>1. /\ IsList(r) /\ Len(r) = n - 1 /\ n \in Nat \ {0}
      /\ \A i \in 1 .. (n - 1) : r[i] = t[i + 1]
  <2>1. PICK S : t \in Seq(S)
    BY DEF IsList
  <2>2. r \in Seq(S) /\ Len(r) = n - 1 /\ \A i \in 1 .. (n - 1) : r[i] = t[i + 1]
    BY <2>1, HeadTailProperties
  <2> QED BY <2>1, <2>2 DEF IsList
<1> HIDE DEF r
<1>2. /\ IsList(u) /\ l \in Nat /\ DOMAIN u = 1 .. (l + Len(r))
      /\ \A i \in 1 .. l : u[i] = q[i]
      /\ \A i \in 1 .. Len(r) : u[l + i] = r[i]
  <2>1. IsList(q) /\ IsList(r)
    BY <1>1 DEF NoFuncs
  <2>2. IsList(u)
    BY ONLY <2>1, JoinedLists
  <2>3. /\ l \in Nat /\ DOMAIN u = 1 .. (l + Len(r))
        /\ \A i \in 1 .. l : u[i] = q[i]
        /\ \A i \in 1 .. Len(r) : u[l + i] = r[i]
    BY ONLY <2>1, JoinedAt
  <2> QED BY <2>2, <2>3
<1>3. k \in Nat /\ \A i \in 1 .. k : IsFunc(p.nodes, Check(p.funcs[i]))
  BY DEF IsFunc, Check
<1> HIDE DEF u
<1>4. /\ Len(u) = l + n - 1 /\ \A i \in 1 .. l : ~IsFunc(p.nodes, u[i])
      /\ \A i \in 1 .. (n - 1) : u[l + i] = t[i + 1]
  <2>1. DOMAIN q = 1 .. l
    BY ListFacts DEF NoFuncs
  <2>2. \A i \in 1 .. l : ~IsFunc(p.nodes, u[i])
    BY <1>2, <2>1 DEF NoFuncs
  <2>3. Len(u) = l + Len(r)
    BY <1>1, <1>2 DEF IsList
  <2> QED BY <1>1, <1>2, <2>2, <2>3
<1> HIDE DEF n, l, k
<1>5. /\ m \in 0 .. k /\ m <= n
      /\ \A j \in 1 .. m : t[n + 1 - j] = Check(p.funcs[k + 1 - j])
      /\ \A i \in 1 .. (n - m) : ~IsFunc(p.nodes, t[i])
  BY DEF FuncsLeft, n, k
(* What is left of any number of functions that are not the first item.    *)
<1>6. ASSUME NEW h \in 0 .. m, h <= n - 1, \A i \in 2 .. (n - h) : ~IsFunc(p.nodes, t[i])
      PROVE  FuncsLeft(p, u, h)
  <2>1. ASSUME NEW j \in 1 .. h PROVE u[Len(u) + 1 - j] = Check(p.funcs[k + 1 - j])
    <3> DEFINE i == n - j
    <3>1. i \in 1 .. (n - 1) /\ l + i = Len(u) + 1 - j /\ i + 1 = n + 1 - j
      BY <1>1, <1>2, <1>4, <1>5, <1>6
    <3> HIDE DEF i
    <3>2. u[Len(u) + 1 - j] = t[n + 1 - j] /\ j \in 1 .. m
      BY <1>4, <1>5, <1>6, <3>1
    <3> QED BY <1>5, <3>2
  <2>2. ASSUME NEW i \in 1 .. (Len(u) - h) PROVE ~IsFunc(p.nodes, u[i])
    <3>1. CASE i \in 1 .. l
      BY <1>4, <3>1
    <3>2. CASE i \notin 1 .. l
      <4>1. PICK j \in 1 .. (n - 1) : i = l + j /\ j + 1 \in 2 .. (n - h)
        <5>1. /\ i - l \in 1 .. (n - 1) /\ i = l + (i - l)
              /\ (i - l) + 1 \in 2 .. (n - h)
          BY <1>1, <1>2, <1>4, <1>5, <1>6, <3>2
        <5> QED BY <5>1
      <4> QED BY <1>4, <1>6, <4>1
    <3> QED BY <3>1, <3>2
  <2>3. h \in 0 .. k /\ h <= Len(u)
    BY <1>1, <1>2, <1>3, <1>4, <1>5, <1>6
  <2> QED BY <2>1, <2>2, <2>3 DEF FuncsLeft, k
<1>7. ASSUME ~IsFunc(p.nodes, t[1]) PROVE FuncsLeft(p, u, m)
  <2>1. m <= n - 1
    <3> SUFFICES ASSUME m = n PROVE FALSE
      BY <1>1, <1>5
    <3>1. m \in 1 .. m /\ n + 1 - m = 1 /\ k + 1 - m \in 1 .. k
      BY <1>1, <1>3, <1>5
    <3>2. t[1] = Check(p.funcs[k + 1 - m])
      BY <1>5, <3>1
    <3> QED BY <1>3, <1>7, <3>1, <3>2
  <2>2. m \in 0 .. m /\ \A i \in 2 .. (n - m) : i \in 1 .. (n - m)
    BY <1>1, <1>5
  <2> QED BY <1>5, <1>6, <2>1, <2>2
<1>8. ASSUME IsFunc(p.nodes, t[1])
      PROVE  m \in 1 .. k /\ t[1] = Check(p.funcs[k + 1 - m]) /\ FuncsLeft(p, u, m - 1)
  <2>1. m = n
    <3> SUFFICES ASSUME m # n PROVE FALSE
      OBVIOUS
    <3>1. 1 \in 1 .. (n - m)
      BY <1>1, <1>3, <1>5
    <3> QED BY <1>5, <1>8, <3>1
  <2>2. m \in 1 .. m /\ n + 1 - m = 1 /\ m \in 1 .. k
    BY <1>1, <1>3, <1>5, <2>1
  <2>3. t[1] = Check(p.funcs[k + 1 - m])
    BY <1>5, <2>2
  <2>4. PICK h : h = m - 1
    OBVIOUS
  <2>5. h \in 0 .. m /\ h <= n - 1 /\ 2 .. (n - h) = {}
    BY <1>1, <1>3, <1>5, <2>1, <2>4
  <2>6. FuncsLeft(p, u, h)
    BY <1>6, <2>5
  <2> QED BY <2>2, <2>3, <2>4, <2>6
<1> QED BY <1>7, <1>8 DEF u, r, k

(* A scope that is changed or opened keeps the names of one there was.     *)
NamesKept(chain, next) ==
    \A h \in DOMAIN next : \E g \in DOMAIN chain : DOMAIN chain[g] \subseteq DOMAIN next[h]

LEMMA NamedStep ==
    ASSUME Inv, Named, verdict = "symbols", todo # <<>>, verdict' = "symbols", UNCHANGED prog,
           ~IsFunc(prog.nodes, Head1), NEW q, NoFuncs(prog.nodes, q), Visit(q),
           NamesKept(scopes, scopes'),
           Known(prog, scopes', DOMAIN params'), CallsNamed(prog, DOMAIN symOf')
    PROVE  Named'
<1> DEFINE k == Len(prog.funcs)
<1>1. PICK m \in 0 .. k : FuncsLeft(prog, todo, m) /\ NamesMet(prog, scopes, k - m)
  BY DEF Named
<1>2. IsList(todo) /\ Head1 = todo[1] /\ todo' = q \o Tail(todo)
  BY DEF Inv, IsList, Head1, Visit
<1>3. prog.funcs \in Seq({n \in DOMAIN prog.nodes : prog.nodes[n].type = "FUNC_DEF"})
  BY SemaAssumption DEF Inv, ProgramOK, HeapOK
<1>4. FuncsLeft(prog, q \o Tail(todo), m)
  BY <1>1, <1>2, <1>3, FuncsLeftOn
<1>5. FuncsLeft(prog, todo', m)
  BY <1>2, <1>4, Zenon
<1> HIDE DEF k
<1>6. NamesMet(prog, scopes', k - m)
  <2>1. PICK i : i = k - m
    OBVIOUS
  <2>2. NamesMet(prog, scopes', i)
    BY <1>1, <2>1 DEF NamesMet, NamesKept
  <2> QED BY <2>1, <2>2
<1> QED BY <1>1, <1>5, <1>6 DEF Named, k

LEMMA SameNames ==
    ASSUME UNCHANGED scopes
    PROVE  NamesKept(scopes, scopes')
  BY DEF NamesKept

LEMMA CopiedScopes ==
    ASSUME NEW p, NEW fs, NEW chain, NEW next, Known(p, chain, fs),
           \A h \in DOMAIN next : \E g \in DOMAIN chain : next[h] = chain[g]
    PROVE  NamesKept(chain, next) /\ Known(p, next, fs)
<1>1. NamesKept(chain, next)
  BY DEF NamesKept
<1>2. ASSUME NEW h \in DOMAIN next, NEW x \in DOMAIN next[h], next[h][x] \in fs
      PROVE  x \in FuncNames(p)
  <2>1. PICK g \in DOMAIN chain : next[h] = chain[g]
    BY <1>2
  <2>2. x \in DOMAIN chain[g] /\ chain[g][x] \in fs
    BY <1>2, <2>1
  <2> QED BY <2>2 DEF Known
<1> QED BY <1>1, <1>2 DEF Known

(* The table of the innermost scope is replaced.                           *)
LEMMA ChangedScope ==
    ASSUME ChainOK(scopes, DOMAIN syms), Len(scopes) \in Nat \ {0},
           NEW table, scopes' = Append(Front(scopes), table), DOMAIN Scope \subseteq DOMAIN table,
           NEW p, NEW fs, Known(p, scopes, fs),
           \A x \in DOMAIN table : table[x] \in fs => x \in FuncNames(p)
    PROVE  /\ NamesKept(scopes, scopes') /\ Known(p, scopes', fs)
           /\ DOMAIN scopes' = 1 .. Len(scopes) /\ scopes'[Len(scopes)] = table
<1> DEFINE n == Len(scopes)
           more == DOMAIN syms \cup {table[x] : x \in DOMAIN table}
<1>1. DOMAIN syms \subseteq more /\ TableOK(table, more)
  BY DEF TableOK
<1> HIDE DEF more
<1>2. /\ ChainOK(scopes', more) /\ Len(scopes') = n
      /\ \A i \in 1 .. (n - 1) : scopes'[i] = scopes[i]
      /\ scopes'[n] = table
  <2>1. /\ ChainOK(Append(Front(scopes), table), more)
        /\ Len(Append(Front(scopes), table)) = Len(scopes)
        /\ \A i \in 1 .. (Len(scopes) - 1) : Append(Front(scopes), table)[i] = scopes[i]
        /\ Append(Front(scopes), table)[Len(scopes)] = table
    BY <1>1, ScopeChanges
  <2> QED BY <2>1
<1>3. DOMAIN scopes' = 1 .. n /\ DOMAIN scopes = 1 .. n /\ Scope = scopes[n]
  BY <1>2, ListFacts DEF ChainOK, Scope, Last
<1>4. ASSUME NEW h \in 1 .. n
      PROVE  /\ DOMAIN scopes[h] \subseteq DOMAIN scopes'[h]
             /\ \A x \in DOMAIN scopes'[h] : scopes'[h][x] \in fs => x \in FuncNames(p)
  <2>1. CASE h = n
    BY <1>2, <1>3, <2>1
  <2>2. CASE h # n
    <3>1. h \in 1 .. (n - 1)
      BY <2>2
    <3>2. scopes'[h] = scopes[h]
      BY <1>2, <3>1
    <3> QED BY <1>3, <3>2 DEF Known
  <2> QED BY <2>1, <2>2
<1> QED BY <1>2, <1>3, <1>4 DEF NamesKept, Known

(* A name of BoundAll is bound to what it was, or to a symbol yet to make. *)
LEMMA BoundAllNew ==
    ASSUME IsList(syms), NEW table, NEW keys, IsList(keys), NEW x \in DOMAIN BoundAll(table, keys)
    PROVE  \/ x \in DOMAIN table /\ BoundAll(table, keys)[x] = table[x]
           \/ BoundAll(table, keys)[x] \notin DOMAIN syms
<1> DEFINE l == Len(syms)
           n == Len(keys)
           P == {i \in DOMAIN keys : keys[i] = x}
<1>1. l \in Nat /\ DOMAIN syms = 1 .. l /\ n \in Nat /\ DOMAIN keys = 1 .. n
  BY ListFacts
<1>2. x \in DOMAIN table \cup Range(keys)
  BY DEF BoundAll
<1>3. CASE x \in Range(keys)
  <2>1. BoundAll(table, keys)[x] = l + Max(P)
    BY <1>3 DEF BoundAll
  <2>2. P \in SUBSET (1 .. n) /\ P # {}
    BY <1>1, <1>3 DEF Range
  <2> HIDE DEF P, n, l
  <2>3. Max(P) \in 1 .. n
    BY <1>1, <2>2, GreatestElement
  <2> QED BY <1>1, <2>1, <2>3
<1>4. CASE x \notin Range(keys)
  BY <1>2, <1>4 DEF BoundAll
<1> QED BY <1>3, <1>4

LEMMA ParamsMade ==
    ASSUME Inv, Reached
    PROVE  DOMAIN params \subseteq DOMAIN syms
  BY DEF Inv, Reached, Framed

(* What is left when a case that binds no function is done.                *)
LEMMA BoundCalls ==
    ASSUME CallsNamed(prog, DOMAIN symOf), NEW n,
           prog.nodes[n].type = "FUNC_CALL" => prog.nodes[n].value \in FuncNames(prog),
           DOMAIN symOf' = DOMAIN symOf \cup {n}
    PROVE  CallsNamed(prog, DOMAIN symOf')
  BY DEF CallsNamed

(* A call that is let through names a function.                            *)
LEMMA CallNamed ==
    ASSUME Inv, Named, CheckFuncCall
    PROVE  Node.value \in FuncNames(prog)
<1>1. /\ verdict = "symbols" /\ InScope(Node.value) /\ Lookup(Node.value) \in DOMAIN params
  BY DEF CheckFuncCall, Callable, Checking, At
<1> DEFINE n == Len(scopes)
<1>2. n \in Nat /\ DOMAIN scopes = 1 .. n
  BY ListFacts DEF ChainOK, Inv
<1>3. Holders(Node.value) \in SUBSET (1 .. n) /\ Holders(Node.value) # {}
  BY <1>1, <1>2 DEF Holders, InScope
<1> HIDE DEF n
<1>4. Max(Holders(Node.value)) \in Holders(Node.value)
  BY <1>2, <1>3, GreatestElement
<1> QED BY <1>1, <1>4 DEF Named, Known, Lookup, Holders

LEMMA UsesNamed ==
    ASSUME Inv, Reached, Named, CheckParts \/ CheckVarDef \/ CheckIdent \/ CheckFuncCall \/ CheckRet
    PROVE  Named'
<1>1. /\ At("check") /\ Node.type # "FUNC_DEF"
      /\ UNCHANGED <<prog, scopes, params, verdict>>
  BY DEF CheckParts, CheckVarDef, CheckIdent, CheckFuncCall, CheckRet, Checking
<1>2. verdict = "symbols" /\ todo # <<>> /\ ~IsFunc(prog.nodes, Head1)
  BY <1>1, CheckedNode
<1> DEFINE Kids == {k \in 1 .. (Head1.node - 1) : prog.nodes[k].type # "FUNC_DEF"}
<1>3. NodeOK(prog.nodes, Head1.node) /\ Kids \subseteq PlainNodes(prog.nodes)
      /\ Head1.node \in DOMAIN prog.nodes
  BY <1>1, CheckedNode
<1>4. PICK q \in Seq(Plain(prog.nodes)) : Visit(q)
  <2>1. CASE CheckParts
    <3>1. Parts \in Seq(PlainNodes(prog.nodes)) /\ Visit(Checks(Parts))
      BY <1>1, <2>1, PartsFacts DEF CheckParts
    <3> QED BY <3>1, ChecksFacts
  <2>2. CASE CheckVarDef
    <3>1. Node.expr \in Kids /\ Visit(<<Check(Node.expr), DefineVar(Head1.node)>>)
      BY <1>3, <2>2 DEF CheckVarDef, Checking, NodeOK, Node
    <3>2. Check(Node.expr) \in Plain(prog.nodes) /\ DefineVar(Head1.node) \in Plain(prog.nodes)
      BY <1>3, <3>1 DEF Plain, Check, DefineVar
    <3>3. <<Check(Node.expr), DefineVar(Head1.node)>> \in Seq(Plain(prog.nodes))
      BY <3>2
    <3> QED BY <3>1, <3>3
  <2>3. CASE CheckIdent
    <3>1. <<>> \in Seq(Plain(prog.nodes)) /\ Visit(<<>>)
      BY <2>3 DEF CheckIdent
    <3> QED BY <3>1
  <2>4. CASE CheckFuncCall
    <3>1. Node.args \in Seq(Kids) /\ Visit(Checks(Node.args))
      BY <1>3, <2>4 DEF CheckFuncCall, Checking, NodeOK, Node
    <3>2. Node.args \in Seq(PlainNodes(prog.nodes))
      BY <1>3, <3>1, SeqMonotonic
    <3> QED BY <3>1, <3>2, ChecksFacts
  <2>5. CASE CheckRet
    <3>1. Node.expr \in Kids /\ Visit(<<Check(Node.expr)>>)
      BY <1>3, <2>5 DEF CheckRet, Checking, NodeOK, Node
    <3>2. Check(Node.expr) \in Plain(prog.nodes)
      BY <1>3, <3>1 DEF Plain, Check
    <3>3. <<Check(Node.expr)>> \in Seq(Plain(prog.nodes))
      BY <3>2
    <3> QED BY <3>1, <3>3
  <2> QED BY <2>1, <2>2, <2>3, <2>4, <2>5
<1>5. NoFuncs(prog.nodes, q)
  BY PlainNoFuncs
<1>6. CallsNamed(prog, DOMAIN symOf) /\ Known(prog, scopes, DOMAIN params)
  BY <1>2 DEF Named
<1>7. CallsNamed(prog, DOMAIN symOf')
  <2>1. CASE CheckParts \/ CheckVarDef
    BY <1>6, <2>1 DEF CheckParts, CheckVarDef
  <2>2. CASE CheckIdent \/ CheckFuncCall \/ CheckRet
    <3>1. \E s : Bind(Head1.node, s)
      BY <2>2 DEF CheckIdent, CheckFuncCall, CheckRet
    <3>2. DOMAIN symOf' = DOMAIN symOf \cup {Head1.node}
      BY <3>1, BoundNode
    <3>3. Node.type = "FUNC_CALL" => Node.value \in FuncNames(prog)
      BY <2>2, CallNamed DEF CheckIdent, CheckRet, Checking
    <3> QED BY <1>6, <3>2, <3>3, BoundCalls DEF Node
  <2> QED BY <2>1, <2>2
<1>8. Known(prog, scopes', DOMAIN params')
  BY <1>1, <1>6
<1> QED BY <1>1, <1>2, <1>4, <1>5, <1>7, <1>8, SameNames, NamedStep

LEMMA BlocksNamed ==
    ASSUME Inv, Reached, Named, CheckCompStmt \/ CheckFor
    PROVE  Named'
<1>1. /\ At("check") /\ Node.type # "FUNC_DEF" /\ EnterScope
      /\ UNCHANGED <<prog, params, symOf, verdict>>
  BY DEF CheckCompStmt, CheckFor, Checking
<1>2. verdict = "symbols" /\ todo # <<>> /\ ~IsFunc(prog.nodes, Head1)
  BY <1>1, CheckedNode
<1> DEFINE Kids == {k \in 1 .. (Head1.node - 1) : prog.nodes[k].type # "FUNC_DEF"}
<1>3. NodeOK(prog.nodes, Head1.node) /\ Kids \subseteq PlainNodes(prog.nodes)
  BY <1>1, CheckedNode
<1>4. PICK ns \in Seq(PlainNodes(prog.nodes)) : Visit(Checks(ns) \o <<Leave>>)
  <2>1. CASE CheckCompStmt
    <3>1. Node.stmts \in Seq(Kids) /\ Visit(Checks(Node.stmts) \o <<Leave>>)
      BY <1>3, <2>1 DEF CheckCompStmt, Checking, NodeOK, Node
    <3>2. Node.stmts \in Seq(PlainNodes(prog.nodes))
      BY <1>3, <3>1, SeqMonotonic
    <3> QED BY <3>1, <3>2
  <2>2. CASE CheckFor
    <3> DEFINE ns == <<Node.init, Node.cond, Node.step, Node.body>>
    <3>1. Visit(Checks(ns) \o <<Leave>>)
      BY <2>2 DEF CheckFor
    <3>2. Node.init \in Kids /\ Node.cond \in Kids /\ Node.step \in Kids /\ Node.body \in Kids
      BY <1>3, <2>2 DEF CheckFor, Checking, NodeOK, Node
    <3>3. ns \in Seq(PlainNodes(prog.nodes))
      <4> HIDE DEF Kids
      <4> QED BY <1>3, <3>2
    <3> HIDE DEF ns
    <3> QED BY <3>1, <3>3
  <2> QED BY <2>1, <2>2
<1> DEFINE q == Checks(ns) \o <<Leave>>
<1>5. NoFuncs(prog.nodes, q) /\ Visit(q)
  BY <1>4, ChecksFacts, PlainNoFuncs
<1> HIDE DEF q
<1>6. \A h \in DOMAIN scopes' : \E g \in DOMAIN scopes : scopes'[h] = scopes[g]
  <2> DEFINE n == Len(scopes)
  <2>1. n \in Nat \ {0} /\ DOMAIN scopes = 1 .. n /\ Scope = scopes[n] /\ IsList(scopes)
    BY <1>2, HeadFacts DEF Scope, Last, Inv, ChainOK
  <2>2. scopes' = Append(scopes, Scope)
    BY <1>1 DEF EnterScope
  <2>3. /\ DOMAIN scopes' = 1 .. (n + 1)
        /\ \A i \in 1 .. n : scopes'[i] = scopes[i]
        /\ scopes'[n + 1] = scopes[n]
    <3>1. /\ IsList(Append(scopes, Scope)) /\ Len(Append(scopes, Scope)) = Len(scopes) + 1
          /\ \A i \in 1 .. Len(scopes) : Append(scopes, Scope)[i] = scopes[i]
          /\ Append(scopes, Scope)[Len(scopes) + 1] = Scope
      BY <2>1, AppendFacts
    <3> QED BY <2>1, <2>2, <3>1, ListFacts
  <2> HIDE DEF n
  <2> QED BY <2>1, <2>3
<1>7. NamesKept(scopes, scopes') /\ Known(prog, scopes', DOMAIN params')
  <2>1. Known(prog, scopes, DOMAIN params) /\ params' = params
    BY <1>1, <1>2 DEF Named
  <2> QED BY <1>6, <2>1, CopiedScopes
<1>8. CallsNamed(prog, DOMAIN symOf')
  BY <1>1 DEF Named
<1> QED BY <1>1, <1>2, <1>5, <1>7, <1>8, NamedStep

LEMMA NothingNoFuncs == ASSUME NEW nodes PROVE NoFuncs(nodes, <<>>)
  BY ListFacts DEF NoFuncs

LEMMA LeaveNamed ==
    ASSUME Inv, Reached, Named, LeaveScope
    PROVE  Named'
<1>1. /\ verdict = "symbols" /\ todo # <<>> /\ Head1.act = "leave" /\ Visit(<<>>)
      /\ scopes' = Front(scopes) /\ UNCHANGED <<prog, params, symOf, verdict>>
  BY DEF LeaveScope, At
<1>2. ~IsFunc(prog.nodes, Head1)
  BY <1>1 DEF IsFunc
<1>3. \A h \in DOMAIN scopes' : \E g \in DOMAIN scopes : scopes'[h] = scopes[g]
  <2>1. /\ Len(scopes) \in Nat \ {0} /\ DOMAIN scopes = 1 .. Len(scopes)
        /\ IsList(scopes) /\ scopes # <<>>
    BY <1>1, HeadFacts DEF Inv, ChainOK
  <2>2. /\ IsList(Front(scopes)) /\ Len(Front(scopes)) = Len(scopes) - 1
        /\ \A i \in 1 .. (Len(scopes) - 1) : Front(scopes)[i] = scopes[i]
    BY <2>1, FrontFacts
  <2>3. DOMAIN scopes' = 1 .. (Len(scopes) - 1)
    BY <1>1, <2>2, ListFacts
  <2>4. \A h \in 1 .. (Len(scopes) - 1) : h \in DOMAIN scopes /\ scopes'[h] = scopes[h]
    BY <1>1, <2>1, <2>2
  <2> QED BY <2>3, <2>4
<1>4. NamesKept(scopes, scopes') /\ Known(prog, scopes', DOMAIN params')
  <2>1. Known(prog, scopes, DOMAIN params) /\ params' = params
    BY <1>1 DEF Named
  <2> QED BY <1>3, <2>1, CopiedScopes
<1>5. CallsNamed(prog, DOMAIN symOf')
  BY <1>1 DEF Named
<1> QED BY <1>1, <1>2, <1>4, <1>5, NothingNoFuncs, NamedStep

(* A variable or a list of constants is declared.                          *)
LEMMA DeclaresNamed ==
    ASSUME Inv, Reached, Named, DeclareVar \/ CheckEnum
    PROVE  Named'
<1>1. /\ verdict = "symbols" /\ todo # <<>> /\ Visit(<<>>)
      /\ UNCHANGED <<prog, params, verdict>>
      /\ Head1.act = "define" \/ (Head1.act = "check" /\ Node.type \in {"VAR_DEC", "ENUM"})
  BY DEF DeclareVar, CheckEnum, Checking, At
<1>2. ~IsFunc(prog.nodes, Head1)
  BY <1>1 DEF IsFunc, Node
<1>3. Len(scopes) \in Nat \ {0} /\ ChainOK(scopes, DOMAIN syms) /\ IsList(syms)
  BY <1>1, HeadFacts DEF Inv
<1>4. DOMAIN params \subseteq DOMAIN syms
  BY ParamsMade
<1>5. PICK table : /\ scopes' = Append(Front(scopes), table) /\ DOMAIN Scope \subseteq DOMAIN table
                   /\ \A x \in DOMAIN table : \/ x \in DOMAIN Scope /\ table[x] = Scope[x]
                                              \/ table[x] \notin DOMAIN syms
  <2>1. CASE DeclareVar
    <3> DEFINE table == Bound(Scope, Node.value, NextSym)
    <3>1. scopes' = Append(Front(scopes), table)
      BY <2>1 DEF DeclareVar, ScopeAdd
    <3>2. NextSym \notin DOMAIN syms
      BY <1>3, ListFacts DEF NextSym
    <3>3. DOMAIN table = DOMAIN Scope \cup {Node.value}
          /\ \A x \in DOMAIN table : table[x] = IF x = Node.value THEN NextSym ELSE Scope[x]
      BY DEF Bound
    <3> HIDE DEF table
    <3> QED BY <3>1, <3>2, <3>3
  <2>2. CASE CheckEnum
    <3> DEFINE es == Node.enums
               table == BoundAll(Scope, es)
    <3>1. scopes' = Append(Front(scopes), table) /\ At("check") /\ Node.type = "ENUM"
      BY <2>2 DEF CheckEnum, Checking
    <3>2. IsList(es)
      BY <3>1, CheckedNode DEF NodeOK, Node, IsVector, IsList
    <3>3. DOMAIN Scope \subseteq DOMAIN table
      BY DEF BoundAll
    <3>4. \A x \in DOMAIN table : \/ x \in DOMAIN Scope /\ table[x] = Scope[x]
                                  \/ table[x] \notin DOMAIN syms
      BY <1>3, <3>2, BoundAllNew
    <3> HIDE DEF table
    <3> QED BY <3>1, <3>3, <3>4
  <2> QED BY <2>1, <2>2
<1>6. Known(prog, scopes, DOMAIN params) /\ CallsNamed(prog, DOMAIN symOf)
  BY <1>1 DEF Named
<1>7. ASSUME NEW x \in DOMAIN table, table[x] \in DOMAIN params PROVE x \in FuncNames(prog)
  <2>1. x \in DOMAIN Scope /\ table[x] = Scope[x]
    BY <1>4, <1>5, <1>7
  <2>2. Scope = scopes[Len(scopes)] /\ Len(scopes) \in DOMAIN scopes
    BY <1>1, HeadFacts DEF Scope, Last
  <2> QED BY <1>6, <1>7, <2>1, <2>2 DEF Known
<1>8. NamesKept(scopes, scopes') /\ Known(prog, scopes', DOMAIN params)
  BY <1>3, <1>5, <1>6, <1>7, ChangedScope
<1>9. CallsNamed(prog, DOMAIN symOf')
  <2>1. CASE DeclareVar
    <3>1. Node.type \in {"VAR_DEC", "VAR_DEF"}
      <4>1. CASE Head1.act = "define"
        <5>1. 1 \in DOMAIN todo /\ Head1 = todo[1]
          BY <1>1 DEF Inv, Head1
        <5> QED BY <4>1, <5>1 DEF Reached, Framed, Node
      <4> QED BY <2>1, <4>1 DEF DeclareVar, Checking, At
    <3>2. DOMAIN symOf' = DOMAIN symOf \cup {Head1.node}
      BY <2>1, BoundNode DEF DeclareVar
    <3> QED BY <1>6, <3>1, <3>2, BoundCalls DEF Node
  <2>2. CASE CheckEnum
    BY <1>6, <2>2 DEF CheckEnum
  <2> QED BY <2>1, <2>2
<1> QED BY <1>1, <1>2, <1>8, <1>9, NothingNoFuncs, NamedStep

(* The next function of the program has a name no function before it had.  *)
LEMMA FuncDefNamed ==
    ASSUME Inv, Reached, Named, CheckFuncDef
    PROVE  Named'
<1> DEFINE f     == NextSym + Len(Node.params)
           keys  == [i \in 1 .. Len(Node.params) |-> Node.params[i].value]
           table == Bound(BoundAll(Scope, keys), Node.value, f)
           q     == <<Check(Node.body)>>
           k     == Len(prog.funcs)
<1>1. /\ At("check") /\ Node.type = "FUNC_DEF" /\ ~InScope(Node.value) /\ Visit(q)
      /\ scopes' = Append(Front(scopes), table)
      /\ (\E ids : params' = Bound(params, f, ids)) /\ Bind(Head1.node, f)
      /\ UNCHANGED <<prog, verdict>>
  BY DEF CheckFuncDef, Checking
<1>2. /\ verdict = "symbols" /\ todo # <<>> /\ IsFunc(prog.nodes, Head1)
      /\ NodeOK(prog.nodes, Head1.node)
  BY <1>1, CheckedNode DEF IsFunc, Node, At
<1>3. /\ Len(scopes) = 1 /\ ChainOK(scopes, DOMAIN syms) /\ IsList(syms)
      /\ DOMAIN scopes = 1 .. 1 /\ Scope = scopes[1]
  BY <1>2, HeadFacts DEF Inv, Scope, Last
<1>4. IsList(keys) /\ f \notin DOMAIN syms /\ f \notin 1 .. (Len(syms) + Len(keys))
  <2>1. IsList(Node.params)
    BY <1>1, <1>2 DEF NodeOK, Node, IsVector, IsList
  <2>2. Len(Node.params) \in Nat
    BY <2>1, ListFacts
  <2>3. keys = [i \in 1 .. Len(Node.params) |-> keys[i]]
    OBVIOUS
  <2> HIDE DEF keys
  <2>4. IsList(keys) /\ Len(keys) = Len(Node.params)
    BY <2>2, <2>3, ListOf
  <2>5. DOMAIN syms = 1 .. Len(syms) /\ Len(syms) \in Nat
    BY <1>3, ListFacts
  <2>6. PICK c, l : c = Len(Node.params) /\ l = Len(syms)
    OBVIOUS
  <2>7. f = l + 1 + c
    BY <2>6 DEF NextSym
  <2> HIDE DEF f
  <2>8. f \notin 1 .. l /\ f \notin 1 .. (l + c)
    <3>1. c \in Nat /\ l \in Nat
      BY ONLY <2>2, <2>5, <2>6
    <3> QED BY ONLY <2>7, <3>1
  <2> QED BY <2>4, <2>5, <2>6, <2>8
<1>5. DOMAIN params' = DOMAIN params \cup {f} /\ DOMAIN params \subseteq DOMAIN syms
  BY <1>1, ParamsMade DEF Bound
<1>6. PICK m \in 0 .. k : FuncsLeft(prog, todo, m) /\ NamesMet(prog, scopes, k - m)
  BY <1>2 DEF Named
<1>7. /\ m \in 1 .. k /\ Head1 = Check(prog.funcs[k + 1 - m])
      /\ FuncsLeft(prog, todo', m - 1)
  <2>1. prog.funcs \in Seq({n \in DOMAIN prog.nodes : prog.nodes[n].type = "FUNC_DEF"})
    BY SemaAssumption DEF Inv, ProgramOK, HeapOK
  <2>2. IsList(todo) /\ Head1 = todo[1]
    BY <1>2 DEF Inv, IsList, Head1
  <2>3. NoFuncs(prog.nodes, q)
    <3>1. Node.body \in PlainNodes(prog.nodes)
      BY <1>1, <1>2, CheckedNode DEF NodeOK, Node
    <3>2. Check(Node.body) \in Plain(prog.nodes)
      BY <3>1 DEF Plain, Check
    <3>3. q \in Seq(Plain(prog.nodes))
      BY <3>2
    <3> HIDE DEF q
    <3> QED BY <3>3, PlainNoFuncs
  <2> HIDE DEF q
  <2>4. /\ m \in 1 .. k /\ Head1 = Check(prog.funcs[k + 1 - m])
        /\ FuncsLeft(prog, q \o Tail(todo), m - 1)
    BY <1>2, <1>6, <2>1, <2>2, <2>3, FuncsLeftOn
  <2>5. todo' = q \o Tail(todo)
    BY <1>1 DEF Visit
  <2> QED BY <2>4, <2>5
<1>8. PICK l : l = k + 1 - m
  OBVIOUS
<1>9. Node.value = FuncName(prog, l)
  BY <1>7, <1>8 DEF Node, Check, FuncName
<1>10. /\ k \in Nat /\ l \in 1 .. k /\ l - 1 = k - m /\ k - (m - 1) = l
       /\ m - 1 \in 0 .. k /\ DOMAIN prog.funcs = 1 .. k
  <2>1. prog.funcs \in Seq({n \in DOMAIN prog.nodes : prog.nodes[n].type = "FUNC_DEF"})
    BY SemaAssumption DEF Inv, ProgramOK, HeapOK
  <2>2. k \in Nat /\ DOMAIN prog.funcs = 1 .. k
    BY <2>1
  <2> HIDE DEF k
  <2> QED BY <1>7, <1>8, <2>2
<1>11. Node.value \in FuncNames(prog)
  BY <1>9, <1>10 DEF FuncNames
<1> DEFINE old == BoundAll(Scope, keys)
<1>12. /\ DOMAIN table = DOMAIN old \cup {Node.value} /\ DOMAIN Scope \subseteq DOMAIN old
       /\ \A x \in DOMAIN table : table[x] = IF x = Node.value THEN f ELSE old[x]
       /\ \A x \in DOMAIN old : (x \in DOMAIN Scope /\ old[x] = Scope[x]) \/ old[x] \notin DOMAIN syms
       /\ \A x \in DOMAIN old : old[x] # f
  <2>1. \A x \in DOMAIN old : (x \in DOMAIN Scope /\ old[x] = Scope[x]) \/ old[x] \notin DOMAIN syms
    BY <1>3, <1>4, BoundAllNew
  <2>2. DOMAIN Scope \subseteq DOMAIN old
    BY DEF BoundAll
  <2> HIDE DEF old, f
  <2>3. DOMAIN Bound(old, Node.value, f) = DOMAIN old \cup {Node.value}
        /\ \A x \in DOMAIN old \cup {Node.value} :
             Bound(old, Node.value, f)[x] = IF x = Node.value THEN f ELSE old[x]
    BY DEF Bound
  <2>4. TableOK(old, 1 .. (Len(syms) + Len(keys)))
    <3>1. TableOK(Scope, DOMAIN syms)
      BY <1>2, ScopeFacts
    <3> QED BY <1>3, <1>4, <3>1, BoundAllFacts DEF old
  <2>5. \A x \in DOMAIN old : old[x] # f
    BY <1>4, <2>4 DEF TableOK
  <2> QED BY <2>1, <2>2, <2>3, <2>5 DEF old
<1> HIDE DEF table, old, f, keys, q, k
<1>13. PICK fs : fs = DOMAIN params'
  OBVIOUS
<1>14. Known(prog, scopes, fs)
  <2>1. Known(prog, scopes, DOMAIN params)
    BY <1>2 DEF Named
  <2>2. ASSUME NEW h \in DOMAIN scopes, NEW x \in DOMAIN scopes[h], scopes[h][x] \in fs
        PROVE  x \in FuncNames(prog)
    <3>1. scopes[h][x] \in DOMAIN syms
      BY <1>3, <2>2 DEF ChainOK, TableOK
    <3>2. scopes[h][x] \in DOMAIN params
      BY <1>4, <1>5, <1>13, <2>2, <3>1
    <3> QED BY <2>1, <3>2 DEF Known
  <2> QED BY <2>2 DEF Known
<1>15. ASSUME NEW x \in DOMAIN table, table[x] \in fs PROVE x \in FuncNames(prog)
  <2>1. CASE x = Node.value
    BY <1>11, <2>1
  <2>2. CASE x # Node.value
    <3>1. x \in DOMAIN old /\ table[x] = old[x]
      BY <1>12, <2>2
    <3>2. CASE old[x] \in DOMAIN syms
      <4>1. x \in DOMAIN scopes[1] /\ table[x] = scopes[1][x]
        BY <1>3, <1>12, <3>1, <3>2
      <4> QED BY <1>3, <1>14, <1>15, <4>1 DEF Known
    <3>3. CASE old[x] \notin DOMAIN syms
      <4>1. old[x] = f
        BY <1>5, <1>13, <1>15, <3>1, <3>3
      <4> QED BY <1>12, <3>1, <4>1
    <3> QED BY <3>2, <3>3
  <2> QED BY <2>1, <2>2
<1>16. /\ NamesKept(scopes, scopes') /\ Known(prog, scopes', fs)
       /\ DOMAIN scopes' = 1 .. 1 /\ scopes'[1] = table
  <2>1. Len(scopes) \in Nat \ {0} /\ DOMAIN Scope \subseteq DOMAIN table
    BY <1>3, <1>12
  <2>2. /\ NamesKept(scopes, scopes') /\ Known(prog, scopes', fs)
        /\ DOMAIN scopes' = 1 .. Len(scopes) /\ scopes'[Len(scopes)] = table
    BY <1>1, <1>3, <1>14, <1>15, <2>1, ChangedScope
  <2> QED BY <1>3, <2>2
<1>17. NamesMet(prog, scopes', l)
  <2>1. \A i \in 1 .. (l - 1) : FuncName(prog, i) \in DOMAIN scopes[1]
    BY <1>3, <1>6, <1>10 DEF NamesMet
  <2>2. FuncName(prog, l) \notin DOMAIN scopes[1]
    BY <1>1, <1>3, <1>9 DEF InScope, Holders
  <2>3. \A i, j \in 1 .. (l - 1) : FuncName(prog, i) = FuncName(prog, j) => i = j
    BY <1>6, <1>10 DEF NamesMet
  <2>4. l \in Nat /\ \A i \in 1 .. l : i \in 1 .. (l - 1) \/ i = l
    BY <1>10
  <2>5. \A i, j \in 1 .. l : FuncName(prog, i) = FuncName(prog, j) => i = j
    BY <2>1, <2>2, <2>3, <2>4
  <2>6. \A i \in 1 .. l : FuncName(prog, i) \in DOMAIN scopes'[1]
    BY <1>3, <1>9, <1>12, <1>16, <2>1, <2>4
  <2> QED BY <1>16, <2>5, <2>6 DEF NamesMet
<1>18. CallsNamed(prog, DOMAIN symOf')
  <2>1. DOMAIN symOf' = DOMAIN symOf \cup {Head1.node}
    BY <1>1, BoundNode
  <2>2. CallsNamed(prog, DOMAIN symOf) /\ Node = prog.nodes[Head1.node]
    BY DEF Named, Node
  <2> QED BY <1>1, <2>1, <2>2, BoundCalls
<1>19. NamesMet(prog, scopes', k - (m - 1))
  BY <1>10, <1>17
<1> QED BY <1>1, <1>2, <1>7, <1>10, <1>13, <1>16, <1>18, <1>19 DEF Named, k

(* A pass ends: with the agenda empty no function is left.                 *)
LEMMA EndNamed ==
    ASSUME Named, UNCHANGED <<prog, todo, symOf, params>>,
           \/ verdict' \in {"exit1", "crash"}
           \/ UNCHANGED <<scopes, verdict>>
           \/ verdict = "symbols" /\ todo = <<>> /\ verdict' = "types"
           \/ verdict = "types" /\ verdict' = "accepted"
    PROVE  Named'
<1>1. CallsNamed(prog, DOMAIN symOf')
  BY DEF Named
<1>2. CASE verdict' \in {"exit1", "crash"}
  BY <1>1, <1>2 DEF Named
<1>3. CASE UNCHANGED <<scopes, verdict>>
  BY <1>1, <1>3 DEF Named
<1>4. CASE verdict = "symbols" /\ todo = <<>> /\ verdict' = "types"
  <2> DEFINE k == Len(prog.funcs)
  <2>1. PICK m \in 0 .. k : FuncsLeft(prog, todo, m) /\ NamesMet(prog, scopes, k - m)
    BY <1>4 DEF Named
  <2>2. m = 0
    BY <1>4, <2>1 DEF FuncsLeft
  <2>3. \A i, j \in 1 .. k : FuncName(prog, i) = FuncName(prog, j) => i = j
    <3>1. \A i \in 1 .. k : i \in 1 .. (k - 0)
      OBVIOUS
    <3> QED BY <2>1, <2>2, <3>1 DEF NamesMet
  <2> HIDE DEF k
  <2>4. NamesMet(prog, <<>>, k)
    BY <2>3 DEF NamesMet
  <2> QED BY <1>1, <1>4, <2>4 DEF Named, k
<1>5. CASE verdict = "types" /\ verdict' = "accepted"
  BY <1>1, <1>5 DEF Named
<1> QED BY <1>2, <1>3, <1>4, <1>5

LEMMA NamedHolds == Spec => []Named
<1>1. Init => Named
  <2> SUFFICES ASSUME Init PROVE Named
    OBVIOUS
  <2> DEFINE fs == prog.funcs
             k  == Len(fs)
  <2>1. k \in Nat /\ todo = Checks(fs)
    BY SemaAssumption DEF Init, ProgramOK, HeapOK
  <2>2. todo = [i \in 1 .. k |-> Check(fs[i])]
    BY <2>1 DEF Checks
  <2> HIDE DEF k
  <2>3. Len(todo) = k /\ \A i \in 1 .. k : todo[i] = Check(fs[i])
    BY <2>1, <2>2
  <2>4. \A j \in 1 .. k : k + 1 - j \in 1 .. k
    BY <2>1
  <2>5. k \in 0 .. k /\ k <= k /\ 1 .. (k - k) = {} /\ k - k = 0
    BY <2>1
  <2>6. FuncsLeft(prog, todo, k)
    BY <2>3, <2>4, <2>5 DEF FuncsLeft, k
  <2>7. NamesMet(prog, scopes, k - k)
    BY <2>5 DEF NamesMet
  <2>8. Known(prog, scopes, DOMAIN params) /\ CallsNamed(prog, DOMAIN symOf)
    BY DEF Init, Known, CallsNamed
  <2>9. verdict = "symbols"
    BY DEF Init
  <2> QED BY <2>5, <2>6, <2>7, <2>8, <2>9 DEF Named, k
<1>2. Inv /\ Reached /\ Named /\ [Next]_vars => Named'
  <2> SUFFICES ASSUME Inv, Reached, Named, [Next]_vars PROVE Named'
    OBVIOUS
  <2>1. CASE Redeclaration \/ UndefinedIdent \/ BadCall
    BY <2>1, EndNamed DEF Redeclaration, UndefinedIdent, BadCall, Die
  <2>2. CASE SymbolsDone \/ TypeCheck
    BY <2>2, EndNamed DEF SymbolsDone, TypeCheck
  <2>3. CASE UNCHANGED vars
    BY <2>3, EndNamed DEF vars
  <2> QED BY <2>1, <2>2, <2>3, UsesNamed, BlocksNamed, LeaveNamed, DeclaresNamed, FuncDefNamed
          DEF Next, Case, Stopped
<1> QED BY <1>1, <1>2, Invariance, ReachedHolds, PTL DEF Spec

(* When the symbol pass is over, every call was met and names a function.  *)
LEMMA AllNamed ==
    ASSUME Named, verdict \in {"types", "accepted"},
           prog.funcs \in Seq({n \in DOMAIN prog.nodes : prog.nodes[n].type = "FUNC_DEF"}),
           \A n \in DOMAIN prog.nodes : prog.nodes[n].type \in Annotated => n \in DOMAIN symOf
    PROVE  NamesOK(prog)
<1>1. DOMAIN prog.funcs = 1 .. Len(prog.funcs)
  OBVIOUS
<1>2. NamesMet(prog, <<>>, Len(prog.funcs)) /\ CallsNamed(prog, DOMAIN symOf)
  BY DEF Named
<1>3. \A n \in DOMAIN prog.nodes :
        prog.nodes[n].type = "FUNC_CALL" => prog.nodes[n].value \in FuncNames(prog)
  BY <1>2 DEF CallsNamed, Annotated
<1> QED BY <1>1, <1>2, <1>3 DEF NamesMet, NamesOK

-----------------------------------------------------------------------------
(* What the invariants say.                                                *)

(* What the invariant says of each variable is its type.                   *)
LEMMA InvTypeOK == Inv => TypeOK
<1> SUFFICES ASSUME Inv PROVE TypeOK
  OBVIOUS
<1>1. ASSUME NEW i \in DOMAIN todo
      PROVE  /\ todo[i].act \in {"check", "define", "leave"}
             /\ todo[i].node \in DOMAIN prog.nodes \cup {NULL}
  <2>1. todo[i] \in Items(prog.nodes)
    BY <1>1 DEF Inv
  <2> QED BY <2>1 DEF Items, Leave
<1> QED BY <1>1 DEF Inv, TypeOK, ChainOK, TableOK

LEMMA InvLocalsApart == Inv => LocalsApart
  BY DEF Inv, Layout, LocalsApart

(* sym_check keeps its tables in order: an entry of a scope and a binding  *)
(* of a node name a symbol that was made, even the one a return looks up   *)
(* by the name of its frame, and a function has a frame and parameters.    *)
THEOREM TypeCorrect == Spec => []TypeOK
  BY Invariance, InvTypeOK, PTL

(* Whatever blocks they are in, stackframe_add never gives two locals of a *)
(* function a word in common, nor one past the size the function reserves. *)
THEOREM LocalsNeverMeet == Spec => []LocalsApart
  BY Invariance, InvLocalsApart, PTL

(* When sym_check returns without a message, every node with an annotation *)
(* has one: what type_check and gen_asm dereference was set, and what they *)
(* take for the symbol of a function is one.  No two functions have one    *)
(* name, and whoever is called is a function of the program, so that what  *)
(* gen_asm makes of these names are labels.                                *)
THEOREM HandsOverAll == Spec => []HandsOver
<1>1. Inv /\ Reached /\ Named => HandsOver
  <2> SUFFICES ASSUME Inv, Reached, Named, verdict \in {"types", "accepted"} PROVE InputOK(Checked)
    BY DEF HandsOver
  <2>1. PICK met : Followed(met)
    BY DEF Reached
  <2>2. todo = <<>> /\ met = DOMAIN prog.nodes
    BY <2>1, AllMet DEF Reached
  <2>3. ASSUME NEW n \in DOMAIN prog.nodes, prog.nodes[n].type \in Annotated
        PROVE  n \in DOMAIN symOf /\ symOf[n] \in DOMAIN syms
    <3>1. n \in DOMAIN symOf
      BY <2>1, <2>2, <2>3 DEF Followed, Waits
    <3> QED BY <3>1 DEF Inv, TableOK
  <2>4. ASSUME NEW n \in DOMAIN prog.nodes, prog.nodes[n].type \in {"FUNC_CALL", "FUNC_DEF"}
        PROVE  symOf[n] \in DOMAIN frame
    BY <2>3, <2>4 DEF Annotated, Reached, Framed
  <2>5. ProgramOK(prog)
    BY SemaAssumption DEF Inv
  <2>6. \A s \in DOMAIN frame : frame[s] \in Nat /\ params[s] \in Seq(DOMAIN syms)
    BY DEF Inv
  <2>7. NamesOK(prog)
    BY <2>3, <2>5, AllNamed DEF ProgramOK, HeapOK
  <2> QED BY <2>3, <2>4, <2>5, <2>6, <2>7 DEF InputOK, Checked, Annotated
<1> QED BY <1>1, Invariance, ReachedHolds, NamedHolds, PTL

=============================================================================
