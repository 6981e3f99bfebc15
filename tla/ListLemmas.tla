----------------------------- MODULE ListLemmas -----------------------------
(***************************************************************************)
(* What the proofs need to know of lists: a list is a sequence of whatever *)
(* it holds.                                                               *)
(***************************************************************************)
EXTENDS Integers, SequencesExt, WellFoundedInduction, TLAPS

IsList(s) == \E S : s \in Seq(S)

LEMMA ListFacts ==
    ASSUME NEW s, IsList(s)
    PROVE  /\ Len(s) \in Nat /\ DOMAIN s = 1 .. Len(s)
           /\ s # <<>> => Len(s) > 0 /\ Head(s) = s[1]
  BY DEF IsList

LEMMA ShortLists == IsList(<<>>) /\ \A x : IsList(<<x>>)
<1>1. <<>> \in Seq({})
  OBVIOUS
<1>2. ASSUME NEW x PROVE IsList(<<x>>)
  <2>1. <<x>> \in Seq({x})
    OBVIOUS
  <2> QED BY <2>1 DEF IsList
<1> QED BY <1>1, <1>2 DEF IsList

LEMMA AppendFacts ==
    ASSUME NEW s, IsList(s), NEW e
    PROVE  /\ IsList(Append(s, e))
           /\ Len(Append(s, e)) = Len(s) + 1
           /\ DOMAIN Append(s, e) = 1 .. (Len(s) + 1)
           /\ Append(s, e)[Len(s) + 1] = e
           /\ \A k \in 1 .. Len(s) : Append(s, e)[k] = s[k]
<1>1. PICK S : s \in Seq(S)
  BY DEF IsList
<1>2. s \in Seq(S \cup {e}) /\ e \in S \cup {e}
  BY <1>1
<1>3. Append(s, e) \in Seq(S \cup {e})
  BY <1>2
<1> QED BY <1>1, <1>2, <1>3 DEF IsList

LEMMA TailFacts ==
    ASSUME NEW s, IsList(s), s # <<>>
    PROVE  /\ IsList(Tail(s))
           /\ Len(Tail(s)) = Len(s) - 1
           /\ \A k \in 1 .. (Len(s) - 1) : Tail(s)[k] = s[k + 1]
<1>1. PICK S : s \in Seq(S)
  BY DEF IsList
<1>2. Tail(s) \in Seq(S)
  BY <1>1
<1> QED BY <1>1, <1>2 DEF IsList

LEMMA JoinedFacts ==
    ASSUME NEW s, NEW t, IsList(s), IsList(t)
    PROVE  /\ IsList(s \o t)
           /\ Len(s \o t) = Len(s) + Len(t)
           /\ \A k \in 1 .. Len(s) : (s \o t)[k] = s[k]
           /\ \A k \in 1 .. Len(t) : (s \o t)[Len(s) + k] = t[k]
<1>1. PICK S : s \in Seq(S)
  BY DEF IsList
<1>2. PICK U : t \in Seq(U)
  BY DEF IsList
<1> DEFINE W == S \cup U
<1>3. s \in Seq(W) /\ t \in Seq(W)
  BY <1>1, <1>2
<1> HIDE DEF W
<1>4. /\ s \o t \in Seq(W)
      /\ Len(s \o t) = Len(s) + Len(t)
      /\ \A k \in 1 .. Len(s) : (s \o t)[k] = s[k]
  BY <1>3
<1>5. ASSUME NEW k \in 1 .. Len(t)
      PROVE  (s \o t)[Len(s) + k] = t[k]
  <2>1. Len(s) \in Nat /\ Len(t) \in Nat
    BY <1>3
  <2> DEFINE j == Len(s) + k
  <2>2. j \in 1 .. (Len(s) + Len(t)) /\ j > Len(s) /\ j - Len(s) = k
    BY <2>1
  <2> HIDE DEF j
  <2>3. (s \o t)[j] = t[j - Len(s)]
    BY <1>3, <2>1, <2>2
  <2> QED BY <2>2, <2>3 DEF j
<1> QED BY <1>4, <1>5 DEF IsList

(* A list is a vector of its elements, and of any set they are in.         *)
LEMMA ElementsOf ==
    ASSUME NEW s, IsList(s), NEW T, \A k \in DOMAIN s : s[k] \in T
    PROVE  s \in Seq(T)
<1>1. PICK S : s \in Seq(S)
  BY DEF IsList
<1>2. Len(s) \in Nat /\ s \in [1 .. Len(s) -> S]
  BY <1>1
<1>3. s \in [1 .. Len(s) -> T]
  BY <1>2
<1> QED BY <1>2, <1>3

LEMMA ListIsVector ==
    ASSUME NEW s, IsList(s)
    PROVE  s \in Seq({s[i] : i \in DOMAIN s})
  BY ElementsOf

LEMMA FunctionIsList ==
    ASSUME NEW n \in Nat, NEW s, s = [k \in 1 .. n |-> s[k]]
    PROVE  IsList(s) /\ Len(s) = n
<1> DEFINE S == {s[k] : k \in 1 .. n}
<1>1. s \in [1 .. n -> S]
  OBVIOUS
<1>2. s \in Seq(S)
  BY <1>1
<1>3. Len(s) = n
  BY <1>1, <1>2
<1> QED BY <1>2, <1>3 DEF IsList

(* Two lists with the same elements are one.                               *)
LEMMA SameList ==
    ASSUME NEW s, NEW t, IsList(s), IsList(t), Len(s) = Len(t), \A k \in 1 .. Len(s) : s[k] = t[k]
    PROVE  s = t
<1>1. PICK S : s \in Seq(S)
  BY DEF IsList
<1>2. PICK U : t \in Seq(U)
  BY DEF IsList
<1>3. s = [k \in 1 .. Len(s) |-> s[k]] /\ t = [k \in 1 .. Len(t) |-> t[k]]
  BY <1>1, <1>2
<1>4. [k \in 1 .. Len(s) |-> s[k]] = [k \in 1 .. Len(t) |-> t[k]]
  OBVIOUS
<1> QED BY <1>3, <1>4

(* Adding an element, and joining what follows it.                         *)
LEMMA OneMore ==
    ASSUME NEW s, NEW t, NEW e, IsList(s), IsList(t)
    PROVE  /\ s \o <<>> = s
           /\ Append(s, e) = s \o <<e>>
           /\ Append(s, e) \o t = s \o (<<e>> \o t)
           /\ s \o <<e>> # <<>> /\ Last(s \o <<e>>) = e
<1>1. /\ IsList(<<e>>) /\ Len(<<e>>) = 1 /\ <<e>>[1] = e
      /\ IsList(<<>>) /\ Len(<<>>) = 0 /\ Len(s) \in Nat /\ Len(t) \in Nat
  BY ShortLists, ListFacts
<1> DEFINE a == Append(s, e)
           b == <<e>> \o t
           m == Len(s)
           n == Len(t)
<1>2. /\ IsList(a) /\ Len(a) = m + 1 /\ a[m + 1] = e
      /\ \A k \in 1 .. m : a[k] = s[k]
  BY AppendFacts
<1>3. /\ IsList(b) /\ Len(b) = 1 + n /\ b[1] = e
      /\ \A k \in 1 .. n : b[1 + k] = t[k]
  <2> DEFINE o == <<e>>
  <2>1. IsList(o) /\ Len(o) = 1 /\ o[1] = e /\ 1 \in 1 .. Len(o)
    BY <1>1
  <2> HIDE DEF o
  <2>2. /\ IsList(o \o t) /\ Len(o \o t) = Len(o) + Len(t)
        /\ \A k \in 1 .. Len(o) : (o \o t)[k] = o[k]
        /\ \A k \in 1 .. Len(t) : (o \o t)[Len(o) + k] = t[k]
    <3>1. IsList(o)
      BY <2>1
    <3> QED BY <3>1, JoinedFacts
  <2>3. /\ IsList(o \o t) /\ Len(o \o t) = 1 + n /\ (o \o t)[1] = e
        /\ \A k \in 1 .. n : (o \o t)[1 + k] = t[k]
    BY <2>1, <2>2
  <2> QED BY <2>3 DEF o
<1> HIDE DEF a, b
<1>4. /\ IsList(a \o t) /\ Len(a \o t) = m + 1 + n
      /\ \A k \in 1 .. (m + 1) : (a \o t)[k] = a[k]
      /\ \A k \in 1 .. n : (a \o t)[m + 1 + k] = t[k]
  <2>1. /\ IsList(a \o t) /\ Len(a \o t) = Len(a) + Len(t)
        /\ \A k \in 1 .. Len(a) : (a \o t)[k] = a[k]
        /\ \A k \in 1 .. Len(t) : (a \o t)[Len(a) + k] = t[k]
    BY <1>2, JoinedFacts
  <2> QED BY <1>2, <2>1
<1>5. /\ IsList(s \o b) /\ Len(s \o b) = m + (1 + n)
      /\ \A k \in 1 .. m : (s \o b)[k] = s[k]
      /\ \A k \in 1 .. (1 + n) : (s \o b)[m + k] = b[k]
  <2>1. /\ IsList(s \o b) /\ Len(s \o b) = Len(s) + Len(b)
        /\ \A k \in 1 .. Len(s) : (s \o b)[k] = s[k]
        /\ \A k \in 1 .. Len(b) : (s \o b)[Len(s) + k] = b[k]
    <3>1. IsList(b)
      BY <1>3
    <3> QED BY <3>1, JoinedFacts
  <2> QED BY <1>3, <2>1
<1>6. a \o t = s \o b
  <2>1. ASSUME NEW k \in 1 .. (m + 1 + n) PROVE (a \o t)[k] = (s \o b)[k]
    <3>1. CASE k \in 1 .. m
      <4>1. k \in 1 .. (m + 1)
        BY <1>1, <3>1
      <4> QED BY <1>2, <1>4, <1>5, <3>1, <4>1
    <3>2. CASE k = m + 1
      <4>1. k \in 1 .. (m + 1) /\ 1 \in 1 .. (1 + n)
        BY <1>1, <3>2
      <4> QED BY <1>2, <1>3, <1>4, <1>5, <3>2, <4>1
    <3>3. CASE k > m + 1
      <4>1. PICK j \in 1 .. n : k = m + 1 + j /\ 1 + j \in 1 .. (1 + n) /\ k = m + (1 + j)
        <5>1. k - m - 1 \in 1 .. n
          BY <1>1, <3>3
        <5>2. k = m + 1 + (k - m - 1) /\ 1 + (k - m - 1) \in 1 .. (1 + n) /\ k = m + (1 + (k - m - 1))
          BY <1>1, <3>3
        <5> QED BY <5>1, <5>2
      <4>2. (a \o t)[k] = t[j]
        BY <1>4, <4>1
      <4>3. (s \o b)[k] = b[1 + j]
        BY <1>5, <4>1
      <4> QED BY <1>3, <4>2, <4>3
    <3>4. k \in 1 .. m \/ k = m + 1 \/ k > m + 1
      BY <1>1
    <3> QED BY <3>1, <3>2, <3>3, <3>4
  <2>2. Len(a \o t) = Len(s \o b)
    BY <1>1, <1>4, <1>5
  <2> QED BY <1>4, <1>5, <2>1, <2>2, SameList
<1>7. s \o <<>> = s
  <2> DEFINE o == <<>>
  <2>1. IsList(o) /\ Len(o) = 0
    BY <1>1
  <2> HIDE DEF o
  <2>2. /\ IsList(s \o o) /\ Len(s \o o) = Len(s) + Len(o)
        /\ \A k \in 1 .. Len(s) : (s \o o)[k] = s[k]
    BY <2>1, JoinedFacts
  <2> DEFINE r == s \o o
  <2> HIDE DEF r
  <2>3. IsList(r) /\ Len(s) = Len(r) /\ \A k \in 1 .. Len(s) : s[k] = r[k]
    BY <1>1, <2>1, <2>2 DEF r
  <2>4. s = r
    BY <2>3, SameList
  <2> QED BY <2>4 DEF o, r
<1>8. a = s \o <<e>> /\ s \o <<e>> # <<>> /\ Last(s \o <<e>>) = e
  <2> DEFINE o == <<e>>
  <2>1. IsList(o) /\ Len(o) = 1 /\ o[1] = e /\ 1 \in 1 .. Len(o)
    BY <1>1
  <2> HIDE DEF o
  <2> DEFINE r == s \o o
  <2>2. /\ IsList(r) /\ Len(r) = Len(s) + Len(o)
        /\ \A k \in 1 .. Len(s) : r[k] = s[k]
        /\ \A k \in 1 .. Len(o) : r[Len(s) + k] = o[k]
    <3>1. IsList(o)
      BY <2>1
    <3> QED BY <3>1, JoinedFacts DEF r
  <2>3. IsList(r) /\ Len(r) = m + 1 /\ r[m + 1] = e /\ \A k \in 1 .. m : r[k] = s[k]
    BY <2>1, <2>2
  <2> HIDE DEF r
  <2>4. \A k \in 1 .. (m + 1) : k \in 1 .. m \/ k = m + 1
    BY <1>1
  <2>5. a = r
    BY <1>2, <2>3, <2>4, SameList
  <2>6. r # <<>> /\ Last(r) = e
    BY <1>1, <2>3 DEF Last
  <2> QED BY <2>5, <2>6 DEF o, r
<1> QED BY <1>6, <1>7, <1>8 DEF a, b

-----------------------------------------------------------------------------
(* Folds.  FoldLeft recurses over the subsets of the positions, taking the *)
(* last position of each.                                                  *)

(* A set of numbers that is not empty has a least element.                 *)
LEMMA LeastOf ==
    ASSUME NEW S \in SUBSET Nat, S # {}
    PROVE  \E j \in S : \A k \in S : j <= k
<1> DEFINE Less == {p \in Nat \X Nat : p[1] < p[2]}
<1>1. IsWellFoundedOn(Less, Nat)
  BY NatLessThanWellFounded, Zenon DEF OpToRel
<1>2. PICK j \in S : \A k \in S : ~(<<k, j>> \in Less)
  <2> HIDE DEF Less
  <2> QED BY <1>1, WFMin
<1>3. ASSUME NEW k \in S PROVE j <= k
  <2>1. k \in Nat /\ j \in Nat
    OBVIOUS
  <2>2. ~(k < j)
    BY <1>2, <2>1
  <2> QED BY <2>1, <2>2
<1> QED BY <1>3

LEMMA LastOf ==
    ASSUME NEW n \in Nat, NEW S \in SUBSET (1 .. n), S # {}
    PROVE  Max(S) \in S /\ \A k \in S : k <= Max(S)
<1> DEFINE D == {n - k : k \in S}
<1>1. D \in SUBSET Nat /\ D # {}
  <2>1. \A k \in S : n - k \in Nat
    OBVIOUS
  <2> QED BY <2>1
<1> HIDE DEF D
<1>2. PICK d \in D : \A e \in D : d <= e
  BY <1>1, LeastOf
<1>3. PICK j \in S : d = n - j
  BY DEF D
<1>4. \A k \in S : n - j <= n - k
  BY <1>2, <1>3 DEF D
<1>5. \A k \in S : j >= k
  BY <1>4
<1> QED BY <1>5 DEF Max

(* The recursion of a fold with `step' over the positions 1 .. n.          *)
IsFold(iter, n, base, step) ==
    iter = [s \in SUBSET (1 .. n) |->
                IF s = {} THEN base ELSE step[<<Max(s), iter[s \ {Max(s)}]>>]]

LEMMA FoldExists ==
    ASSUME NEW n \in Nat, NEW V, NEW base \in V, NEW step,
           \A k \in 1 .. n, v \in V : step[<<k, v>>] \in V
    PROVE  \E iter \in [SUBSET (1 .. n) -> V] : IsFold(iter, n, base, step)
<1> DEFINE Bad == {m \in 0 .. n : ~\E g \in [SUBSET (1 .. m) -> V] : IsFold(g, m, base, step)}
<1>1. ASSUME Bad # {} PROVE FALSE
  <2>1. PICK m \in Bad : \A k \in Bad : m <= k
    <3>1. Bad \in SUBSET Nat
      OBVIOUS
    <3> HIDE DEF Bad
    <3> QED BY <1>1, <3>1, LeastOf
  <2>2. /\ m \in Nat /\ m <= n
        /\ ~\E g \in [SUBSET (1 .. m) -> V] : IsFold(g, m, base, step)
    OBVIOUS
  <2>3. m # 0
    <3> DEFINE g == [s \in SUBSET (1 .. 0) |-> base]
    <3>1. SUBSET (1 .. 0) = {{}}
      OBVIOUS
    <3>2. IsFold(g, 0, base, step) /\ g \in [SUBSET (1 .. 0) -> V]
      BY <3>1 DEF IsFold
    <3> QED BY <2>2, <3>2
  <2>4. m - 1 \in 0 .. n /\ m - 1 \notin Bad
    <3> HIDE DEF Bad
    <3> QED BY <2>1, <2>2, <2>3
  <2>5. PICK g \in [SUBSET (1 .. (m - 1)) -> V] : IsFold(g, m - 1, base, step)
    BY <2>4
  <2> DEFINE h == [s \in SUBSET (1 .. m) |-> IF m \in s THEN step[<<m, g[s \ {m}]>>] ELSE g[s]]
  <2>6. ASSUME NEW s \in SUBSET (1 .. m)
        PROVE  /\ h[s] = IF s = {} THEN base ELSE step[<<Max(s), h[s \ {Max(s)}]>>]
               /\ h[s] \in V
    <3>1. CASE m \in s
      <4>1. Max(s) = m
        <5>1. Max(s) \in s /\ \A k \in s : k <= Max(s)
          BY <2>2, <3>1, LastOf
        <5>2. Max(s) \in 1 .. m /\ m <= Max(s)
          BY <3>1, <5>1
        <5> HIDE DEF Bad, h
        <5> QED BY <2>2, <5>2
      <4>2. h[s] = step[<<m, g[s \ {m}]>>] /\ h[s \ {m}] = g[s \ {m}]
        <5>1. s \ {m} \in SUBSET (1 .. m) /\ m \notin s \ {m}
          OBVIOUS
        <5> QED BY <3>1, <5>1
      <4>3. g[s \ {m}] \in V
        <5>1. s \ {m} \in SUBSET (1 .. (m - 1))
          BY <2>2
        <5> HIDE DEF Bad, h
        <5> QED BY <5>1
      <4>4. m \in 1 .. n
        BY <2>2, <2>3
      <4> HIDE DEF h, Bad
      <4> QED BY <3>1, <4>1, <4>2, <4>3, <4>4
    <3>2. CASE m \notin s
      <4>1. s \in SUBSET (1 .. (m - 1))
        BY <2>2, <2>3, <3>2
      <4>2. h[s] = g[s] /\ \A x : h[s \ {x}] = g[s \ {x}]
        BY <3>2
      <4>3. g[s] = IF s = {} THEN base ELSE step[<<Max(s), g[s \ {Max(s)}]>>]
        BY <2>5, <4>1 DEF IsFold
      <4> HIDE DEF h, Bad
      <4>4. g[s] \in V
        BY <4>1
      <4> QED BY <4>2, <4>3, <4>4
    <3> QED BY <3>1, <3>2
  <2>7. IsFold(h, m, base, step) /\ h \in [SUBSET (1 .. m) -> V]
    <3>1. h = [s \in SUBSET (1 .. m) |-> h[s]]
      OBVIOUS
    <3> HIDE DEF h
    <3> QED BY <2>6, <3>1 DEF IsFold
  <2> QED BY <2>2, <2>7
<1>2. n \in 0 .. n
  OBVIOUS
<1> QED BY <1>1, <1>2

(* The positions up to one, and the last of them.                          *)
LEMMA UpToLast ==
    ASSUME NEW k \in Nat \ {0}
    PROVE  1 .. k # {} /\ Max(1 .. k) = k /\ (1 .. k) \ {k} = 1 .. (k - 1)
<1> DEFINE s == 1 .. k
<1>1. s \in SUBSET (1 .. k) /\ s # {} /\ s \ {k} = 1 .. (k - 1) /\ k \in s /\ k \in Nat
  OBVIOUS
<1>2. Max(s) \in s /\ \A j \in s : j <= Max(s)
  <2> HIDE DEF s
  <2> QED BY <1>1, LastOf
<1>3. Max(s) = k
  <2>1. Max(s) \in 1 .. k /\ k <= Max(s)
    BY <1>1, <1>2
  <2> HIDE DEF s
  <2> QED BY <2>1
<1> QED BY <1>1, <1>3

(* What holds of the first value and is kept from each to the next holds   *)
(* of all.                                                                 *)
LEMMA AlongPositions ==
    ASSUME NEW n \in Nat, NEW V, NEW f, f[0] \in V,
           \A k \in 1 .. n : f[k - 1] \in V => f[k] \in V
    PROVE  \A k \in 0 .. n : f[k] \in V
<1> DEFINE Bad == {k \in 0 .. n : f[k] \notin V}
<1>1. ASSUME Bad # {} PROVE FALSE
  <2>1. PICK m \in Bad : \A k \in Bad : m <= k
    <3>1. Bad \in SUBSET Nat
      OBVIOUS
    <3> HIDE DEF Bad
    <3> QED BY <1>1, <3>1, LeastOf
  <2>2. m \in 1 .. n
    OBVIOUS
  <2>3. m - 1 \in 0 .. n /\ m - 1 \notin Bad
    BY <2>1, <2>2
  <2> QED BY <2>2, <2>3
<1> QED BY <1>1

-----------------------------------------------------------------------------
(* Functions of a position that recurse to positions behind it.            *)

LEMMA Downward ==
    ASSUME NEW n \in Nat, NEW S,
           \A i \in 0 .. n : (\A j \in (i + 1) .. n : j \in S) => i \in S
    PROVE  \A i \in 0 .. n : i \in S
<1> DEFINE Bad == {k \in 0 .. n : n - k \notin S}
<1>1. ASSUME Bad # {} PROVE FALSE
  <2>1. PICK m \in Bad : \A k \in Bad : m <= k
    <3>1. Bad \in SUBSET Nat
      OBVIOUS
    <3> HIDE DEF Bad
    <3> QED BY <1>1, <3>1, LeastOf
  <2>2. m \in 0 .. n /\ n - m \in 0 .. n /\ n - m \notin S
    OBVIOUS
  <2>3. ASSUME NEW j \in (n - m + 1) .. n PROVE j \in S
    <3>1. n - j \in 0 .. n /\ n - j < m /\ n - (n - j) = j
      BY <2>2
    <3>2. n - j \notin Bad
      <4> HIDE DEF Bad
      <4> QED BY <2>1, <2>2, <3>1
    <3> QED BY <3>1, <3>2
  <2> HIDE DEF Bad
  <2> QED BY <2>2, <2>3
<1>2. ASSUME NEW i \in 0 .. n PROVE i \in S
  <2>1. n - i \in 0 .. n /\ n - (n - i) = i
    OBVIOUS
  <2>2. n - i \notin Bad
    BY <1>1
  <2> QED BY <2>1, <2>2
<1> QED BY <1>2

(* A list put together from the pieces found on the way to the end.        *)
Collects(f, n, last, next, piece) ==
    f = [i \in 0 .. n |-> IF i \in last THEN piece[i] ELSE piece[i] \o f[next[i]]]

LEMMA WalkExists ==
    ASSUME NEW n \in Nat, NEW last, NEW next, NEW piece,
           \A i \in 0 .. n : i \notin last => next[i] \in (i + 1) .. n,
           \A i \in 0 .. n : IsList(piece[i])
    PROVE  \E f : Collects(f, n, last, next, piece) /\ \A i \in 0 .. n : IsList(f[i])
<1> DEFINE Right(f, k) == /\ f[k] = IF k \in last THEN piece[k] ELSE piece[k] \o f[next[k]]
                          /\ IsList(f[k])
           S == {i \in 0 .. n : \E f : \A k \in i .. n : Right(f, k)}
<1>1. ASSUME NEW i \in 0 .. n, \A j \in (i + 1) .. n : j \in S
      PROVE  i \in S
  <2>1. PICK f : \A k \in (i + 1) .. n : Right(f, k)
    <3>1. CASE i = n
      <4>1. (i + 1) .. n = {}
        BY <3>1
      <4> QED BY <4>1
    <3>2. CASE i # n
      <4>1. i + 1 \in (i + 1) .. n
        BY <3>2
      <4> QED BY <1>1, <4>1
    <3> QED BY <3>1, <3>2
  <2> DEFINE g == [k \in 0 .. n |-> IF k # i THEN f[k]
                                     ELSE IF i \in last THEN piece[i] ELSE piece[i] \o f[next[i]]]
  <2>2. ASSUME NEW k \in i .. n PROVE Right(g, k)
    <3>1. k \in 0 .. n /\ i \in Nat
      OBVIOUS
    <3>2. k \notin last => next[k] \in (i + 1) .. n /\ next[k] \in 0 .. n /\ next[k] # i
      <4>1. k \notin last => next[k] \in (k + 1) .. n
        BY <3>1
      <4> HIDE DEF S, g, Right
      <4> QED BY <3>1, <4>1
    <3>3. k \notin last => g[next[k]] = f[next[k]]
      BY <3>2
    <3>4. CASE k = i
      <4>1. g[k] = IF k \in last THEN piece[k] ELSE piece[k] \o f[next[k]]
        BY <3>1, <3>4
      <4>2. k \notin last => IsList(f[next[k]])
        BY <2>1, <3>2
      <4>3. IsList(g[k])
        <5> HIDE DEF g
        <5> QED BY <3>1, <4>1, <4>2, JoinedFacts
      <4> HIDE DEF g
      <4> QED BY <3>3, <4>1, <4>3
    <3>5. CASE k # i
      <4>1. g[k] = f[k] /\ k \in (i + 1) .. n
        BY <3>1, <3>5
      <4>2. Right(f, k)
        BY <2>1, <4>1
      <4> HIDE DEF g
      <4> QED BY <3>3, <4>1, <4>2
    <3> QED BY <3>4, <3>5
  <2> HIDE DEF g, Right
  <2> QED BY <2>2
<1>2. 0 \in S
  <2>1. \A i \in 0 .. n : i \in S
    <3> HIDE DEF S
    <3> QED BY <1>1, Downward
  <2>2. 0 \in 0 .. n
    OBVIOUS
  <2> HIDE DEF S
  <2> QED BY <2>1, <2>2
<1>3. PICK f : \A k \in 0 .. n : Right(f, k)
  BY <1>2
<1> DEFINE h == [i \in 0 .. n |-> f[i]]
<1>4. ASSUME NEW k \in 0 .. n PROVE Right(h, k)
  <2>1. k \notin last => next[k] \in 0 .. n
    <3>1. k \notin last => next[k] \in (k + 1) .. n
      OBVIOUS
    <3> HIDE DEF S, h, Right
    <3> QED BY <3>1
  <2>2. h[k] = f[k] /\ (k \notin last => h[next[k]] = f[next[k]])
    BY <2>1
  <2> HIDE DEF h
  <2> QED BY <1>3, <2>2
<1>5. h = [i \in 0 .. n |-> h[i]]
  OBVIOUS
<1> HIDE DEF h
<1>6. Collects(h, n, last, next, piece)
  BY <1>4, <1>5 DEF Collects
<1> QED BY <1>4, <1>6

=============================================================================
