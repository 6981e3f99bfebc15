---------------------------- MODULE StringsProofs ----------------------------
(***************************************************************************)
(* Proofs about the vectors and the strings made of them, for every        *)
(* capacity of a region, every number of regions, every first size of an   *)
(* array, every size of a word and of a String and every set of vectors,   *)
(* strings, values and characters.                                         *)
(*                                                                         *)
(* That arrays lie apart is not inductive without knowing that each lies   *)
(* in what the arena gave out, and that an array has room for a push needs *)
(* its size to be positive: Inv says so.  A block that arena_alloc gives   *)
(* out lies behind all it gave out before (AllocGivesFree), so an array    *)
(* moved there meets no other one (PutKeepsTable), and copying the old     *)
(* array there changes no word another vector reads (WordsElsewhere).      *)
(* The refinement needs Inv and, for each call, what it does to the        *)
(* contents of the vector it is called for and of the others.              *)
(*                                                                         *)
(* That the words of a C string stay is not inductive without knowing      *)
(* where they lie, nor is what a String says, whose characters lie in      *)
(* blocks no table lists: TextInv says that all these blocks lie in what   *)
(* the arena gave out and meet no array of a vector (Outside).  What is    *)
(* outside stays there and keeps its words whatever vector is made, grown, *)
(* pushed to or written (Spares, proved with the vectors), and a new block *)
(* is cut behind all of them (BlockWritten).  string(), string_clone() and *)
(* as_str() do many such steps in one call: they are folds, whose values   *)
(* are followed turn by turn (AppendsInTurn, WritesInTurn).                *)
(***************************************************************************)
EXTENDS Strings, SequenceTheorems, ListLemmas, TLAPS

Addresses == [region : Nat, offset : Nat]
Entries   == [array : Addresses, size : Nat \ {0}, length : Nat]
Regions   == [count : Nat, capacity : Nat]

ArenaOK(a) ==
    /\ a \in Seq(Regions)
    /\ \A r \in DOMAIN a : a[r].count <= a[r].capacity

Within(a, e) ==
    /\ e.array.region \in DOMAIN a
    /\ e.array.offset + e.size <= a[e.array.region].count

Disjoint(e, f) ==
    \/ e.array.region # f.array.region
    \/ e.array.offset + e.size <= f.array.offset
    \/ f.array.offset + f.size <= e.array.offset

EntryOK(a, e) == e \in Entries /\ e.length <= e.size /\ Within(a, e)

TableOK(a, t) ==
    /\ DOMAIN t \subseteq Handles
    /\ \A v \in DOMAIN t : EntryOK(a, t[v])
    /\ \A u, v \in DOMAIN t : u # v => Disjoint(t[u], t[v])

Inv ==
    /\ ArenaOK(arena)
    /\ TableOK(arena, vectors)
    /\ status \in {"running", "exit1", "aborted"}

-----------------------------------------------------------------------------
(* The arena.                                                              *)

(* Nobody was given a word at this address or behind it.                   *)
Free(a, address) ==
    address.region \in DOMAIN a => a[address.region].count <= address.offset

(* All that a gave out, b gave out as well.                                *)
Extended(a, b) ==
    /\ DOMAIN a \subseteq DOMAIN b
    /\ \A r \in DOMAIN a : a[r].count <= b[r].count

(* A block is cut behind all that was given out before, and inside its     *)
(* region.                                                                 *)
LEMMA AllocGivesFree ==
    ASSUME NEW a, ArenaOK(a), NEW size \in Nat
    PROVE  /\ ArenaOK(Alloc(a, size))
           /\ Extended(a, Alloc(a, size))
           /\ Top(a, size) \in Addresses
           /\ Free(a, Top(a, size))
           /\ Top(a, size).region \in DOMAIN Alloc(a, size)
           /\ Top(a, size).offset + size = Alloc(a, size)[Top(a, size).region].count
<1> DEFINE r == WithRoom(a, size)
<1>1. a \in Seq(Regions) /\ Len(a) \in Nat /\ DOMAIN a = 1 .. Len(a)
  BY DEF ArenaOK
<1>2. /\ r \in Seq(Regions) /\ r # <<>>
      /\ Len(a) <= Len(r)
      /\ \A i \in DOMAIN a : r[i] = a[i]
      /\ \A i \in DOMAIN r : r[i].count <= r[i].capacity
      /\ EndOf(r).count + size <= EndOf(r).capacity
      /\ Len(r) \in DOMAIN a \/ EndOf(r).count = 0
  <2>1. CASE Fits(a, size)
    BY <2>1, <1>1 DEF Fits, WithRoom, EndOf, ArenaOK
  <2>2. CASE ~Fits(a, size)
    <3>1. NewRegion(size) \in Regions /\ NewRegion(size).count = 0
          /\ size <= NewRegion(size).capacity
      BY ArenaAssumption DEF NewRegion, Region, Regions
    <3>2. r = Append(a, NewRegion(size))
      BY <2>2 DEF WithRoom
    <3>3. /\ r \in Seq(Regions) /\ Len(r) = Len(a) + 1
          /\ \A i \in DOMAIN a : r[i] = a[i]
          /\ r[Len(a) + 1] = NewRegion(size)
      <4> HIDE DEF r
      <4> QED BY <3>1, <3>2, <1>1
    <3> HIDE DEF r
    <3>4. DOMAIN r = 1 .. (Len(a) + 1) /\ r # <<>> /\ EndOf(r) = NewRegion(size)
      BY <3>3, <1>1 DEF EndOf
    <3>5. ASSUME NEW i \in DOMAIN r PROVE r[i].count <= r[i].capacity
      <4>1. CASE i \in DOMAIN a
        BY <4>1, <3>3 DEF ArenaOK
      <4>2. CASE i = Len(a) + 1
        BY <4>2, <3>1, <3>3 DEF Regions
      <4> QED BY <4>1, <4>2, <3>4, <1>1
    <3>6. EndOf(r).count + size <= EndOf(r).capacity
      BY <3>1, <3>4 DEF Regions
    <3> QED BY <3>1, <3>3, <3>4, <3>5, <3>6, <1>1
  <2> QED BY <2>1, <2>2
<1>3. Len(r) \in DOMAIN r /\ DOMAIN r = 1 .. Len(r) /\ Len(r) \in Nat
  <2> HIDE DEF r
  <2> QED BY <1>2
<1>4. r[Len(r)] \in Regions
  <2> HIDE DEF r
  <2> QED BY <1>2, <1>3
<1>5. Alloc(a, size) = [r EXCEPT ![Len(r)] = [r[Len(r)] EXCEPT !.count = @ + size]]
  BY DEF Alloc
<1>6. Top(a, size) = [region |-> Len(r), offset |-> EndOf(r).count]
  BY DEF Top
<1> HIDE DEF r
<1> DEFINE b == Alloc(a, size)
<1>7. /\ b \in Seq(Regions) /\ DOMAIN b = DOMAIN r
      /\ b[Len(r)].count = r[Len(r)].count + size
      /\ b[Len(r)].capacity = r[Len(r)].capacity
      /\ \A i \in DOMAIN r \ {Len(r)} : b[i] = r[i]
  BY <1>2, <1>3, <1>4, <1>5 DEF Regions
<1> HIDE DEF b
<1>8. ArenaOK(b)
  BY <1>7, <1>2, <1>3 DEF ArenaOK, EndOf
<1>9. Extended(a, b)
  <2>1. DOMAIN a \subseteq DOMAIN b
    BY <1>1, <1>2, <1>3, <1>7
  <2>2. ASSUME NEW i \in DOMAIN a PROVE a[i].count <= b[i].count
    <3>1. a[i] = r[i] /\ a[i] \in Regions /\ i \in DOMAIN r
      BY <2>1, <1>1, <1>2, <1>7
    <3> QED BY <3>1, <1>4, <1>7, SMTT(30) DEF Regions
  <2> QED BY <2>1, <2>2 DEF Extended
<1>10. Top(a, size) \in Addresses /\ Free(a, Top(a, size))
  BY <1>1, <1>2, <1>3, <1>4, <1>6 DEF Addresses, Free, EndOf, Regions, ArenaOK
<1>11. Top(a, size).region \in DOMAIN b /\ Top(a, size).offset + size = b[Top(a, size).region].count
  BY <1>3, <1>6, <1>7 DEF EndOf
<1> QED BY <1>8, <1>9, <1>10, <1>11 DEF b

(* What was extended twice was extended.                                   *)
LEMMA ExtendedTwice ==
    ASSUME NEW a, NEW b, NEW c, ArenaOK(a), ArenaOK(b), ArenaOK(c),
           Extended(a, b), Extended(b, c)
    PROVE  Extended(a, c)
<1>1. ASSUME NEW r \in DOMAIN a PROVE a[r].count <= c[r].count
  <2>1. r \in DOMAIN b /\ r \in DOMAIN c
    BY DEF Extended
  <2>2. a[r] \in Regions /\ b[r] \in Regions /\ c[r] \in Regions
    BY <2>1 DEF ArenaOK
  <2>3. a[r].count <= b[r].count /\ b[r].count <= c[r].count
    BY <2>1 DEF Extended
  <2> QED BY <2>2, <2>3 DEF Regions
<1>2. DOMAIN a \subseteq DOMAIN c
  BY DEF Extended
<1> QED BY <1>1, <1>2 DEF Extended

-----------------------------------------------------------------------------
(* The table of vectors.                                                   *)

(* What lies in an arena lies in an extension of it, and apart from what   *)
(* was free there.                                                         *)
LEMMA EntryStays ==
    ASSUME NEW a, NEW b, ArenaOK(a), ArenaOK(b), Extended(a, b), NEW e, EntryOK(a, e)
    PROVE  EntryOK(b, e)
<1>1. e.array.region \in DOMAIN b
  BY DEF EntryOK, Within, Extended
<1>2. a[e.array.region] \in Regions /\ b[e.array.region] \in Regions
  BY <1>1 DEF ArenaOK, EntryOK, Within
<1>3. a[e.array.region].count <= b[e.array.region].count
  BY DEF EntryOK, Within, Extended
<1>4. e.array.offset + e.size <= b[e.array.region].count
  BY <1>2, <1>3 DEF EntryOK, Within, Entries, Addresses, Regions
<1> QED BY <1>1, <1>4 DEF EntryOK, Within

LEMMA FreeIsApart ==
    ASSUME NEW a, ArenaOK(a), NEW e, EntryOK(a, e),
           NEW f \in Entries, Free(a, f.array)
    PROVE  Disjoint(e, f) /\ Disjoint(f, e)
<1>1. CASE e.array.region # f.array.region
  BY <1>1 DEF Disjoint
<1>2. CASE e.array.region = f.array.region
  <2>1. a[e.array.region] \in Regions
    BY DEF EntryOK, Within, ArenaOK
  <2>2. e.array.offset + e.size <= f.array.offset
    BY <1>2, <2>1 DEF EntryOK, Within, Free, Entries, Addresses, Regions
  <2> QED BY <2>2 DEF Disjoint
<1> QED BY <1>1, <1>2

(* An array put where the arena was free leaves the table in order.        *)
LEMMA PutKeepsTable ==
    ASSUME NEW a, NEW b, ArenaOK(a), ArenaOK(b), Extended(a, b),
           NEW t, TableOK(a, t), NEW v \in Handles, NEW e,
           EntryOK(b, e), Free(a, e.array),
           NEW w, DOMAIN w = DOMAIN t \cup {v}, w[v] = e,
           \A u \in DOMAIN t \ {v} : w[u] = t[u]
    PROVE  TableOK(b, w)
<1>1. \A u \in DOMAIN w : EntryOK(b, w[u])
  BY EntryStays DEF TableOK
<1>2. ASSUME NEW x \in DOMAIN w, NEW y \in DOMAIN w, x # y
      PROVE  Disjoint(w[x], w[y])
  <2>1. CASE x = v
    <3>1. y \in DOMAIN t /\ w[y] = t[y] /\ EntryOK(a, t[y])
      BY <1>2, <2>1 DEF TableOK
    <3> QED BY <2>1, <3>1, FreeIsApart DEF EntryOK
  <2>2. CASE y = v
    <3>1. x \in DOMAIN t /\ w[x] = t[x] /\ EntryOK(a, t[x])
      BY <1>2, <2>2 DEF TableOK
    <3> QED BY <2>2, <3>1, FreeIsApart DEF EntryOK
  <2>3. CASE x # v /\ y # v
    BY <1>2, <2>3 DEF TableOK
  <2> QED BY <2>1, <2>2, <2>3
<1> QED BY <1>1, <1>2 DEF TableOK

-----------------------------------------------------------------------------
(* The words of the memory.                                                *)

At(m, address) == IF address \in DOMAIN m THEN m[address] ELSE Garbage

(* What a vector with this entry holds.                                    *)
Held(m, e) == [i \in 1 .. e.length |-> At(m, Plus(e.array, i - 1))]

IsState(h) == DOMAIN h = {"arena", "mem", "vectors", "ok"}

(* A block that no array of the table meets; going from one state to       *)
(* another may leave all of them as they were.                             *)
Outside(a, t, e) == EntryOK(a, e) /\ \A v \in DOMAIN t : Disjoint(e, t[v])
Spares(h, g) ==
    \A e : Outside(h.arena, h.vectors, e) =>
               Outside(g.arena, g.vectors, e) /\ Held(g.mem, e) = Held(h.mem, e)

(* An entry moved to a block twice its size.                               *)
LEMMA EntryExcept ==
    ASSUME NEW e \in Entries, NEW x, NEW f, f = [e EXCEPT !.array = x, !.size = 2 * @]
    PROVE  f = [array |-> x, size |-> 2 * e.size, length |-> e.length]
<1> DEFINE n == 2 * e.size
<1>1. e = [array |-> e.array, size |-> e.size, length |-> e.length]
  BY DEF Entries
<1>2. f = [e EXCEPT !.array = x, !.size = n]
  OBVIOUS
<1> HIDE DEF n
<1>3. f = [array |-> x, size |-> n, length |-> e.length]
  BY <1>1, <1>2
<1> QED BY <1>3 DEF n

LEMMA PlusIs ==
    ASSUME NEW address \in Addresses, NEW i \in Nat
    PROVE  Plus(address, i) = [region |-> address.region, offset |-> address.offset + i]
BY DEF Plus, Addresses

(* A block written where the arena was free changes no word that another   *)
(* vector reads.                                                           *)
LEMMA WordsElsewhere ==
    ASSUME NEW m, NEW m2, NEW e \in Entries, e.length <= e.size,
           NEW f \in Entries, Disjoint(e, f),
           \A address : (\A i \in 0 .. (f.size - 1) : address # Plus(f.array, i))
                            => At(m2, address) = At(m, address)
    PROVE  Held(m2, e) = Held(m, e)
<1>1. ASSUME NEW i \in 1 .. e.length
      PROVE  At(m2, Plus(e.array, i - 1)) = At(m, Plus(e.array, i - 1))
  <2>1. Plus(e.array, i - 1) = [region |-> e.array.region, offset |-> e.array.offset + (i - 1)]
    BY PlusIs DEF Entries
  <2>2. ASSUME NEW j \in 0 .. (f.size - 1) PROVE Plus(e.array, i - 1) # Plus(f.array, j)
    <3>1. Plus(f.array, j) = [region |-> f.array.region, offset |-> f.array.offset + j]
      BY PlusIs DEF Entries
    <3>2. e.array.region # f.array.region \/ e.array.offset + (i - 1) # f.array.offset + j
      BY DEF Disjoint, Entries, Addresses
    <3> QED BY <2>1, <3>1, <3>2
  <2> QED BY <2>2
<1> QED BY <1>1 DEF Held

(* arena_realloc copies the block and writes nothing else.                 *)
LEMMA CopiedWords ==
    ASSUME NEW h, NEW from \in Addresses, NEW to \in Addresses,
           NEW n \in Nat
    PROVE  LET m2 == Copied(h, from, to, n) IN
           /\ \A address : (\A i \in 0 .. (n - 1) : address # Plus(to, i))
                               => At(m2, address) = At(h.mem, address)
           /\ \A i \in 0 .. (n - 1) : At(m2, Plus(to, i)) = At(h.mem, Plus(from, i))
<1> DEFINE target == {Plus(to, i) : i \in 0 .. (n - 1)}
           source(b) == Plus(from, b.offset - to.offset)
           m2 == Copied(h, from, to, n)
<1>1. m2 = [b \in DOMAIN h.mem \cup target |-> IF b \in target THEN At(h.mem, source(b)) ELSE h.mem[b]]
  BY DEF Copied, Read, At
<1>2. ASSUME NEW i \in 0 .. (n - 1) PROVE source(Plus(to, i)) = Plus(from, i)
  <2>1. Plus(to, i).offset = to.offset + i
    BY PlusIs
  <2>2. to.offset \in Nat
    BY DEF Addresses
  <2>3. (to.offset + i) - to.offset = i
    BY <2>2
  <2> QED BY <2>1, <2>3
<1> HIDE DEF source, m2
<1>3. \A i \in 0 .. (n - 1) : At(m2, Plus(to, i)) = At(h.mem, Plus(from, i))
  <2> TAKE i \in 0 .. (n - 1)
  <2>1. Plus(to, i) \in target
    OBVIOUS
  <2> HIDE DEF target
  <2> QED BY <1>1, <1>2, <2>1 DEF At
<1>4. \A address : (\A i \in 0 .. (n - 1) : address # Plus(to, i))
                      => At(m2, address) = At(h.mem, address)
  <2> SUFFICES ASSUME NEW address, \A i \in 0 .. (n - 1) : address # Plus(to, i)
               PROVE  At(m2, address) = At(h.mem, address)
    OBVIOUS
  <2>1. address \notin target
    OBVIOUS
  <2> HIDE DEF target
  <2> QED BY <1>1, <2>1 DEF At
<1> QED BY <1>3, <1>4 DEF m2

(* Writing a word changes that word.                                       *)
LEMMA WrittenWord ==
    ASSUME NEW h, IsState(h), NEW address, NEW x
    PROVE  LET g == Write(h, address, x) IN
           /\ IsState(g) /\ g.arena = h.arena /\ g.vectors = h.vectors /\ g.ok = h.ok
           /\ \A b : At(g.mem, b) = IF b = address THEN x ELSE At(h.mem, b)
<1> DEFINE m2 == [b \in DOMAIN h.mem \cup {address} |-> IF b = address THEN x ELSE h.mem[b]]
           g  == Write(h, address, x)
<1>1. IsState(g) /\ g.arena = h.arena /\ g.vectors = h.vectors /\ g.ok = h.ok /\ g.mem = m2
  BY DEF Write, IsState
<1>2. \A b : At(m2, b) = IF b = address THEN x ELSE At(h.mem, b)
  BY DEF At
<1> HIDE DEF m2, g
<1> QED BY <1>1, <1>2 DEF g

-----------------------------------------------------------------------------
(* What the operations do.                                                 *)

Kept(m, t, m2, t2, u) == u \in DOMAIN t2 /\ Held(m2, t2[u]) = Held(m, t[u])

(* vector_new makes an empty vector and leaves the others alone.           *)
LEMMA MakeFacts ==
    ASSUME NEW s, IsState(s), ArenaOK(s.arena), TableOK(s.arena, s.vectors),
           NEW v \in Handles, v \notin DOMAIN s.vectors, NEW h, h = Make(s, v)
    PROVE  /\ IsState(h) /\ ArenaOK(h.arena) /\ TableOK(h.arena, h.vectors)
           /\ DOMAIN h.vectors = DOMAIN s.vectors \cup {v}
           /\ Held(h.mem, h.vectors[v]) = <<>>
           /\ \A u \in DOMAIN s.vectors : Kept(s.mem, s.vectors, h.mem, h.vectors, u)
           /\ Spares(s, h)
<1> DEFINE a == s.arena
           m == s.mem
           t == s.vectors
           b == Alloc(a, StructWords)
           c == Alloc(b, InitSize)
           e == Fresh(Top(b, InitSize))
           w == [u \in DOMAIN t \cup {v} |-> IF u = v THEN e ELSE t[u]]
<1>1. IsState(h) /\ h.arena = c /\ h.mem = m /\ h.vectors = w
  BY DEF Make, Take, IsState
<1>2. StructWords \in Nat /\ InitSize \in Nat /\ InitSize > 0
  BY VectorAssumption
<1>3. ArenaOK(b) /\ Extended(a, b)
  BY <1>2, AllocGivesFree
<1>4. ArenaOK(c) /\ Extended(b, c)
  BY <1>2, <1>3, AllocGivesFree
<1>5. Extended(a, c)
  BY <1>3, <1>4, ExtendedTwice
<1>6. /\ Top(b, InitSize) \in Addresses
      /\ Free(b, Top(b, InitSize))
      /\ Top(b, InitSize).region \in DOMAIN c
      /\ Top(b, InitSize).offset + InitSize = c[Top(b, InitSize).region].count
  BY <1>2, <1>3, AllocGivesFree
<1> DEFINE top == Top(b, InitSize)
<1>7. c[top.region] \in Regions
  BY <1>4, <1>6 DEF ArenaOK
<1>8. Free(a, top)
  <2>1. CASE top.region \in DOMAIN a
    <3>1. /\ top.region \in DOMAIN b
          /\ a[top.region].count <= b[top.region].count
          /\ b[top.region].count <= top.offset
      BY <2>1, <1>3, <1>6 DEF Extended, Free
    <3>2. a[top.region] \in Regions /\ b[top.region] \in Regions
      BY <2>1, <3>1, <1>3 DEF ArenaOK
    <3> QED BY <3>1, <3>2, <1>6 DEF Free, Regions, Addresses
  <2> QED BY <2>1 DEF Free
<1>9. EntryOK(c, e) /\ e.array = top /\ e.length = 0
  <2> HIDE DEF b, c
  <2>1. e = [array |-> top, size |-> InitSize, length |-> 0]
    BY DEF Fresh
  <2> HIDE DEF e
  <2>2. e \in Entries
    BY <2>1, <1>2, <1>6 DEF Entries
  <2>3. Within(c, e)
    BY <2>1, <1>6, <1>7, <1>2 DEF Within, Addresses, Regions
  <2> QED BY <2>1, <2>2, <2>3, <1>2 DEF EntryOK
<1> HIDE DEF b, c, e
<1>10. /\ DOMAIN w = DOMAIN t \cup {v} /\ w[v] = e
       /\ \A u \in DOMAIN t \ {v} : w[u] = t[u]
  OBVIOUS
<1> HIDE DEF w, top
<1>11. TableOK(c, w)
  BY <1>4, <1>5, <1>8, <1>9, <1>10, PutKeepsTable
<1>12. Held(m, w[v]) = <<>>
  BY <1>9, <1>10 DEF Held
<1>13. \A u \in DOMAIN t : Kept(m, t, m, w, u)
  BY <1>10 DEF Kept
<1>14. ASSUME NEW d, Outside(a, t, d) PROVE Outside(c, w, d)
  <2>1. EntryOK(a, d) /\ EntryOK(c, d)
    BY <1>4, <1>5, <1>14, EntryStays DEF Outside
  <2>2. Disjoint(d, e)
    BY <1>8, <1>9, <2>1, FreeIsApart DEF EntryOK
  <2>3. \A u \in DOMAIN w : u = v \/ (u \in DOMAIN t /\ w[u] = t[u])
    BY <1>10
  <2> QED BY <1>10, <1>14, <2>1, <2>2, <2>3 DEF Outside
<1>15. Spares(s, h)
  BY <1>1, <1>14 DEF Spares
<1> QED BY <1>1, <1>4, <1>10, <1>11, <1>12, <1>13, <1>15

(* Doubling an array moves one vector and changes what none holds.         *)
LEMMA GrowFacts ==
    ASSUME NEW s, IsState(s), ArenaOK(s.arena), TableOK(s.arena, s.vectors),
           NEW v \in DOMAIN s.vectors, NEW h, h = Grow(s, v)
    PROVE  /\ IsState(h)
           /\ ArenaOK(h.arena) /\ TableOK(h.arena, h.vectors)
           /\ DOMAIN h.vectors = DOMAIN s.vectors
           /\ h.vectors[v].length = s.vectors[v].length
           /\ h.vectors[v].length < h.vectors[v].size
           /\ \A u \in DOMAIN s.vectors : Kept(s.mem, s.vectors, h.mem, h.vectors, u)
           /\ Spares(s, h)
<1> DEFINE a   == s.arena
           m   == s.mem
           t   == s.vectors
           old == t[v]
           n   == 2 * old.size
           to  == Top(a, n)
           b   == Alloc(a, n)
           e   == [old EXCEPT !.array = to, !.size = 2 * @]
           m2  == Copied(s, old.array, to, old.size)
           w   == [t EXCEPT ![v] = e]
<1>2. h.arena = b /\ h.mem = m2 /\ h.vectors = w /\ IsState(h)
  BY DEF Grow, Take, IsState
<1>3. EntryOK(a, old) /\ old \in Entries /\ v \in Handles
  BY DEF TableOK, EntryOK
<1>4. /\ old.array \in Addresses /\ old.size \in Nat \ {0} /\ old.length \in Nat
      /\ old.length <= old.size /\ n \in Nat /\ old.length < n
  BY <1>3 DEF EntryOK, Entries
<1>5. /\ ArenaOK(b) /\ Extended(a, b) /\ to \in Addresses /\ Free(a, to)
      /\ to.region \in DOMAIN b /\ to.offset + n = b[to.region].count
  <2> HIDE DEF n
  <2> QED BY <1>4, AllocGivesFree
<1>6. e = [array |-> to, size |-> n, length |-> old.length]
  <2>1. e = [old EXCEPT !.array = to, !.size = 2 * @] /\ old \in Entries
    BY <1>3
  <2> HIDE DEF old, to, e
  <2> QED BY <2>1, EntryExcept DEF n
<1> HIDE DEF b, e, to, n
<1>7. EntryOK(b, e) /\ e \in Entries
  <2>1. b[to.region] \in Regions
    BY <1>5 DEF ArenaOK
  <2>2. Within(b, e)
    BY <1>4, <1>5, <1>6, <2>1 DEF Within, Addresses, Regions
  <2>3. n # 0
    BY <1>4 DEF n
  <2> HIDE DEF old
  <2>4. e \in Entries
    BY <1>4, <1>5, <1>6, <2>3 DEF Entries
  <2> QED BY <1>4, <1>6, <2>2, <2>4 DEF EntryOK
<1>8. DOMAIN w = DOMAIN t /\ w[v] = e /\ \A u \in DOMAIN t \ {v} : w[u] = t[u]
  OBVIOUS
<1> HIDE DEF w
<1>9. TableOK(b, w)
  <2>1. DOMAIN w = DOMAIN t \cup {v} /\ Free(a, e.array)
    BY <1>5, <1>6, <1>8
  <2> QED BY <1>3, <1>5, <1>7, <1>8, <2>1, PutKeepsTable
<1>10. /\ \A address : (\A i \in 0 .. (old.size - 1) : address # Plus(to, i))
                            => At(m2, address) = At(m, address)
       /\ \A i \in 0 .. (old.size - 1) : At(m2, Plus(to, i)) = At(m, Plus(old.array, i))
  <2>1. old.array \in Addresses /\ old.size \in Nat
    BY <1>4
  <2> HIDE DEF old, to
  <2> QED BY <2>1, <1>5, CopiedWords DEF m2
<1> HIDE DEF m2
<1>11. Held(m2, e) = Held(m, old)
  <2>1. ASSUME NEW i \in 1 .. old.length
        PROVE  At(m2, Plus(to, i - 1)) = At(m, Plus(old.array, i - 1))
    <3>1. i - 1 \in 0 .. (old.size - 1)
      BY <1>4
    <3> QED BY <1>10, <3>1
  <2>2. e.length = old.length /\ e.array = to
    BY <1>6
  <2> QED BY <2>1, <2>2 DEF Held
<1>12. ASSUME NEW d, EntryOK(a, d) PROVE Held(m2, d) = Held(m, d) /\ Disjoint(d, e)
  <2>1. d \in Entries /\ d.length <= d.size
    BY <1>12 DEF EntryOK
  <2>2. Disjoint(d, e)
    <3>1. Free(a, e.array)
      BY <1>5, <1>6
    <3> QED BY <1>7, <1>12, <3>1, FreeIsApart
  <2>3. \A address : (\A i \in 0 .. (e.size - 1) : address # Plus(e.array, i))
                        => At(m2, address) = At(m, address)
    <3>1. e.size = n /\ e.array = to
      BY <1>6
    <3>2. 0 .. (old.size - 1) \subseteq 0 .. (e.size - 1)
      BY <1>4, <3>1 DEF n
    <3> QED BY <1>10, <3>1, <3>2
  <2> QED BY <1>7, <2>1, <2>2, <2>3, WordsElsewhere
<1>13. \A u \in DOMAIN t : Kept(m, t, m2, w, u)
  BY <1>8, <1>11, <1>12 DEF Kept, TableOK
<1>15. Spares(s, h)
  <2>1. ASSUME NEW d, Outside(a, t, d) PROVE Outside(b, w, d) /\ Held(m2, d) = Held(m, d)
    <3>1. EntryOK(a, d) /\ EntryOK(b, d)
      BY <1>5, <2>1, EntryStays DEF Outside
    <3>2. Disjoint(d, e) /\ Held(m2, d) = Held(m, d)
      BY <1>12, <3>1
    <3>3. \A u \in DOMAIN w : u = v \/ (u \in DOMAIN t /\ w[u] = t[u])
      BY <1>8
    <3> QED BY <1>8, <2>1, <3>1, <3>2, <3>3 DEF Outside
  <2> QED BY <1>2, <2>1 DEF Spares
<1>14. w[v].length = t[v].length /\ w[v].length < w[v].size
  BY <1>4, <1>6, <1>8
<1> QED BY <1>2, <1>5, <1>8, <1>9, <1>13, <1>14, <1>15

(* Writing into the array of a vector is not seen in another.              *)
LEMMA WriteFacts ==
    ASSUME NEW h, IsState(h), TableOK(h.arena, h.vectors), NEW v \in DOMAIN h.vectors,
           NEW i \in Nat, i < h.vectors[v].size, NEW x, NEW g, g = Write(h, Place(h, v, i), x)
    PROVE  /\ IsState(g) /\ g.arena = h.arena /\ g.vectors = h.vectors /\ g.ok = h.ok
           /\ \A u \in DOMAIN h.vectors \ {v} :
                  Held(g.mem, h.vectors[u]) = Held(h.mem, h.vectors[u])
           /\ \A j \in Nat : At(g.mem, Plus(h.vectors[v].array, j)) =
                  IF j = i THEN x ELSE At(h.mem, Plus(h.vectors[v].array, j))
           /\ Spares(h, g)
<1> DEFINE t == h.vectors
           m == h.mem
           p == Plus(t[v].array, i)
<1>1. Place(h, v, i) = p
  BY DEF Place
<1>2. /\ IsState(g) /\ g.arena = h.arena /\ g.vectors = t /\ g.ok = h.ok
      /\ \A b : At(g.mem, b) = IF b = p THEN x ELSE At(m, b)
  BY <1>1, WrittenWord
<1>3. t[v] \in Entries /\ t[v].array \in Addresses /\ t[v].size \in Nat
  BY DEF TableOK, EntryOK, Entries
<1> HIDE DEF m
<1>4. ASSUME NEW j \in Nat
      PROVE  At(g.mem, Plus(t[v].array, j)) = IF j = i THEN x ELSE At(m, Plus(t[v].array, j))
  <2>1. Plus(t[v].array, j) = p <=> j = i
    <3>1. Plus(t[v].array, j) = [region |-> t[v].array.region, offset |-> t[v].array.offset + j]
      BY <1>3, PlusIs
    <3>2. p = [region |-> t[v].array.region, offset |-> t[v].array.offset + i]
      BY <1>3, PlusIs
    <3>3. t[v].array.offset \in Nat
      BY <1>3 DEF Addresses
    <3> HIDE DEF p
    <3> QED BY <3>1, <3>2, <3>3
  <2> QED BY <1>2, <2>1
<1>5. ASSUME NEW d, EntryOK(h.arena, d), Disjoint(d, t[v]) PROVE Held(g.mem, d) = Held(m, d)
  <2>1. d \in Entries /\ d.length <= d.size
    BY <1>5 DEF EntryOK
  <2>2. i \in 0 .. (t[v].size - 1)
    BY <1>3
  <2>3. \A b : (\A j \in 0 .. (t[v].size - 1) : b # Plus(t[v].array, j))
                  => At(g.mem, b) = At(m, b)
    BY <1>2, <2>2
  <2> QED BY <1>3, <1>5, <2>1, <2>3, WordsElsewhere
<1>6. ASSUME NEW u \in DOMAIN t \ {v} PROVE Held(g.mem, t[u]) = Held(m, t[u])
  BY <1>5 DEF TableOK
<1>7. Spares(h, g)
  BY <1>2, <1>5 DEF Spares, Outside, m
<1> QED BY <1>2, <1>4, <1>6, <1>7 DEF m

(* What a vector holds is a sequence.                                      *)
Anything(m, e) == {At(m, Plus(e.array, i - 1)) : i \in 1 .. e.length}

LEMMA HeldIsSeq ==
    ASSUME NEW m, NEW e, e.length \in Nat
    PROVE  /\ Held(m, e) \in Seq(Anything(m, e))
           /\ Len(Held(m, e)) = e.length
           /\ DOMAIN Held(m, e) = 1 .. e.length
<1>1. \A i \in 1 .. e.length : At(m, Plus(e.array, i - 1)) \in Anything(m, e)
  BY DEF Anything
<1>2. Held(m, e) \in Seq(Anything(m, e))
  BY <1>1, IsASeq DEF Held
<1>3. DOMAIN Held(m, e) = 1 .. e.length
  BY DEF Held
<1> QED BY <1>2, <1>3

(* vector_push appends to one vector and leaves the others alone.          *)
LEMMA PushFacts ==
    ASSUME NEW s, IsState(s), ArenaOK(s.arena), TableOK(s.arena, s.vectors),
           NEW v \in DOMAIN s.vectors, NEW x, NEW h, h = Push(s, v, x)
    PROVE  /\ IsState(h) /\ ArenaOK(h.arena) /\ TableOK(h.arena, h.vectors)
           /\ DOMAIN h.vectors = DOMAIN s.vectors
           /\ Held(h.mem, h.vectors[v]) = Append(Held(s.mem, s.vectors[v]), x)
           /\ \A u \in DOMAIN s.vectors \ {v} : Kept(s.mem, s.vectors, h.mem, h.vectors, u)
           /\ Spares(s, h)
<1> DEFINE m == s.mem
           t == s.vectors
           g == IF Full(s, v) THEN Grow(s, v) ELSE s
           n == g.vectors[v].length
           w == Write(g, Place(g, v, n), x)
<1>1. t[v] \in Entries /\ t[v].length \in Nat /\ t[v].length <= t[v].size /\ t[v].size \in Nat
  BY DEF TableOK, EntryOK, Entries
<1>3. /\ IsState(g)
      /\ ArenaOK(g.arena) /\ TableOK(g.arena, g.vectors)
      /\ DOMAIN g.vectors = DOMAIN t
      /\ g.vectors[v].length = t[v].length
      /\ g.vectors[v].length < g.vectors[v].size
      /\ \A u \in DOMAIN t : Kept(m, t, g.mem, g.vectors, u)
      /\ Spares(s, g)
  <2>1. CASE Full(s, v)
    <3>1. g = Grow(s, v)
      BY <2>1
    <3> HIDE DEF g
    <3> QED BY <3>1, GrowFacts
  <2>2. CASE ~Full(s, v)
    <3>1. g = s
      BY <2>2
    <3> HIDE DEF g
    <3>2. t[v].length < t[v].size
      BY <2>2, <1>1 DEF Full
    <3>3. Spares(s, s)
      BY DEF Spares
    <3> QED BY <3>1, <3>2, <3>3 DEF Kept
  <2> HIDE DEF g
  <2> QED BY <2>1, <2>2
<1> HIDE DEF g
<1> DEFINE gt == g.vectors
           e  == [gt[v] EXCEPT !.length = @ + 1]
<1>4. /\ IsState(w) /\ w.arena = g.arena /\ w.vectors = gt
      /\ \A u \in DOMAIN gt \ {v} : Held(w.mem, gt[u]) = Held(g.mem, gt[u])
      /\ \A j \in Nat : At(w.mem, Plus(gt[v].array, j)) =
             IF j = n THEN x ELSE At(g.mem, Plus(gt[v].array, j))
      /\ Spares(g, w)
  <2>1. n \in Nat /\ v \in DOMAIN gt
    BY <1>1, <1>3
  <2> HIDE DEF n, gt
  <2>2. IsState(g) /\ gt = g.vectors /\ TableOK(g.arena, gt) /\ n < gt[v].size
    BY <1>3 DEF n, gt
  <2>3. w = Write(g, Place(g, v, n), x)
    OBVIOUS
  <2> HIDE DEF w
  <2>4. IsState(w) /\ w.arena = g.arena /\ w.vectors = gt
    BY ONLY <2>1, <2>2, <2>3, WriteFacts
  <2>5. \A u \in DOMAIN gt \ {v} : Held(w.mem, gt[u]) = Held(g.mem, gt[u])
    BY ONLY <2>1, <2>2, <2>3, WriteFacts
  <2>6. \A j \in Nat : At(w.mem, Plus(gt[v].array, j)) =
            IF j = n THEN x ELSE At(g.mem, Plus(gt[v].array, j))
    BY ONLY <2>1, <2>2, <2>3, WriteFacts
  <2>7. Spares(g, w)
    BY ONLY <2>1, <2>2, <2>3, WriteFacts
  <2> QED BY <2>4, <2>5, <2>6, <2>7
<1> HIDE DEF w
<1>5. h = [w EXCEPT !.vectors[v].length = @ + 1]
  BY DEF Push, w, g
<1>6. IsState(h) /\ h.arena = g.arena /\ h.mem = w.mem /\ h.vectors = [gt EXCEPT ![v] = e]
  <2> HIDE DEF gt
  <2> QED BY <1>4, <1>5 DEF IsState
<1>7. gt[v] \in Entries /\ n \in Nat /\ n < gt[v].size /\ gt[v].size \in Nat /\ EntryOK(g.arena, gt[v])
  BY <1>3 DEF TableOK, EntryOK, Entries
<1>8. e.array = gt[v].array /\ e.size = gt[v].size /\ e.length = n + 1 /\ e \in Entries
  BY <1>7 DEF Entries
<1> DEFINE ht == [gt EXCEPT ![v] = e]
<1>9. DOMAIN ht = DOMAIN t /\ ht[v] = e /\ \A u \in DOMAIN t \ {v} : ht[u] = gt[u]
  BY <1>3
<1> HIDE DEF e, ht, gt
<1>10. TableOK(g.arena, ht)
  <2>1. EntryOK(g.arena, e)
    BY <1>7, <1>8 DEF EntryOK, Within
  <2>2. \A u \in DOMAIN ht : EntryOK(g.arena, ht[u]) /\ ht[u].array = gt[u].array /\ ht[u].size = gt[u].size
    BY <1>3, <1>8, <1>9, <2>1 DEF TableOK, gt
  <2>3. \A x1, y1 \in DOMAIN ht : x1 # y1 => Disjoint(ht[x1], ht[y1])
    BY <1>3, <1>9, <2>2 DEF TableOK, Disjoint, gt
  <2> QED BY <1>3, <1>9, <2>2, <2>3 DEF TableOK, gt
<1>11. Held(w.mem, e) = Append(Held(m, t[v]), x)
  <2> DEFINE old == Held(g.mem, gt[v])
             new == Held(w.mem, e)
  <2>1. old = Held(m, t[v])
    BY <1>3 DEF Kept, gt
  <2>2. old \in Seq(Anything(g.mem, gt[v])) /\ Len(old) = n /\ DOMAIN old = 1 .. n
    BY <1>7, HeldIsSeq DEF gt
  <2>3. \A i \in 1 .. n : old[i] = At(g.mem, Plus(gt[v].array, i - 1))
    BY DEF Held, gt
  <2>4. DOMAIN new = 1 .. (n + 1)
        /\ \A i \in 1 .. (n + 1) : new[i] = At(w.mem, Plus(gt[v].array, i - 1))
    BY <1>8 DEF Held
  <2>5. \A i \in 1 .. (n + 1) : new[i] = IF i = n + 1 THEN x ELSE old[i]
    <3> TAKE i \in 1 .. (n + 1)
    <3>1. i - 1 \in Nat /\ (i - 1 = n <=> i = n + 1) /\ (i # n + 1 => i \in 1 .. n)
      BY <1>7
    <3> HIDE DEF old, new, n
    <3> QED BY <3>1, <2>3, <2>4, <1>4
  <2>6. new = [i \in 1 .. (n + 1) |-> IF i = n + 1 THEN x ELSE old[i]]
    <3>1. new = [i \in DOMAIN new |-> new[i]]
      BY DEF Held
    <3> HIDE DEF old, new, n
    <3> QED BY <3>1, <2>4, <2>5
  <2>7. Append(old, x) = [i \in 1 .. (n + 1) |-> IF i = n + 1 THEN x ELSE old[i]]
    <3> DEFINE S == Anything(g.mem, gt[v]) \cup {x}
    <3> HIDE DEF old, n
    <3>1. old \in Seq(S) /\ x \in S /\ n \in Nat
      BY <2>2, <1>7, SeqMonotonic
    <3> HIDE DEF S
    <3>2. /\ Append(old, x) \in Seq(S) /\ Len(Append(old, x)) = n + 1
          /\ \A i \in 1 .. n : Append(old, x)[i] = old[i]
          /\ Append(old, x)[n + 1] = x
      BY <2>2, <3>1, AppendProperties
    <3>3. Append(old, x) \in [1 .. (n + 1) -> S]
      BY <3>2, LenProperties
    <3>4. \A i \in 1 .. (n + 1) : Append(old, x)[i] = IF i = n + 1 THEN x ELSE old[i]
      BY <3>1, <3>2
    <3> QED BY <3>3, <3>4
  <2> HIDE DEF old, new, n
  <2> QED BY <2>1, <2>6, <2>7 DEF old, new
<1>12. \A u \in DOMAIN t \ {v} : Kept(m, t, w.mem, ht, u)
  BY <1>3, <1>4, <1>9 DEF Kept, gt
<1>13. h.vectors = ht
  BY <1>6 DEF ht
<1>14. Spares(w, h)
  <2>1. \A d : Disjoint(d, gt[v]) => Disjoint(d, e)
    BY <1>8 DEF Disjoint
  <2>2. \A u \in DOMAIN ht : u \in DOMAIN gt /\ (u = v \/ ht[u] = gt[u])
    BY <1>3, <1>9 DEF gt
  <2>3. \A d : Outside(g.arena, gt, d) => Outside(g.arena, ht, d)
    BY <1>9, <2>1, <2>2 DEF Outside
  <2> QED BY <1>4, <1>6, <1>13, <2>3 DEF Spares
<1>15. Spares(s, h)
  BY <1>3, <1>4, <1>14 DEF Spares
<1> QED BY <1>3, <1>6, <1>9, <1>10, <1>11, <1>12, <1>13, <1>15

-----------------------------------------------------------------------------
(* The steps.                                                              *)

LEMMA HeapIsState ==
    IsState(Heap) /\ arena = Heap.arena /\ mem = Heap.mem /\ vectors = Heap.vectors
BY DEF Heap, IsState

LEMMA ContentsHeld ==
    /\ \A v : Contents(v) = Held(mem, vectors[v])
    /\ \A v : Contents(v)' = Held(mem', vectors'[v])
BY DEF Contents, Held, Read, At, Heap, Place

Same == UNCHANGED <<result, status>>

(* What Lists calls OnlyOn: the other vectors are there, or not, as they   *)
(* were, and hold what they held.                                          *)
LEMMA OnlyOnFacts ==
    ASSUME NEW l, Same,
           \A u \in Handles \ {l} : u \in DOMAIN vectors' <=> u \in DOMAIN vectors,
           \A u \in DOMAIN vectors \ {l} : Kept(mem, vectors, mem', vectors', u)
    PROVE  Abstract!OnlyOn(l)
BY ContentsHeld DEF Abstract!OnlyOn, Abstract!MadeNow, Abstract!Made, Live, Kept, Same

(* A call on one vector that the memory had room for.                      *)
LEMMA UseIsNext ==
    ASSUME Running, NEW l \in Handles, Abstract!Use(l)
    PROVE  Abstract!Next
BY DEF Abstract!Next, Running

LEMMA GivingUpIsNext ==
    ASSUME Inv, Running, status' \in {"exit1", "aborted"}, UNCHANGED <<arena, mem, vectors, result>>
    PROVE  Inv' /\ Abstract!Next
<1>1. Inv'
  BY DEF Inv
<1>2. [v \in Live |-> Contents(v)]' = [v \in Live |-> Contents(v)]
  BY ContentsHeld DEF Live
<1>3. Abstract!GiveUp
  BY <1>2 DEF Abstract!GiveUp
<1> QED BY <1>1, <1>3 DEF Abstract!Next, Running

LEMMA NewStep ==
    ASSUME Inv, VectorNew
    PROVE  Inv' /\ Abstract!Next
<1>1. PICK v \in Handles \ Live : Becomes(Make(Heap, v))
  BY DEF VectorNew
<1> DEFINE h == Make(Heap, v)
<1>2. CASE ~h.ok
  BY <1>1, <1>2, GivingUpIsNext DEF VectorNew, Becomes
<1>3. CASE h.ok
  <2>1. arena' = h.arena /\ mem' = h.mem /\ vectors' = h.vectors /\ Same
    BY <1>1, <1>3 DEF VectorNew, Becomes, Same
  <2>2. /\ ArenaOK(h.arena) /\ TableOK(h.arena, h.vectors)
        /\ DOMAIN h.vectors = DOMAIN vectors \cup {v}
        /\ Held(h.mem, h.vectors[v]) = <<>>
        /\ \A u \in DOMAIN vectors : Kept(mem, vectors, h.mem, h.vectors, u)
    <3>1. ArenaOK(arena) /\ TableOK(arena, vectors) /\ v \in Handles /\ v \notin DOMAIN vectors
      BY <1>1 DEF Inv, Live
    <3>2. h = Make(Heap, v)
      OBVIOUS
    <3> HIDE DEF h
    <3> QED BY ONLY <3>1, <3>2, HeapIsState, MakeFacts
  <2> HIDE DEF h
  <2>3. Inv'
    BY <2>1, <2>2 DEF Inv, Same
  <2>4. Abstract!OnlyOn(v)
    BY <2>1, <2>2, OnlyOnFacts
  <2>5. Abstract!New(v)
    <3>1. v \notin Live /\ v \in Live' /\ Contents(v)' = <<>>
      BY <2>1, <2>2, ContentsHeld DEF Live
    <3> QED BY <3>1 DEF Abstract!New, Abstract!Made, Abstract!MadeNow
  <2> QED BY <2>3, <2>4, <2>5, UseIsNext DEF Abstract!Use, VectorNew
<1> QED BY <1>2, <1>3

LEMMA PushStep ==
    ASSUME Inv, VectorPush
    PROVE  Inv' /\ Abstract!Next
<1>1. PICK v \in Live, x \in Values : Becomes(Push(Heap, v, x))
  BY DEF VectorPush
<1> DEFINE h == Push(Heap, v, x)
<1>2. CASE ~h.ok
  BY <1>1, <1>2, GivingUpIsNext DEF VectorPush, Becomes
<1>3. CASE h.ok
  <2>1. arena' = h.arena /\ mem' = h.mem /\ vectors' = h.vectors /\ Same
    BY <1>1, <1>3 DEF VectorPush, Becomes, Same
  <2>2. /\ ArenaOK(h.arena) /\ TableOK(h.arena, h.vectors)
        /\ DOMAIN h.vectors = DOMAIN vectors
        /\ Held(h.mem, h.vectors[v]) = Append(Held(mem, vectors[v]), x)
        /\ \A u \in DOMAIN vectors \ {v} : Kept(mem, vectors, h.mem, h.vectors, u)
    <3>1. ArenaOK(arena) /\ TableOK(arena, vectors) /\ v \in DOMAIN vectors
      BY <1>1 DEF Inv, Live
    <3>2. h = Push(Heap, v, x)
      OBVIOUS
    <3> HIDE DEF h
    <3>3. ArenaOK(h.arena) /\ TableOK(h.arena, h.vectors) /\ DOMAIN h.vectors = DOMAIN vectors
      BY ONLY <3>1, <3>2, HeapIsState, PushFacts
    <3>4. Held(h.mem, h.vectors[v]) = Append(Held(mem, vectors[v]), x)
      BY ONLY <3>1, <3>2, HeapIsState, PushFacts
    <3>5. \A u \in DOMAIN vectors \ {v} : Kept(mem, vectors, h.mem, h.vectors, u)
      BY ONLY <3>1, <3>2, HeapIsState, PushFacts
    <3> QED BY <3>3, <3>4, <3>5
  <2> HIDE DEF h
  <2>3. Inv'
    BY <2>1, <2>2 DEF Inv, Same
  <2>4. Abstract!OnlyOn(v) /\ v \in Handles
    BY <1>1, <2>1, <2>2, OnlyOnFacts DEF Inv, TableOK, Live
  <2>5. Abstract!Push(v)
    <3>1. v \in Live /\ v \in Live' /\ Contents(v)' = Append(Contents(v), x)
      BY <1>1, <2>1, <2>2, ContentsHeld DEF Live
    <3> QED BY <3>1 DEF Abstract!Push, Abstract!Made, Abstract!MadeNow
  <2> QED BY <2>3, <2>4, <2>5, UseIsNext DEF Abstract!Use, VectorPush
<1> QED BY <1>2, <1>3

LEMMA SetStep ==
    ASSUME Inv, VectorSet
    PROVE  Inv' /\ Abstract!Next
<1>0. PICK v \in Live : \E i \in 0 .. vectors[v].length, x \in Values :
          \/ /\ InRange(v, i)
             /\ Becomes(Write(Heap, Place(Heap, v, i), x))
             /\ UNCHANGED result
          \/ ~InRange(v, i) /\ OutOfRange
  BY DEF VectorSet
<1>1. PICK i \in 0 .. vectors[v].length, x \in Values :
          \/ /\ InRange(v, i)
             /\ Becomes(Write(Heap, Place(Heap, v, i), x))
             /\ UNCHANGED result
          \/ ~InRange(v, i) /\ OutOfRange
  BY <1>0
<1>2. CASE ~InRange(v, i)
  BY <1>1, <1>2, GivingUpIsNext DEF VectorSet, OutOfRange
<1>3. CASE InRange(v, i)
  <2> DEFINE g == Write(Heap, Place(Heap, v, i), x)
             e == vectors[v]
  <2>1. /\ TableOK(arena, vectors) /\ v \in DOMAIN vectors /\ v \in Handles
        /\ e.length \in Nat /\ i \in Nat /\ i < e.length /\ i < e.size
    BY <1>3 DEF Inv, TableOK, EntryOK, Entries, Live, InRange
  <2>2. IsState(g) /\ g.arena = arena /\ g.vectors = vectors /\ g.ok
    <3>1. IsState(Heap) /\ Heap.arena = arena /\ Heap.vectors = vectors /\ Heap.ok
      BY DEF Heap, IsState
    <3> QED BY <3>1 DEF Write, IsState
  <2>3. g = Write(Heap, Place(Heap, v, i), x)
    OBVIOUS
  <2> HIDE DEF g
  <2>4. \A u \in DOMAIN vectors \ {v} : Held(g.mem, vectors[u]) = Held(mem, vectors[u])
    BY ONLY <2>1, <2>3, HeapIsState, WriteFacts
  <2>5. \A j \in Nat : At(g.mem, Plus(vectors[v].array, j)) =
            IF j = i THEN x ELSE At(mem, Plus(vectors[v].array, j))
    BY ONLY <2>1, <2>3, HeapIsState, WriteFacts
  <2>6. arena' = arena /\ mem' = g.mem /\ vectors' = vectors /\ Same
    BY <1>1, <1>3, <2>2, <2>3 DEF VectorSet, Becomes, Same
  <2>7. Inv'
    BY <2>6 DEF Inv, Same
  <2>8. Abstract!OnlyOn(v)
    BY <2>4, <2>6, OnlyOnFacts DEF Kept
  <2>9. Abstract!Set(v)
    <3> DEFINE old == Held(mem, e)
               new == Held(g.mem, e)
    <3>1. new = [old EXCEPT ![i + 1] = x]
      <4>1. ASSUME NEW j \in 1 .. e.length
            PROVE  new[j] = IF j = i + 1 THEN x ELSE old[j]
        <5>1. j - 1 \in Nat /\ (j - 1 = i <=> j = i + 1)
          BY <2>1
        <5>2. new[j] = At(g.mem, Plus(e.array, j - 1)) /\ old[j] = At(mem, Plus(e.array, j - 1))
          BY DEF Held
        <5> HIDE DEF new, old
        <5> QED BY <2>5, <5>1, <5>2
      <4>2. new = [j \in 1 .. e.length |-> new[j]] /\ DOMAIN old = 1 .. e.length
        BY DEF Held
      <4>3. old = [j \in 1 .. e.length |-> old[j]]
        BY DEF Held
      <4> HIDE DEF new, old
      <4> QED BY <4>1, <4>2, <4>3
    <3>2. i + 1 \in DOMAIN old
      BY <2>1 DEF Held
    <3>3. v \in Live /\ v \in Live' /\ Contents(v) = old /\ Contents(v)' = new
      BY <2>1, <2>6, ContentsHeld DEF Live
    <3> HIDE DEF old, new
    <3> QED BY <3>1, <3>2, <3>3 DEF Abstract!Set, Abstract!Made, Abstract!MadeNow
  <2> QED BY <2>1, <2>7, <2>8, <2>9, UseIsNext DEF Abstract!Use, VectorSet
<1> QED BY <1>2, <1>3

LEMMA GetStep ==
    ASSUME Inv, VectorGet
    PROVE  Inv' /\ Abstract!Next
<1>0. PICK v \in Live : \E i \in 0 .. vectors[v].length :
          \/ /\ InRange(v, i)
             /\ result' = <<Read(Heap, Place(Heap, v, i))>>
             /\ UNCHANGED <<arena, mem, vectors, status>>
          \/ ~InRange(v, i) /\ OutOfRange
  BY DEF VectorGet
<1>1. PICK i \in 0 .. vectors[v].length :
          \/ /\ InRange(v, i)
             /\ result' = <<Read(Heap, Place(Heap, v, i))>>
             /\ UNCHANGED <<arena, mem, vectors, status>>
          \/ ~InRange(v, i) /\ OutOfRange
  BY <1>0
<1>2. CASE ~InRange(v, i)
  BY <1>1, <1>2, GivingUpIsNext DEF VectorGet, OutOfRange
<1>3. CASE InRange(v, i)
  <2>1. Inv'
    BY <1>1, <1>3 DEF Inv
  <2>2. vectors[v].length \in Nat /\ i + 1 \in 1 .. vectors[v].length /\ (i + 1) - 1 = i
    BY <1>3 DEF Inv, TableOK, EntryOK, Entries, Live, InRange
  <2>3. i + 1 \in DOMAIN Contents(v) /\ Contents(v)[i + 1] = Read(Heap, Place(Heap, v, i))
    BY <2>2 DEF Contents
  <2>4. [u \in Live |-> Contents(u)]' = [u \in Live |-> Contents(u)]
    BY <1>1, <1>3, ContentsHeld DEF Live
  <2>5. Abstract!Get
    BY <1>1, <1>3, <2>3, <2>4 DEF Abstract!Get
  <2> QED BY <2>1, <2>5 DEF Abstract!Next, VectorGet, Running
<1> QED BY <1>2, <1>3

LEMMA FreeStep ==
    ASSUME Inv, ArenaFree
    PROVE  Inv' /\ Abstract!Next
<1>1. ArenaOK(<<>>)
  BY DEF ArenaOK
<1>2. DOMAIN vectors' = {}
  BY DEF ArenaFree
<1>3. Inv'
  BY <1>1, <1>2 DEF Inv, TableOK, ArenaFree
<1>4. Abstract!FreeAll
  BY <1>2 DEF Abstract!FreeAll, ArenaFree, Live
<1> QED BY <1>3, <1>4 DEF Abstract!Next, ArenaFree, Running

LEMMA StepFacts ==
    ASSUME Inv, [Next]_vars
    PROVE  Inv' /\ [Abstract!Next]_Abstract!vars
<1>1. CASE Next
  BY <1>1, NewStep, PushStep, SetStep, GetStep, FreeStep DEF Next
<1>2. CASE UNCHANGED vars
  <2>1. Inv'
    BY <1>2 DEF Inv, vars
  <2>2. [u \in Live |-> Contents(u)]' = [u \in Live |-> Contents(u)]
    BY <1>2, ContentsHeld DEF Live, vars
  <2> QED BY <1>2, <2>1, <2>2 DEF Abstract!vars, vars
<1> QED BY <1>1, <1>2

LEMMA InitFacts ==
    ASSUME Init
    PROVE  Inv /\ Abstract!Init
<1>1. ArenaOK(<<>>)
  BY DEF ArenaOK
<1>2. DOMAIN vectors = {}
  BY DEF Init
<1>3. Inv
  BY <1>1, <1>2 DEF Inv, TableOK, Init
<1>4. [v \in Live |-> Contents(v)] = [l \in {} |-> <<>>]
  BY <1>2 DEF Live
<1> QED BY <1>3, <1>4 DEF Abstract!Init, Init

-----------------------------------------------------------------------------
(* The theorems.                                                           *)

LEMMA InvHolds == Spec => []Inv
<1>1. Init => Inv
  BY InitFacts
<1>2. Inv /\ [Next]_vars => Inv'
  BY StepFacts
<1> QED BY <1>1, <1>2, PTL DEF Spec

(* The arena never gives out more than it has, and no vector is longer     *)
(* than its array: vector_push grows it first.                             *)
THEOREM TypeCorrect == Spec => []TypeOK
<1>1. Inv => TypeOK
  BY DEF Inv, ArenaOK, TableOK, EntryOK, Entries, Within, TypeOK, Live
<1> QED BY <1>1, InvHolds, PTL

(* The arrays of the vectors never have a word in common, whatever grows   *)
(* in whatever order: arena_alloc cuts behind all it gave out.             *)
THEOREM ArraysNeverMeet == Spec => []ArraysApart
<1>1. Inv => ArraysApart
  BY DEF Inv, TableOK, EntryOK, Within, Disjoint, ArraysApart, Apart, End, Live
<1> QED BY <1>1, InvHolds, PTL

(* The vectors implement lists: what vector_get returns is what vector_push*)
(* or vector_set put there last, whatever was pushed to other vectors in   *)
(* between.                                                                *)
THEOREM VectorsAreLists == Spec => ImplementsLists
<1>1. Init => Abstract!Init
  BY InitFacts
<1>2. Inv /\ [Next]_vars => [Abstract!Next]_Abstract!vars
  BY StepFacts
<1> QED BY <1>1, <1>2, InvHolds, PTL DEF Spec, ImplementsLists, Abstract!Spec

-----------------------------------------------------------------------------
(* Strings.                                                                *)

(* What a pointer points to, and what the words of a String spell.         *)
CharOf(m, word) ==
    LET cell == IF word[1] = "pointer" THEN At(m, word[2]) ELSE Garbage
    IN  IF cell[1] = "char" THEN cell[2] ELSE NUL
Spell(m, words) == [i \in DOMAIN words |-> CharOf(m, words[i])]
Said(m, e)      == Spell(m, Held(m, e))

(* A block, as the entry of a vector that is full.                         *)
Block(x, n) == [array |-> x, size |-> n, length |-> n]

(* A pointer to a character in a block that no array meets.                *)
PointsOut(a, m, t, word) ==
    \E x \in Addresses, c \in Characters :
        word = Pointer(x) /\ Outside(a, t, Block(x, 1)) /\ At(m, x) = Cell(c)
PointOut(a, m, t, words) == \A i \in DOMAIN words : PointsOut(a, m, t, words[i])

Sound(a, m, t) ==
    /\ ArenaOK(a) /\ TableOK(a, t)
    /\ \A v \in DOMAIN t : PointOut(a, m, t, Held(m, t[v]))

(* The words a C string is in lie where no array meets them, and only the  *)
(* last has the end in it.                                                 *)
WordsOf(text) == [k \in 1 .. Words(Len(text)) |-> Bytes(text, k - 1)]
NameOK(a, m, t, name) ==
    LET text == Append(name.chars, NUL)
        e    == Block(name.at, Words(Len(text)))
    IN  name.chars \in Seq(Characters) /\ Outside(a, t, e) /\ Held(m, e) = WordsOf(text)

TextInv ==
    /\ Sound(arena, mem, vectors)
    /\ DOMAIN strings = DOMAIN vectors
    /\ \A s \in DOMAIN vectors : strings[s] = vectors[s].length
    /\ IsList(names)
    /\ \A k \in DOMAIN names : NameOK(arena, mem, vectors, names[k])
    /\ status \in {"running", "exit1", "aborted"}

-----------------------------------------------------------------------------
(* Characters and C strings stay what they are as long as the blocks       *)
(* outside the arrays do.                                                  *)

LEMMA PlusNothing ==
    ASSUME NEW x \in Addresses
    PROVE  Plus(x, 0) = x
BY PlusIs DEF Addresses

LEMMA BlockHolds ==
    ASSUME NEW m, NEW x \in Addresses
    PROVE  Held(m, Block(x, 1)) = <<At(m, x)>> /\ Held(m, Block(x, 1))[1] = At(m, x)
<1>1. Plus(x, 0) = x
  BY PlusNothing
<1>2. 1 \in 1 .. 1 /\ 1 - 1 = 0 /\ \A i \in 1 .. 1 : i = 1
  OBVIOUS
<1>3. Held(m, Block(x, 1)) = [i \in 1 .. 1 |-> At(m, x)]
  BY <1>1, <1>2 DEF Held, Block
<1> QED BY <1>3

LEMMA CharStays ==
    ASSUME NEW h, NEW g, Spares(h, g), NEW word, PointsOut(h.arena, h.mem, h.vectors, word)
    PROVE  PointsOut(g.arena, g.mem, g.vectors, word) /\ CharOf(g.mem, word) = CharOf(h.mem, word)
<1>1. PICK x \in Addresses, c \in Characters :
          word = Pointer(x) /\ Outside(h.arena, h.vectors, Block(x, 1)) /\ At(h.mem, x) = Cell(c)
  BY DEF PointsOut
<1> DEFINE e == Block(x, 1)
<1>2. Outside(g.arena, g.vectors, e) /\ Held(g.mem, e) = Held(h.mem, e)
  BY <1>1 DEF Spares
<1>3. At(g.mem, x) = At(h.mem, x)
  BY <1>2, BlockHolds
<1>4. word[1] = "pointer" /\ word[2] = x
  BY <1>1 DEF Pointer
<1> QED BY <1>1, <1>2, <1>3, <1>4 DEF PointsOut, CharOf

LEMMA WordsStay ==
    ASSUME NEW h, NEW g, Spares(h, g), NEW words, PointOut(h.arena, h.mem, h.vectors, words)
    PROVE  PointOut(g.arena, g.mem, g.vectors, words) /\ Spell(g.mem, words) = Spell(h.mem, words)
BY CharStays DEF PointOut, Spell

LEMMA NameStays ==
    ASSUME NEW h, NEW g, Spares(h, g), NEW name, NameOK(h.arena, h.mem, h.vectors, name)
    PROVE  NameOK(g.arena, g.mem, g.vectors, name)
BY DEF NameOK, Spares

LEMMA SparesTwice ==
    ASSUME NEW f, NEW g, NEW h, Spares(f, g), Spares(g, h)
    PROVE  Spares(f, h)
BY DEF Spares

-----------------------------------------------------------------------------
(* A new block, and what is written into it.                               *)

LEMMA TakeFacts ==
    ASSUME NEW h, IsState(h), ArenaOK(h.arena), TableOK(h.arena, h.vectors),
           NEW size \in Nat, NEW g, g = Take(h, size)
    PROVE  /\ IsState(g) /\ g.arena = Alloc(h.arena, size) /\ g.mem = h.mem /\ g.vectors = h.vectors
           /\ ArenaOK(g.arena) /\ TableOK(g.arena, g.vectors) /\ Spares(h, g)
<1>1. IsState(g) /\ g.arena = Alloc(h.arena, size) /\ g.mem = h.mem /\ g.vectors = h.vectors
  BY DEF Take, IsState
<1>2. ArenaOK(g.arena) /\ Extended(h.arena, g.arena)
  BY <1>1, AllocGivesFree
<1>3. \A e : EntryOK(h.arena, e) => EntryOK(g.arena, e)
  BY <1>2, EntryStays
<1>4. TableOK(g.arena, g.vectors)
  BY <1>1, <1>3 DEF TableOK
<1>5. Spares(h, g)
  BY <1>1, <1>3 DEF Spares, Outside
<1> QED BY <1>1, <1>2, <1>4, <1>5

LEMMA BlockWritten ==
    ASSUME NEW h, IsState(h), ArenaOK(h.arena), TableOK(h.arena, h.vectors),
           NEW n \in Nat \ {0}, NEW x, x = Top(h.arena, n),
           NEW g, g.arena = Alloc(h.arena, n), g.vectors = h.vectors,
           \A address : (\A i \in 0 .. (n - 1) : address # Plus(x, i))
                            => At(g.mem, address) = At(h.mem, address)
    PROVE  /\ ArenaOK(g.arena) /\ TableOK(g.arena, g.vectors) /\ Spares(h, g)
           /\ \A v \in DOMAIN h.vectors : Held(g.mem, g.vectors[v]) = Held(h.mem, h.vectors[v])
           /\ x \in Addresses /\ Outside(g.arena, g.vectors, Block(x, n))
<1> DEFINE a == h.arena
           b == g.arena
           t == h.vectors
           e == Block(x, n)
<1>1. /\ ArenaOK(b) /\ Extended(a, b) /\ x \in Addresses /\ Free(a, x)
      /\ x.region \in DOMAIN b /\ x.offset + n = b[x.region].count
  BY AllocGivesFree
<1>2. e \in Entries /\ e.array = x /\ e.size = n /\ e.length = n
  BY <1>1 DEF Block, Entries
<1>3. EntryOK(b, e)
  <2>1. b[x.region] \in Regions
    BY <1>1 DEF ArenaOK
  <2> QED BY <1>1, <1>2, <2>1 DEF EntryOK, Within, Regions, Addresses
<1> HIDE DEF e
<1>4. ASSUME NEW d, EntryOK(a, d)
      PROVE  EntryOK(b, d) /\ Disjoint(d, e) /\ Disjoint(e, d) /\ Held(g.mem, d) = Held(h.mem, d)
  <2>1. EntryOK(b, d)
    BY <1>1, <1>4, EntryStays
  <2>2. Disjoint(d, e) /\ Disjoint(e, d)
    BY <1>1, <1>2, <1>4, FreeIsApart
  <2>3. \A address : (\A i \in 0 .. (e.size - 1) : address # Plus(e.array, i))
                        => At(g.mem, address) = At(h.mem, address)
    BY <1>2
  <2>4. d \in Entries /\ d.length <= d.size
    BY <1>4 DEF EntryOK
  <2>5. Held(g.mem, d) = Held(h.mem, d)
    BY <1>2, <2>2, <2>3, <2>4, WordsElsewhere
  <2> QED BY <2>1, <2>2, <2>5
<1>5. TableOK(b, t)
  BY <1>4 DEF TableOK
<1>6. Spares(h, g)
  BY <1>4 DEF Spares, Outside
<1>7. \A v \in DOMAIN t : Held(g.mem, t[v]) = Held(h.mem, t[v])
  BY <1>4 DEF TableOK
<1>8. Outside(b, t, e)
  BY <1>3, <1>4 DEF Outside, TableOK
<1> QED BY <1>1, <1>5, <1>6, <1>7, <1>8 DEF e

-----------------------------------------------------------------------------
(* Characters appended, or words written, one after the other.             *)

Do(p, g, k) ==
    IF p.kind = "append" THEN AppendChar(g, p.at, p.of[k])
    ELSE Write(g, Plus(p.at, p.turns[k] - 1), Bytes(p.of, p.turns[k] - 1))
Appending(s, chars)     == [kind |-> "append", at |-> s, of |-> chars]
Writing(at, text)       ==
    [kind |-> "write", at |-> at, of |-> text, turns |-> [k \in 1 .. Words(Len(text)) |-> k]]
Turns(f, p, base, n) ==
    f = [S \in SUBSET (1 .. n) |->
            IF S = {} THEN base ELSE Do(p, f[S \ {Max(S)}], Max(S))]

LEMMA TurnsExist ==
    ASSUME NEW n \in Nat, NEW p, NEW base
    PROVE  \E f : Turns(f, p, base, n)
<1> DEFINE Bad == {m \in 0 .. n : ~\E g : Turns(g, p, base, m)}
<1>1. ASSUME Bad # {} PROVE FALSE
  <2>1. PICK m \in Bad : \A k \in Bad : m <= k
    <3>1. Bad \in SUBSET Nat
      OBVIOUS
    <3> HIDE DEF Bad
    <3> QED BY <1>1, <3>1, LeastOf
  <2>2. m \in Nat /\ m <= n /\ ~\E g : Turns(g, p, base, m)
    OBVIOUS
  <2>3. m # 0
    <3> DEFINE g == [S \in SUBSET (1 .. 0) |-> base]
    <3>1. SUBSET (1 .. 0) = {{}}
      OBVIOUS
    <3>2. Turns(g, p, base, 0)
      BY <3>1 DEF Turns
    <3> QED BY <2>2, <3>2
  <2>4. m - 1 \in 0 .. n /\ m - 1 \notin Bad
    <3> HIDE DEF Bad
    <3> QED BY <2>1, <2>2, <2>3
  <2>5. PICK g : Turns(g, p, base, m - 1)
    BY <2>4
  <2> DEFINE h == [S \in SUBSET (1 .. m) |-> IF m \in S THEN Do(p, g[S \ {m}], m) ELSE g[S]]
  <2>6. ASSUME NEW S \in SUBSET (1 .. m)
        PROVE  h[S] = IF S = {} THEN base ELSE Do(p, h[S \ {Max(S)}], Max(S))
    <3>1. CASE m \in S
      <4>1. Max(S) = m
        <5>1. Max(S) \in S /\ \A k \in S : k <= Max(S)
          BY <2>2, <3>1, LastOf
        <5>2. Max(S) \in 1 .. m /\ m <= Max(S)
          BY <3>1, <5>1
        <5> HIDE DEF Bad, h
        <5> QED BY <2>2, <5>2
      <4>2. h[S] = Do(p, g[S \ {m}], m) /\ h[S \ {m}] = g[S \ {m}]
        <5>1. S \ {m} \in SUBSET (1 .. m) /\ m \notin S \ {m}
          OBVIOUS
        <5> QED BY <3>1, <5>1
      <4> HIDE DEF h, Bad
      <4> QED BY <3>1, <4>1, <4>2
    <3>2. CASE m \notin S
      <4>1. S \in SUBSET (1 .. (m - 1))
        BY <2>2, <2>3, <3>2
      <4>2. h[S] = g[S] /\ \A x : h[S \ {x}] = g[S \ {x}]
        BY <3>2
      <4>3. g[S] = IF S = {} THEN base ELSE Do(p, g[S \ {Max(S)}], Max(S))
        BY <2>5, <4>1 DEF Turns
      <4> HIDE DEF h, Bad
      <4> QED BY <4>2, <4>3
    <3> QED BY <3>1, <3>2
  <2>7. Turns(h, p, base, m)
    <3>1. h = [S \in SUBSET (1 .. m) |-> h[S]]
      OBVIOUS
    <3> HIDE DEF h
    <3> QED BY <2>6, <3>1 DEF Turns
  <2> QED BY <2>2, <2>7
<1>2. n \in 0 .. n
  OBVIOUS
<1> QED BY <1>1, <1>2

LEMMA TurnByTurn ==
    ASSUME NEW n \in Nat, NEW p, NEW base, NEW f, Turns(f, p, base, n)
    PROVE  \E st : /\ st[0] = base /\ st[n] = f[1 .. n]
                   /\ \A k \in 1 .. n : st[k] = Do(p, st[k - 1], k)
<1> DEFINE st == [k \in 0 .. n |-> f[1 .. k]]
<1>1. st[0] = base
  <2>1. 1 .. 0 = {} /\ {} \in SUBSET (1 .. n) /\ 0 \in 0 .. n
    OBVIOUS
  <2> QED BY <2>1 DEF Turns
<1>2. ASSUME NEW k \in 1 .. n PROVE st[k] = Do(p, st[k - 1], k)
  <2>1. 1 .. k # {} /\ Max(1 .. k) = k /\ (1 .. k) \ {k} = 1 .. (k - 1)
    <3>1. k \in Nat \ {0}
      OBVIOUS
    <3> HIDE DEF st
    <3> QED BY <3>1, UpToLast
  <2>2. 1 .. k \in SUBSET (1 .. n) /\ k \in 0 .. n /\ k - 1 \in 0 .. n
    OBVIOUS
  <2>3. f[1 .. k] = Do(p, f[1 .. (k - 1)], k)
    BY <2>1, <2>2 DEF Turns
  <2> QED BY <2>2, <2>3
<1>3. st[n] = f[1 .. n]
  OBVIOUS
<1> HIDE DEF st
<1> QED BY <1>1, <1>2, <1>3

LEMMA AppendsInTurn ==
    ASSUME NEW h, NEW s, NEW chars, NEW n \in Nat, DOMAIN chars = 1 .. n
    PROVE  \E st : /\ st[0] = h /\ st[n] = AppendAll(h, s, chars)
                   /\ \A k \in 1 .. n : st[k] = AppendChar(st[k - 1], s, chars[k])
<1> DEFINE p == Appending(s, chars)
           Rec(f) == f = [S \in SUBSET (1 .. n) |->
                             IF S = {} THEN h ELSE AppendChar(f[S \ {Max(S)}], s, chars[Max(S)])]
           f == CHOOSE x : Rec(x)
<1>1. \A g, k : Do(p, g, k) = AppendChar(g, s, chars[k])
  BY DEF Do, Appending
<1> HIDE DEF p
<1>2. \A g : Rec(g) <=> Turns(g, p, h, n)
  BY <1>1 DEF Turns
<1>3. \E g : Rec(g)
  <2> HIDE DEF Rec
  <2> QED BY <1>2, TurnsExist
<1>4. Rec(f)
  <2> HIDE DEF Rec
  <2> QED BY <1>3
<1>5. AppendAll(h, s, chars) = f[1 .. n]
  BY DEF AppendAll, FoldLeft, MapThenFoldSet
<1> HIDE DEF f, Rec
<1>6. Turns(f, p, h, n)
  BY <1>2, <1>4
<1>7. PICK st : /\ st[0] = h /\ st[n] = f[1 .. n]
                /\ \A k \in 1 .. n : st[k] = Do(p, st[k - 1], k)
  BY <1>6, TurnByTurn
<1> QED BY <1>1, <1>5, <1>7

LEMMA WritesInTurn ==
    ASSUME NEW h, NEW at, NEW text, NEW n \in Nat, n = Words(Len(text))
    PROVE  \E st : /\ st[0] = h /\ st[n] = Written(h, at, text)
                   /\ \A k \in 1 .. n : st[k] = Write(st[k - 1], Plus(at, k - 1), Bytes(text, k - 1))
<1> DEFINE p == Writing(at, text)
           turns == [k \in 1 .. Words(Len(text)) |-> k]
           next(g, k) == Write(g, Plus(at, turns[k] - 1), Bytes(text, turns[k] - 1))
           Rec(f) == f = [S \in SUBSET (1 .. n) |->
                             IF S = {} THEN h ELSE next(f[S \ {Max(S)}], Max(S))]
           f == CHOOSE x : Rec(x)
<1>1. \A g, k : Do(p, g, k) = next(g, k)
  BY DEF Do, Writing
<1>2. DOMAIN turns = 1 .. n /\ \A k \in 1 .. n : turns[k] = k
  OBVIOUS
<1> HIDE DEF p, turns, next
<1>3. \A g : Rec(g) <=> Turns(g, p, h, n)
  BY ONLY <1>1 DEF Turns
<1>4. \E g : Rec(g)
  <2> HIDE DEF Rec
  <2> QED BY <1>3, TurnsExist
<1>5. Rec(f)
  <2> HIDE DEF Rec
  <2> QED BY <1>4
<1>6. Written(h, at, text) = f[1 .. n]
  BY <1>2 DEF Written, FoldLeft, MapThenFoldSet, turns, next
<1> HIDE DEF f, Rec
<1>7. Turns(f, p, h, n)
  BY <1>3, <1>5
<1>8. PICK st : /\ st[0] = h /\ st[n] = f[1 .. n]
                /\ \A k \in 1 .. n : st[k] = Do(p, st[k - 1], k)
  BY <1>7, TurnByTurn
<1>9. \A k \in 1 .. n : st[k] = Write(st[k - 1], Plus(at, k - 1), Bytes(text, k - 1))
  BY <1>1, <1>2, <1>8 DEF next
<1> QED BY <1>6, <1>8, <1>9

-----------------------------------------------------------------------------
(* What the operations on Strings do.                                      *)

(* From h to g, only what s says changes: it says text now.                *)
Says(h, g, u) == Said(g.mem, g.vectors[u]) = Said(h.mem, h.vectors[u])
Changes(h, g, s, text) ==
    /\ IsState(g) /\ Sound(g.arena, g.mem, g.vectors) /\ Spares(h, g)
    /\ DOMAIN g.vectors = DOMAIN h.vectors \cup {s}
    /\ Said(g.mem, g.vectors[s]) = text
    /\ \A u \in DOMAIN h.vectors \ {s} : Says(h, g, u)

LEMMA SpellFacts ==
    ASSUME NEW m, NEW words, IsList(words)
    PROVE  /\ IsList(Spell(m, words)) /\ Len(Spell(m, words)) = Len(words)
           /\ \A word : Spell(m, Append(words, word)) = Append(Spell(m, words), CharOf(m, word))
<1>1. DOMAIN words = 1 .. Len(words) /\ Len(words) \in Nat
  BY ListFacts
<1> DEFINE old == Spell(m, words)
<1>2. old = [i \in 1 .. Len(words) |-> old[i]] /\ \A i \in 1 .. Len(words) : old[i] = CharOf(m, words[i])
  BY <1>1 DEF Spell
<1> HIDE DEF old
<1>3. IsList(old) /\ Len(old) = Len(words)
  BY <1>1, <1>2, FunctionIsList
<1>4. ASSUME NEW word PROVE Spell(m, Append(words, word)) = Append(old, CharOf(m, word))
  <2> DEFINE more == Append(words, word)
             new  == Spell(m, more)
             n    == Len(words) + 1
  <2>1. DOMAIN more = 1 .. n /\ more[n] = word /\ \A k \in 1 .. Len(words) : more[k] = words[k]
    BY AppendFacts
  <2> HIDE DEF more
  <2>2. new = [i \in 1 .. n |-> new[i]] /\ \A i \in 1 .. n : new[i] = CharOf(m, more[i])
    BY <2>1 DEF Spell
  <2> HIDE DEF new
  <2>3. IsList(new) /\ Len(new) = n /\ n \in Nat
    BY <1>1, <2>2, FunctionIsList
  <2> DEFINE apd == Append(old, CharOf(m, word))
  <2>4. IsList(apd) /\ Len(apd) = n /\ apd[n] = CharOf(m, word)
        /\ \A k \in 1 .. Len(words) : apd[k] = old[k]
    BY <1>3, AppendFacts
  <2> HIDE DEF apd
  <2>5. \A k \in 1 .. n : k = n \/ k \in 1 .. Len(words)
    BY <1>1
  <2>6. n \in 1 .. n
    BY <1>1
  <2> HIDE DEF n
  <2>7. \A k \in 1 .. n : new[k] = apd[k]
    BY <1>2, <2>1, <2>2, <2>4, <2>5, <2>6
  <2>8. new = apd
    BY <2>3, <2>4, <2>7, SameList
  <2> QED BY <2>8 DEF new, apd, more
<1> QED BY <1>3, <1>4 DEF old

LEMMA PointOutMore ==
    ASSUME NEW a, NEW m, NEW t, NEW words, IsList(words), PointOut(a, m, t, words),
           NEW word, PointsOut(a, m, t, word)
    PROVE  PointOut(a, m, t, Append(words, word))
<1> DEFINE more == Append(words, word)
<1>1. DOMAIN more = 1 .. (Len(words) + 1) /\ more[Len(words) + 1] = word
      /\ \A k \in 1 .. Len(words) : more[k] = words[k]
  BY AppendFacts
<1>2. Len(words) \in Nat /\ DOMAIN words = 1 .. Len(words)
  BY ListFacts
<1> HIDE DEF more
<1>3. \A k \in DOMAIN more : PointsOut(a, m, t, more[k])
  <2> TAKE k \in DOMAIN more
  <2>1. CASE k = Len(words) + 1
    BY <1>1, <2>1
  <2>2. CASE k # Len(words) + 1
    <3>1. k \in 1 .. Len(words)
      BY <1>1, <1>2, <2>2
    <3> QED BY <1>1, <1>2, <3>1 DEF PointOut
  <2> QED BY <2>1, <2>2
<1> QED BY <1>3 DEF PointOut, more

(* string_append appends a character to one String and leaves the others.  *)
LEMMA AppendCharFacts ==
    ASSUME NEW h, IsState(h), Sound(h.arena, h.mem, h.vectors), NEW s \in DOMAIN h.vectors,
           NEW c \in Characters, NEW g, g = AppendChar(h, s, c)
    PROVE  Changes(h, g, s, Append(Said(h.mem, h.vectors[s]), c))
<1> DEFINE x == Top(h.arena, 1)
           k == Take(h, 1)
           w == Write(k, x, Cell(c))
           t == h.vectors
<1>1. ArenaOK(h.arena) /\ TableOK(h.arena, t) /\ \A v \in DOMAIN t : PointOut(h.arena, h.mem, t, Held(h.mem, t[v]))
  BY DEF Sound
<1>2. IsState(k) /\ k.arena = Alloc(h.arena, 1) /\ k.mem = h.mem /\ k.vectors = t
  BY <1>1, TakeFacts
<1>3. g = Push(w, s, Pointer(x))
  BY DEF AppendChar
<1> HIDE DEF k
<1>4. /\ IsState(w) /\ w.arena = Alloc(h.arena, 1) /\ w.vectors = t
      /\ \A b : At(w.mem, b) = IF b = x THEN Cell(c) ELSE At(h.mem, b)
  BY <1>2, WrittenWord
<1> HIDE DEF w
<1>5. x \in Addresses /\ Plus(x, 0) = x
  <2>1. x \in Addresses
    BY <1>1, AllocGivesFree
  <2> HIDE DEF x
  <2> QED BY <2>1, PlusNothing
<1>6. /\ ArenaOK(w.arena) /\ TableOK(w.arena, t) /\ Spares(h, w)
      /\ \A v \in DOMAIN t : Held(w.mem, t[v]) = Held(h.mem, t[v])
      /\ Outside(w.arena, t, Block(x, 1))
  <2>1. \A b : (\A i \in 0 .. (1 - 1) : b # Plus(x, i)) => At(w.mem, b) = At(h.mem, b)
    <3>1. 0 \in 0 .. (1 - 1)
      OBVIOUS
    <3> HIDE DEF x
    <3> QED BY <1>4, <1>5, <3>1
  <2>2. 1 \in Nat \ {0} /\ x = Top(h.arena, 1)
    OBVIOUS
  <2> HIDE DEF x, t
  <2>3. /\ ArenaOK(w.arena) /\ TableOK(w.arena, w.vectors) /\ Spares(h, w)
        /\ \A v \in DOMAIN h.vectors : Held(w.mem, h.vectors[v]) = Held(h.mem, h.vectors[v])
        /\ x \in Addresses /\ Outside(w.arena, w.vectors, Block(x, 1))
    BY <1>1, <1>4, <2>1, <2>2, BlockWritten DEF t
  <2> QED BY <1>4, <2>3 DEF t
<1> HIDE DEF x
<1> DEFINE p == Pointer(x)
<1>7. PointsOut(w.arena, w.mem, t, p) /\ CharOf(w.mem, p) = c
  <2>1. At(w.mem, x) = Cell(c)
    BY <1>4
  <2>2. CharOf(w.mem, p) = c
    BY <2>1 DEF CharOf, Pointer, Cell
  <2> QED BY <1>5, <1>6, <2>1, <2>2 DEF PointsOut
<1>8. ASSUME NEW v \in DOMAIN t
      PROVE  /\ PointOut(w.arena, w.mem, t, Held(w.mem, t[v]))
             /\ Spell(w.mem, Held(w.mem, t[v])) = Said(h.mem, t[v])
  BY <1>1, <1>4, <1>6, WordsStay DEF Said
<1>9. /\ IsState(g) /\ ArenaOK(g.arena) /\ TableOK(g.arena, g.vectors)
      /\ DOMAIN g.vectors = DOMAIN t
      /\ Held(g.mem, g.vectors[s]) = Append(Held(w.mem, t[s]), p)
      /\ \A u \in DOMAIN t \ {s} : Kept(w.mem, t, g.mem, g.vectors, u)
      /\ Spares(w, g)
  <2>1. /\ IsState(g) /\ ArenaOK(g.arena) /\ TableOK(g.arena, g.vectors)
        /\ DOMAIN g.vectors = DOMAIN w.vectors
        /\ Held(g.mem, g.vectors[s]) = Append(Held(w.mem, w.vectors[s]), p)
        /\ \A u \in DOMAIN w.vectors \ {s} : Kept(w.mem, w.vectors, g.mem, g.vectors, u)
        /\ Spares(w, g)
    <3> HIDE DEF t
    <3>1. TableOK(w.arena, w.vectors) /\ s \in DOMAIN w.vectors /\ ArenaOK(w.arena)
      BY <1>4, <1>6 DEF t
    <3> QED BY <1>3, <1>4, <3>1, PushFacts
  <2> QED BY <1>4, <2>1
<1> HIDE DEF p
<1>10. ASSUME NEW v \in DOMAIN t
       PROVE  /\ PointOut(g.arena, g.mem, g.vectors, Held(w.mem, t[v]))
              /\ Spell(g.mem, Held(w.mem, t[v])) = Said(h.mem, t[v])
  BY <1>4, <1>8, <1>9, WordsStay
<1>11. PointsOut(g.arena, g.mem, g.vectors, p) /\ CharOf(g.mem, p) = c
  BY <1>4, <1>7, <1>9, CharStays
<1>12. IsList(Held(w.mem, t[s]))
  <2>1. t[s].length \in Nat
    BY <1>1 DEF TableOK, EntryOK, Entries
  <2> QED BY <2>1, HeldIsSeq DEF IsList
<1>13. /\ PointOut(g.arena, g.mem, g.vectors, Held(g.mem, g.vectors[s]))
       /\ Said(g.mem, g.vectors[s]) = Append(Said(h.mem, t[s]), c)
  BY <1>9, <1>10, <1>11, <1>12, PointOutMore, SpellFacts DEF Said
<1>14. ASSUME NEW u \in DOMAIN t \ {s}
       PROVE  PointOut(g.arena, g.mem, g.vectors, Held(g.mem, g.vectors[u])) /\ Says(h, g, u)
  BY <1>9, <1>10 DEF Kept, Said, Says
<1>15. Sound(g.arena, g.mem, g.vectors)
  BY <1>9, <1>13, <1>14 DEF Sound
<1>16. Spares(h, g)
  BY <1>6, <1>9, SparesTwice
<1> QED BY <1>9, <1>13, <1>14, <1>15, <1>16 DEF Changes

LEMMA ChangesTwice ==
    ASSUME NEW f, NEW g, NEW h, NEW s, NEW one, NEW two, Changes(f, g, s, one), Changes(g, h, s, two)
    PROVE  Changes(f, h, s, two)
<1>1. Spares(f, h)
  BY SparesTwice DEF Changes
<1>2. \A u \in DOMAIN f.vectors \ {s} : u \in DOMAIN g.vectors \ {s}
  BY DEF Changes
<1>3. \A u \in DOMAIN f.vectors \ {s} : Says(f, h, u)
  BY <1>2 DEF Changes, Says
<1>4. DOMAIN h.vectors = DOMAIN f.vectors \cup {s}
  BY DEF Changes
<1> QED BY <1>1, <1>3, <1>4 DEF Changes

(* string_new makes an empty String.                                       *)
LEMMA NewStringFacts ==
    ASSUME NEW h, IsState(h), Sound(h.arena, h.mem, h.vectors),
           NEW s \in Handles, s \notin DOMAIN h.vectors, NEW g, g = NewString(h, s)
    PROVE  Changes(h, g, s, <<>>)
<1> DEFINE k == Take(h, StringWords)
           t == h.vectors
<1>1. ArenaOK(h.arena) /\ TableOK(h.arena, t) /\ \A v \in DOMAIN t : PointOut(h.arena, h.mem, t, Held(h.mem, t[v]))
  BY DEF Sound
<1>2. /\ IsState(k) /\ k.mem = h.mem /\ k.vectors = t
      /\ ArenaOK(k.arena) /\ TableOK(k.arena, k.vectors) /\ Spares(h, k)
  BY <1>1, TakeFacts, StringsAssumption
<1>3. g = Make(k, s)
  BY DEF NewString
<1> HIDE DEF k
<1>4. /\ IsState(g) /\ ArenaOK(g.arena) /\ TableOK(g.arena, g.vectors)
      /\ DOMAIN g.vectors = DOMAIN t \cup {s}
      /\ Held(g.mem, g.vectors[s]) = <<>>
      /\ \A u \in DOMAIN t : Kept(h.mem, t, g.mem, g.vectors, u)
      /\ Spares(k, g)
  <2>1. s \notin DOMAIN k.vectors
    BY <1>2
  <2>2. /\ IsState(g) /\ ArenaOK(g.arena) /\ TableOK(g.arena, g.vectors)
        /\ DOMAIN g.vectors = DOMAIN k.vectors \cup {s}
        /\ Held(g.mem, g.vectors[s]) = <<>>
        /\ \A u \in DOMAIN k.vectors : Kept(k.mem, k.vectors, g.mem, g.vectors, u)
        /\ Spares(k, g)
    BY <1>2, <1>3, <2>1, MakeFacts
  <2> QED BY <1>2, <2>2
<1>5. Spares(h, g)
  BY <1>2, <1>4, SparesTwice
<1>6. Said(g.mem, g.vectors[s]) = <<>> /\ PointOut(g.arena, g.mem, g.vectors, Held(g.mem, g.vectors[s]))
  BY <1>4 DEF Said, Spell, PointOut
<1>7. ASSUME NEW u \in DOMAIN t
      PROVE  PointOut(g.arena, g.mem, g.vectors, Held(g.mem, g.vectors[u])) /\ Says(h, g, u)
  <2>1. PointOut(g.arena, g.mem, g.vectors, Held(h.mem, t[u]))
        /\ Spell(g.mem, Held(h.mem, t[u])) = Spell(h.mem, Held(h.mem, t[u]))
    BY <1>1, <1>5, WordsStay
  <2> QED BY <1>4, <2>1 DEF Kept, Said, Says
<1>8. Sound(g.arena, g.mem, g.vectors)
  BY <1>4, <1>6, <1>7 DEF Sound
<1> QED BY <1>4, <1>5, <1>6, <1>7, <1>8 DEF Changes

(* string() and string_clone(): a new String says what was appended to it. *)
LEMMA AppendAllFacts ==
    ASSUME NEW h, IsState(h), Sound(h.arena, h.mem, h.vectors),
           NEW s \in Handles, s \notin DOMAIN h.vectors,
           NEW chars, IsList(chars), \A i \in DOMAIN chars : chars[i] \in Characters,
           NEW g, g = AppendAll(NewString(h, s), s, chars)
    PROVE  Changes(h, g, s, chars)
<1> DEFINE base == NewString(h, s)
           n == Len(chars)
           said(k) == [i \in 1 .. k |-> chars[i]]
<1>1. n \in Nat /\ DOMAIN chars = 1 .. n
  BY ListFacts
<1>2. Changes(h, base, s, <<>>)
  BY NewStringFacts
<1> HIDE DEF base
<1>3. PICK st : /\ st[0] = base /\ st[n] = AppendAll(base, s, chars)
                /\ \A k \in 1 .. n : st[k] = AppendChar(st[k - 1], s, chars[k])
  BY <1>1, AppendsInTurn
<1>4. said(0) = <<>> /\ \A k \in 1 .. n : said(k) = Append(said(k - 1), chars[k])
  <2>1. said(0) = <<>>
    OBVIOUS
  <2>2. ASSUME NEW k \in 1 .. n PROVE said(k) = Append(said(k - 1), chars[k])
    <3> DEFINE old == said(k - 1)
               new == said(k)
               apd == Append(old, chars[k])
    <3>1. k - 1 \in Nat /\ k \in Nat
      BY <1>1
    <3>2. old = [i \in 1 .. (k - 1) |-> old[i]] /\ new = [i \in 1 .. k |-> new[i]]
      OBVIOUS
    <3>3. (\A i \in 1 .. (k - 1) : old[i] = chars[i]) /\ (\A i \in 1 .. k : new[i] = chars[i])
      OBVIOUS
    <3> HIDE DEF old, new
    <3>4. IsList(old) /\ Len(old) = k - 1 /\ IsList(new) /\ Len(new) = k
      BY <3>1, <3>2, FunctionIsList
    <3>5. IsList(apd) /\ Len(apd) = (k - 1) + 1 /\ apd[(k - 1) + 1] = chars[k]
          /\ \A i \in 1 .. (k - 1) : apd[i] = old[i]
      BY <3>4, AppendFacts
    <3>6. (k - 1) + 1 = k /\ \A i \in 1 .. k : i = k \/ i \in 1 .. (k - 1)
      BY <3>1
    <3> HIDE DEF apd
    <3>7. \A i \in 1 .. k : new[i] = apd[i]
      BY <3>3, <3>5, <3>6
    <3>8. new = apd
      BY <3>4, <3>5, <3>6, <3>7, SameList
    <3> QED BY <3>8 DEF new, apd, old
  <2> QED BY <2>1, <2>2
<1>5. said(n) = chars
  <2>1. PICK S : chars \in Seq(S)
    BY DEF IsList
  <2> QED BY <2>1
<1> HIDE DEF said
<1> DEFINE V == {k \in 0 .. n : Changes(h, st[k], s, said(k))}
           id == [k \in 0 .. n |-> k]
<1>6. id[0] \in V
  BY <1>1, <1>2, <1>3, <1>4
<1>7. ASSUME NEW k \in 1 .. n, id[k - 1] \in V PROVE id[k] \in V
  <2>1. k - 1 \in 0 .. n /\ k \in 0 .. n /\ k \in DOMAIN chars
    BY <1>1
  <2>2. Changes(h, st[k - 1], s, said(k - 1))
    BY <1>7, <2>1
  <2> HIDE DEF V, id
  <2>3. /\ IsState(st[k - 1]) /\ Sound(st[k - 1].arena, st[k - 1].mem, st[k - 1].vectors)
        /\ s \in DOMAIN st[k - 1].vectors
        /\ Said(st[k - 1].mem, st[k - 1].vectors[s]) = said(k - 1)
    BY <2>2 DEF Changes
  <2>4. Changes(st[k - 1], st[k], s, Append(Said(st[k - 1].mem, st[k - 1].vectors[s]), chars[k]))
    BY <1>3, <2>1, <2>3, AppendCharFacts
  <2>5. Append(Said(st[k - 1].mem, st[k - 1].vectors[s]), chars[k]) = said(k)
    BY <1>4, <2>3
  <2>6. Changes(st[k - 1], st[k], s, said(k))
    BY <2>4, <2>5
  <2>7. Changes(h, st[k], s, said(k))
    BY <2>2, <2>6, ChangesTwice
  <2> QED BY <2>1, <2>7 DEF V, id
<1>8. id[n] \in V
  <2>1. \A k \in 0 .. n : id[k] \in V
    <3> HIDE DEF V, id, n
    <3> QED BY <1>1, <1>6, <1>7, AlongPositions
  <2> HIDE DEF V, id
  <2> QED BY <1>1, <2>1
<1>9. Changes(h, st[n], s, said(n))
  BY <1>1, <1>8
<1>10. g = st[n]
  BY <1>3 DEF base
<1> QED BY <1>5, <1>9, <1>10

(* What was written of a C string after k words of it.                     *)
InBlock(at, n, b) == \E i \in 0 .. (n - 1) : b = Plus(at, i)
Half(h, g, at, text, n, k) ==
    /\ IsState(g) /\ g.arena = h.arena /\ g.vectors = h.vectors /\ g.ok = h.ok
    /\ \A i \in 0 .. (k - 1) : At(g.mem, Plus(at, i)) = Bytes(text, i)
    /\ \A b : ~InBlock(at, n, b) => At(g.mem, b) = At(h.mem, b)

LEMMA WrittenFacts ==
    ASSUME NEW h, IsState(h), NEW at \in Addresses, NEW text,
           NEW n \in Nat, n = Words(Len(text)), NEW g, g = Written(h, at, text)
    PROVE  Half(h, g, at, text, n, n)
<1>1. PICK st : /\ st[0] = h /\ st[n] = Written(h, at, text)
                /\ \A k \in 1 .. n : st[k] = Write(st[k - 1], Plus(at, k - 1), Bytes(text, k - 1))
  BY WritesInTurn
<1> DEFINE V == {k \in 0 .. n : Half(h, st[k], at, text, n, k)}
           id == [k \in 0 .. n |-> k]
<1>2. id[0] \in V
  BY <1>1 DEF Half
<1>3. ASSUME NEW k \in 1 .. n, id[k - 1] \in V PROVE id[k] \in V
  <2>1. k - 1 \in 0 .. n /\ k \in 0 .. n /\ k - 1 \in 0 .. (n - 1)
    OBVIOUS
  <2>2. Half(h, st[k - 1], at, text, n, k - 1)
    BY <1>3, <2>1
  <2> HIDE DEF V, id
  <2> DEFINE old  == st[k - 1]
             new  == st[k]
             here == Plus(at, k - 1)
             word == Bytes(text, k - 1)
  <2>3. new = Write(old, here, word)
    BY <1>1
  <2>4. IsState(old)
    BY <2>2 DEF Half
  <2> HIDE DEF old, new, here, word
  <2>5. /\ IsState(new) /\ new.arena = old.arena /\ new.vectors = old.vectors /\ new.ok = old.ok
        /\ \A b : At(new.mem, b) = IF b = here THEN word ELSE At(old.mem, b)
    BY <2>3, <2>4, WrittenWord
  <2>6. ASSUME NEW i \in 0 .. (k - 1) PROVE At(new.mem, Plus(at, i)) = Bytes(text, i)
    <3>1. CASE i = k - 1
      BY <2>5, <3>1 DEF here, word
    <3>2. CASE i # k - 1
      <4>1. i \in 0 .. ((k - 1) - 1) /\ i \in Nat /\ k - 1 \in Nat
        BY <3>2
      <4>2. Plus(at, i) # here
        <5>1. Plus(at, i) = [region |-> at.region, offset |-> at.offset + i]
          BY <4>1, PlusIs
        <5>2. here = [region |-> at.region, offset |-> at.offset + (k - 1)]
          BY <4>1, PlusIs DEF here
        <5>3. at.offset + i # at.offset + (k - 1)
          BY <3>2, <4>1 DEF Addresses
        <5> QED BY <5>1, <5>2, <5>3
      <4>3. At(old.mem, Plus(at, i)) = Bytes(text, i)
        BY <2>2, <4>1 DEF Half, old
      <4> QED BY <2>5, <4>2, <4>3
    <3> QED BY <3>1, <3>2
  <2>7. ASSUME NEW b, ~InBlock(at, n, b) PROVE At(new.mem, b) = At(h.mem, b)
    <3>1. b # here
      BY <2>1, <2>7 DEF InBlock, here
    <3>2. At(old.mem, b) = At(h.mem, b)
      BY <2>2, <2>7 DEF Half, old
    <3> QED BY <2>5, <3>1, <3>2
  <2>8. Half(h, new, at, text, n, k)
    BY <2>2, <2>5, <2>6, <2>7 DEF Half, old
  <2> QED BY <2>1, <2>8 DEF V, id, new
<1>4. n \in 0 .. n /\ \A k \in 0 .. n : id[k] \in V
  <2>1. n \in 0 .. n
    OBVIOUS
  <2>2. \A k \in 0 .. n : id[k] \in V
    <3> HIDE DEF V, id
    <3> QED BY <1>2, <1>3, AlongPositions
  <2> QED BY <2>1, <2>2
<1>5. Half(h, st[n], at, text, n, n)
  BY <1>4
<1> QED BY <1>1, <1>5

LEMMA WordsFacts ==
    ASSUME NEW n \in Nat
    PROVE  Words(n) \in Nat /\ Words(n + 1) \in Nat \ {0}
<1> DEFINE w == WordSize
<1>1. w \in Nat /\ w > 0
  BY StringsAssumption
<1> HIDE DEF w
<1>2. (n + w - 1) \div w \in Nat
  BY <1>1, SMT
<1>3. ((n + 1) + w - 1) \div w \in Nat \ {0}
  BY <1>1, SMT
<1> QED BY <1>2, <1>3 DEF Words, w

(* as_str puts what a String says, and its end, in a block of its own.     *)
LEMMA AsStrFacts ==
    ASSUME NEW h, IsState(h), Sound(h.arena, h.mem, h.vectors), NEW chars \in Seq(Characters),
           NEW room, room = Room(Len(chars)),
           NEW at, at = Top(h.arena, room), NEW g, g = Written(Take(h, room), at, Append(chars, NUL))
    PROVE  /\ IsState(g) /\ Sound(g.arena, g.mem, g.vectors) /\ Spares(h, g)
           /\ g.vectors = h.vectors
           /\ \A u \in DOMAIN h.vectors : Says(h, g, u)
           /\ NameOK(g.arena, g.mem, g.vectors, [at |-> at, chars |-> chars])
<1> DEFINE text == Append(chars, NUL)
           k == Take(h, room)
           t == h.vectors
<1>1. ArenaOK(h.arena) /\ TableOK(h.arena, t) /\ \A v \in DOMAIN t : PointOut(h.arena, h.mem, t, Held(h.mem, t[v]))
  BY DEF Sound
<1>2. Len(text) = Len(chars) + 1 /\ room = Words(Len(text)) /\ room \in Nat \ {0} /\ room \in Nat
  <2>1. Len(chars) \in Nat /\ Len(text) = Len(chars) + 1
    BY ListFacts, AppendFacts DEF IsList
  <2> HIDE DEF text
  <2> QED BY <2>1, WordsFacts DEF Room
<1>3. IsState(k) /\ k.arena = Alloc(h.arena, room) /\ k.mem = h.mem /\ k.vectors = t
  BY <1>1, <1>2, TakeFacts
<1>4. at \in Addresses
  BY <1>1, <1>2, AllocGivesFree
<1>5. g = Written(k, at, text)
  OBVIOUS
<1> HIDE DEF k, text
<1>6. Half(k, g, at, text, room, room)
  BY <1>2, <1>3, <1>4, <1>5, WrittenFacts
<1>7. /\ IsState(g) /\ g.arena = Alloc(h.arena, room) /\ g.vectors = t
      /\ \A i \in 0 .. (room - 1) : At(g.mem, Plus(at, i)) = Bytes(text, i)
      /\ \A b : (\A i \in 0 .. (room - 1) : b # Plus(at, i)) => At(g.mem, b) = At(h.mem, b)
  BY <1>3, <1>6 DEF Half, InBlock
<1>8. /\ ArenaOK(g.arena) /\ TableOK(g.arena, g.vectors) /\ Spares(h, g)
      /\ \A v \in DOMAIN h.vectors : Held(g.mem, h.vectors[v]) = Held(h.mem, h.vectors[v])
      /\ Outside(g.arena, g.vectors, Block(at, room))
  BY <1>1, <1>2, <1>7, BlockWritten
<1>9. ASSUME NEW u \in DOMAIN t
      PROVE  PointOut(g.arena, g.mem, g.vectors, Held(g.mem, g.vectors[u])) /\ Says(h, g, u)
  <2>1. PointOut(g.arena, g.mem, g.vectors, Held(h.mem, t[u]))
        /\ Spell(g.mem, Held(h.mem, t[u])) = Spell(h.mem, Held(h.mem, t[u]))
    BY <1>1, <1>8, WordsStay
  <2> QED BY <1>7, <1>8, <2>1 DEF Said, Says
<1>10. Sound(g.arena, g.mem, g.vectors)
  BY <1>7, <1>8, <1>9 DEF Sound
<1>11. Held(g.mem, Block(at, room)) = WordsOf(text)
  <2>1. ASSUME NEW i \in 1 .. room PROVE At(g.mem, Plus(at, i - 1)) = Bytes(text, i - 1)
    <3>1. i - 1 \in 0 .. (room - 1)
      BY <1>2
    <3> QED BY <1>7, <3>1
  <2>2. Held(g.mem, Block(at, room)) = [i \in 1 .. room |-> At(g.mem, Plus(at, i - 1))]
    BY DEF Held, Block
  <2>3. WordsOf(text) = [i \in 1 .. room |-> Bytes(text, i - 1)]
    BY <1>2 DEF WordsOf
  <2> QED BY <2>1, <2>2, <2>3
<1>12. NameOK(g.arena, g.mem, g.vectors, [at |-> at, chars |-> chars])
  BY <1>2, <1>8, <1>11 DEF NameOK, text
<1> QED BY <1>7, <1>8, <1>9, <1>10, <1>12

(* Only the last word of a C string has the end in it.                     *)
LEMMA TextFills ==
    ASSUME NEW length \in Nat \ {0}, NEW n, n = Words(length)
    PROVE  n \in Nat \ {0} /\ (n - 1) * WordSize < length /\ length <= n * WordSize
<1> DEFINE w == WordSize
<1>1. w \in Nat /\ w > 0
  BY StringsAssumption
<1> HIDE DEF w
<1>2. n = (length + w - 1) \div w
  BY DEF Words, w
<1>3. n \in Nat \ {0} /\ n * w <= length + w - 1 /\ length + w - 1 < (n + 1) * w
  BY <1>1, <1>2, SMT
<1>4. (n - 1) * w = n * w - w /\ (n + 1) * w = n * w + w
  BY <1>1, <1>3, SMT
<1>5. (n - 1) * w < length /\ length <= n * w
  <2> DEFINE d == n * w
  <2>1. d \in Int
    BY <1>1, <1>3
  <2> HIDE DEF d
  <2> QED BY <1>1, <1>3, <1>4, <2>1 DEF d
<1> QED BY <1>3, <1>5 DEF w

LEMMA LastEnds ==
    ASSUME NEW chars \in Seq(Characters), NEW text, text = Append(chars, NUL),
           NEW n, n = Words(Len(text)), NEW k \in 0 .. (n - 1)
    PROVE  Ends(Bytes(text, k)) <=> k = n - 1
<1> DEFINE w    == WordSize
           size == Len(text)
           from == k * w + 1
           to   == Min({(k + 1) * w, size})
           part == SubSeq(text, from, to)
           S    == Characters \cup {NUL}
<1>1. /\ size \in Nat \ {0} /\ text[size] = NUL
      /\ \A i \in 1 .. (size - 1) : text[i] \in Characters
  <2>1. /\ Len(chars) \in Nat /\ Len(text) = Len(chars) + 1 /\ text[Len(chars) + 1] = NUL
        /\ \A i \in 1 .. Len(chars) : text[i] = chars[i] /\ chars[i] \in Characters
    BY AppendFacts, ListFacts DEF IsList
  <2> QED BY <2>1
<1>2. n \in Nat \ {0} /\ (n - 1) * w < size /\ size <= n * w /\ w \in Nat \ {0}
  BY <1>1, TextFills, StringsAssumption
<1> HIDE DEF w, size
<1>3. k \in Nat /\ n - 1 \in Nat /\ k * w \in Nat /\ (k + 1) * w \in Nat /\ from \in Nat \ {0}
  <2>1. \A i, v \in Nat : i * v \in Nat
    BY SMT
  <2>2. k \in Nat /\ k + 1 \in Nat /\ n - 1 \in Nat /\ w \in Nat
    BY <1>2
  <2>3. k * w \in Nat /\ (k + 1) * w \in Nat
    BY <2>1, <2>2
  <2>4. \A i \in Nat : i + 1 \in Nat \ {0}
    OBVIOUS
  <2> QED BY <2>2, <2>3, <2>4
<1>4. to \in {(k + 1) * w, size} /\ to <= (k + 1) * w /\ to <= size /\ to \in Nat
  <2> DEFINE b == (k + 1) * w
  <2>1. b \in Nat /\ size \in Nat
    BY <1>1, <1>3
  <2> HIDE DEF b
  <2>2. \E x \in {b, size} : \A y \in {b, size} : x <= y
    BY <2>1
  <2>3. Min({b, size}) \in {b, size} /\ \A y \in {b, size} : Min({b, size}) <= y
    BY <2>2 DEF Min
  <2> QED BY <2>1, <2>3 DEF b
<1>5. \A i \in 1 .. size : text[i] \in S
  <2> TAKE i \in 1 .. size
  <2>1. i = size \/ i \in 1 .. (size - 1)
    BY <1>1
  <2> QED BY <1>1, <2>1
<1> HIDE DEF from, to, S
<1>6. from \in Nat \ {0} /\ to \in Nat /\ to <= size
  BY <1>3, <1>4
<1>7. /\ \A i \in DOMAIN part : i \in 1 .. (to - from + 1) /\ part[i] = text[from + i - 1]
      /\ DOMAIN part = 1 .. (to - from + 1)
  <2>1. \A i \in from .. to : text[i] \in S
    <3>1. \A i \in from .. to : i \in 1 .. size
      BY <1>1, <1>6
    <3> QED BY <1>5, <3>1
  <2>2. /\ part \in Seq(S)
        /\ Len(part) = IF from <= to THEN to - from + 1 ELSE 0
        /\ \A i \in 1 .. to - from + 1 : part[i] = text[from + i - 1]
    <3>1. from \in Int /\ to \in Int
      BY <1>6
    <3> QED BY ONLY <2>1, <3>1, SubSeqProperties
  <2>3. DOMAIN part = 1 .. (to - from + 1)
    BY <1>6, <2>2
  <2> QED BY <2>2, <2>3
<1>8. Bytes(text, k) = Text(part)
  BY DEF Bytes, part, from, to, size, w
<1> HIDE DEF part, S
<1>9. Ends(Bytes(text, k)) <=> \E i \in DOMAIN part : part[i] = NUL
  <2>1. Text(part)[1] = "text" /\ Text(part)[2] = part
    BY DEF Text
  <2> QED BY <1>8, <2>1 DEF Ends, Range
<1>10. CASE k = n - 1
  <2>1. (k + 1) * w = n * w /\ from = (n - 1) * w + 1
    BY <1>2, <1>10 DEF from
  <2>2. to = size /\ from <= size
    <3> DEFINE b == n * w
               c == (n - 1) * w
    <3>1. b \in Nat /\ c \in Nat
      BY <1>2, <1>3, <1>10, <2>1
    <3>2. to \in {b, size} /\ size <= b /\ c < size /\ from = c + 1
      BY <1>2, <1>4, <2>1
    <3> HIDE DEF b, c
    <3> QED BY <1>1, <1>6, <3>1, <3>2
  <2>3. PICK i : i = to - from + 1
    OBVIOUS
  <2>4. i \in DOMAIN part /\ from + i - 1 = size
    BY <1>1, <1>3, <1>7, <2>2, <2>3
  <2> QED BY <1>1, <1>7, <1>9, <1>10, <2>4
<1>11. CASE k # n - 1
  <2>1. (k + 1) * w <= (n - 1) * w
    <3>1. k + 1 <= n - 1 /\ k + 1 \in Nat
      BY <1>2, <1>3, <1>11
    <3>2. \A i, j, v \in Nat : i <= j => i * v <= j * v
      BY SMT
    <3> QED BY <1>2, <1>3, <3>1, <3>2
  <2>2. to <= size - 1
    <3> DEFINE b == (k + 1) * w
               c == (n - 1) * w
    <3>1. b \in Nat /\ c \in Int
      BY <1>2, <1>3
    <3> HIDE DEF b, c
    <3> QED BY <1>1, <1>2, <1>4, <2>1, <3>1 DEF b, c
  <2>3. \A i \in DOMAIN part : from + i - 1 \in 1 .. (size - 1)
    BY <1>1, <1>3, <1>4, <1>7, <2>2, SMTT(20)
  <2>4. \A i \in DOMAIN part : part[i] \in Characters
    BY <1>1, <1>7, <2>3
  <2> QED BY <1>9, <1>11, <2>4, StringsAssumption
<1> QED BY <1>10, <1>11

(* strlen counts what as_str wrote.                                        *)
LEMMA ThereFacts ==
    ASSUME NEW h, ArenaOK(h.arena), NEW name, NameOK(h.arena, h.mem, h.vectors, name)
    PROVE  WordsThere(h, name.at) = Words(Len(Append(name.chars, NUL)))
<1> DEFINE at    == name.at
           text  == Append(name.chars, NUL)
           n     == Words(Len(text))
           count == h.arena[at.region].count
           S     == {k \in 0 .. count : Ends(Read(h, Plus(at, k)))}
<1>1. name.chars \in Seq(Characters) /\ EntryOK(h.arena, Block(at, n)) /\ Held(h.mem, Block(at, n)) = WordsOf(text)
  BY DEF NameOK, Outside
<1>2. n \in Nat \ {0}
  <2>1. Len(text) \in Nat \ {0}
    BY <1>1, AppendFacts, ListFacts DEF IsList
  <2> HIDE DEF text
  <2> QED BY <2>1, TextFills
<1>3. count \in Nat /\ n <= count
  <2>1. at \in Addresses /\ at.region \in DOMAIN h.arena /\ at.offset + n <= count
    BY <1>1 DEF EntryOK, Within, Block, Entries
  <2>2. h.arena[at.region] \in Regions
    BY <2>1 DEF ArenaOK
  <2> HIDE DEF at, n
  <2> QED BY <1>2, <2>1, <2>2 DEF Regions, Addresses
<1> HIDE DEF at, text, count
<1>4. ASSUME NEW k \in 0 .. (n - 1)
      PROVE  Read(h, Plus(at, k)) = Bytes(text, k)
  <2>1. PICK j : j = k + 1
    OBVIOUS
  <2>2. j \in 1 .. n /\ j - 1 = k
    BY <1>2, <2>1
  <2>3. /\ Held(h.mem, Block(at, n)) = [i \in 1 .. n |-> At(h.mem, Plus(at, i - 1))]
        /\ WordsOf(text) = [i \in 1 .. n |-> Bytes(text, i - 1)]
    BY DEF Held, Block, WordsOf
  <2> HIDE DEF n
  <2>4. At(h.mem, Plus(at, k)) = Bytes(text, k)
    BY <1>1, <2>2, <2>3
  <2> QED BY <2>4 DEF Read, At
<1>5. \A k \in 0 .. (n - 1) : Ends(Read(h, Plus(at, k))) <=> k = n - 1
  BY <1>1, <1>4, LastEnds DEF text
<1> HIDE DEF n
<1>6. n - 1 \in S /\ \A k \in S : n - 1 <= k /\ k \in Int
  <2>1. n - 1 \in 0 .. (n - 1) /\ n - 1 \in 0 .. count
    BY <1>2, <1>3
  <2>2. n - 1 \in S
    BY <1>5, <2>1
  <2>3. ASSUME NEW k \in S PROVE n - 1 <= k /\ k \in Int
    BY <1>2, <1>3, <1>5
  <2> QED BY <2>2, <2>3
<1>7. Min(S) = n - 1
  <2> HIDE DEF S
  <2>1. Min(S) \in S /\ \A y \in S : Min(S) <= y
    BY <1>6 DEF Min
  <2> QED BY <1>2, <1>6, <2>1
<1>8. WordsThere(h, name.at) = Min(S) + 1
  BY DEF WordsThere, S, at, count
<1> HIDE DEF S
<1> QED BY <1>2, <1>7, <1>8 DEF n, text

(* str_clone puts the words of a name in a block of their own.             *)
LEMMA StrCloneFacts ==
    ASSUME NEW h, IsState(h), Sound(h.arena, h.mem, h.vectors), NEW name,
           NameOK(h.arena, h.mem, h.vectors, name),
           NEW to, to = Top(h.arena, WordsThere(h, name.at)), NEW g, g = CloneOf(h, name.at)
    PROVE  /\ IsState(g) /\ Sound(g.arena, g.mem, g.vectors) /\ Spares(h, g)
           /\ g.vectors = h.vectors
           /\ \A u \in DOMAIN h.vectors : Says(h, g, u)
           /\ NameOK(g.arena, g.mem, g.vectors, [at |-> to, chars |-> name.chars])
<1> DEFINE at   == name.at
           text == Append(name.chars, NUL)
           n    == Words(Len(text))
           k    == Take(h, n)
           m2   == Copied(h, at, to, n)
           t    == h.vectors
<1>1. ArenaOK(h.arena) /\ TableOK(h.arena, t) /\ \A v \in DOMAIN t : PointOut(h.arena, h.mem, t, Held(h.mem, t[v]))
  BY DEF Sound
<1>2. /\ name.chars \in Seq(Characters) /\ EntryOK(h.arena, Block(at, n))
      /\ Held(h.mem, Block(at, n)) = WordsOf(text)
  BY DEF NameOK, Outside
<1>3. n \in Nat \ {0} /\ n \in Nat
  <2>1. Len(text) \in Nat \ {0}
    BY <1>2, AppendFacts, ListFacts DEF IsList
  <2> HIDE DEF text
  <2> QED BY <2>1, TextFills
<1>4. WordsThere(h, at) = n
  BY <1>1, ThereFacts
<1>5. IsState(k) /\ k.arena = Alloc(h.arena, n) /\ k.vectors = t
  BY <1>1, <1>3, TakeFacts
<1>6. to = Top(h.arena, n) /\ to \in Addresses /\ at \in Addresses
  <2>1. at \in Addresses
    BY <1>2 DEF EntryOK, Block, Entries
  <2> HIDE DEF n, at
  <2> QED BY <1>1, <1>3, <1>4, <2>1, AllocGivesFree DEF at
<1>7. g = [k EXCEPT !.mem = m2]
  BY <1>4, <1>6 DEF CloneOf
<1> HIDE DEF k, m2
<1>8. IsState(g) /\ g.arena = Alloc(h.arena, n) /\ g.vectors = t /\ g.mem = m2
  BY <1>5, <1>7 DEF IsState
<1> HIDE DEF n, text, at
<1>9. /\ \A b : (\A i \in 0 .. (n - 1) : b # Plus(to, i)) => At(g.mem, b) = At(h.mem, b)
      /\ \A i \in 0 .. (n - 1) : At(g.mem, Plus(to, i)) = At(h.mem, Plus(at, i))
  BY <1>3, <1>6, <1>8, CopiedWords DEF m2
<1>10. /\ ArenaOK(g.arena) /\ TableOK(g.arena, g.vectors) /\ Spares(h, g)
       /\ \A v \in DOMAIN h.vectors : Held(g.mem, h.vectors[v]) = Held(h.mem, h.vectors[v])
       /\ Outside(g.arena, g.vectors, Block(to, n))
  BY <1>1, <1>3, <1>6, <1>8, <1>9, BlockWritten
<1>11. ASSUME NEW u \in DOMAIN t
      PROVE  PointOut(g.arena, g.mem, g.vectors, Held(g.mem, g.vectors[u])) /\ Says(h, g, u)
  <2>1. PointOut(g.arena, g.mem, g.vectors, Held(h.mem, t[u]))
        /\ Spell(g.mem, Held(h.mem, t[u])) = Spell(h.mem, Held(h.mem, t[u]))
    BY <1>1, <1>10, WordsStay
  <2> QED BY <1>8, <1>10, <2>1 DEF Said, Says
<1>12. Sound(g.arena, g.mem, g.vectors)
  BY <1>8, <1>10, <1>11 DEF Sound
<1>13. Held(g.mem, Block(to, n)) = WordsOf(text)
  <2>1. ASSUME NEW i \in 1 .. n PROVE At(g.mem, Plus(to, i - 1)) = At(h.mem, Plus(at, i - 1))
    <3>1. i - 1 \in 0 .. (n - 1)
      BY <1>3
    <3> QED BY <1>9, <3>1
  <2>2. /\ Held(g.mem, Block(to, n)) = [i \in 1 .. n |-> At(g.mem, Plus(to, i - 1))]
        /\ Held(h.mem, Block(at, n)) = [i \in 1 .. n |-> At(h.mem, Plus(at, i - 1))]
    BY DEF Held, Block
  <2> QED BY <1>2, <2>1, <2>2 DEF n
<1>14. NameOK(g.arena, g.mem, g.vectors, [at |-> to, chars |-> name.chars])
  BY <1>2, <1>10, <1>13 DEF NameOK, text, n
<1> QED BY <1>8, <1>10, <1>11, <1>12, <1>14

-----------------------------------------------------------------------------
(* The lists the Strings implement.                                        *)

LEMMA SaidFacts ==
    ASSUME NEW a, NEW m, NEW t, Sound(a, m, t), NEW s \in DOMAIN t
    PROVE  /\ IsList(Said(m, t[s])) /\ Len(Said(m, t[s])) = t[s].length
           /\ \A i \in DOMAIN Said(m, t[s]) : Said(m, t[s])[i] \in Characters
<1> DEFINE words == Held(m, t[s])
<1>1. t[s].length \in Nat /\ PointOut(a, m, t, words)
  BY DEF Sound, TableOK, EntryOK, Entries
<1>2. IsList(words) /\ Len(words) = t[s].length
  BY <1>1, HeldIsSeq DEF IsList
<1> HIDE DEF words
<1>3. \A i \in DOMAIN words : CharOf(m, words[i]) \in Characters
  BY <1>1 DEF PointOut, PointsOut, CharOf, Pointer, Cell
<1>4. IsList(Spell(m, words)) /\ Len(Spell(m, words)) = t[s].length
      /\ \A i \in DOMAIN Spell(m, words) : Spell(m, words)[i] \in Characters
  BY <1>2, <1>3, SpellFacts DEF Spell
<1> QED BY <1>4 DEF Said, words

CharsThere(s) == Chars(Heap, s, strings[s])

LEMMA CharsSaid ==
    /\ \A s : strings[s] = vectors[s].length => CharsThere(s) = Said(mem, vectors[s])
    /\ \A s : strings'[s] = vectors'[s].length => CharsThere(s)' = Said(mem', vectors'[s])
<1>1. /\ \A s, i : CharAt(Heap, s, i) = CharOf(mem, At(mem, Plus(vectors[s].array, i)))
      /\ \A s, i : CharAt(Heap, s, i)' = CharOf(mem', At(mem', Plus(vectors'[s].array, i)))
  BY DEF CharAt, CharOf, Read, At, Heap, Place
<1>2. ASSUME NEW s, strings[s] = vectors[s].length PROVE CharsThere(s) = Said(mem, vectors[s])
  BY <1>1, <1>2 DEF CharsThere, Chars, Said, Spell, Held
<1>3. ASSUME NEW s, strings'[s] = vectors'[s].length PROVE CharsThere(s)' = Said(mem', vectors'[s])
  BY <1>1, <1>3 DEF CharsThere, Chars, Said, Spell, Held
<1> QED BY <1>2, <1>3

ListsNow == [s \in DOMAIN vectors |-> Said(mem, vectors[s])]

LEMMA TextsHeld ==
    /\ TextInv => [s \in Made |-> CharsThere(s)] = ListsNow
    /\ TextInv' => [s \in Made |-> CharsThere(s)]' = ListsNow'
<1>1. TextInv => [s \in Made |-> CharsThere(s)] = ListsNow
  BY CharsSaid DEF TextInv, ListsNow, Made
<1>2. TextInv' => [s \in Made |-> CharsThere(s)]' = ListsNow'
  <2> SUFFICES ASSUME TextInv' PROVE [s \in Made |-> CharsThere(s)]' = ListsNow'
    OBVIOUS
  <2>1. DOMAIN strings' = DOMAIN vectors' /\ \A s \in DOMAIN vectors' : strings'[s] = vectors'[s].length
    BY DEF TextInv
  <2>2. \A s \in DOMAIN strings' : CharsThere(s)' = Said(mem', vectors'[s])
    BY <2>1, CharsSaid
  <2> HIDE DEF CharsThere
  <2> QED BY <2>1, <2>2 DEF ListsNow, Made
<1> QED BY <1>1, <1>2

LEMMA TextsAre ==
    /\ TextInv => [s \in Made |-> Chars(Heap, s, strings[s])] = ListsNow
    /\ TextInv' => [s \in Made |-> Chars(Heap, s, strings[s])]' = ListsNow'
BY TextsHeld DEF CharsThere

LEMMA HeapSound ==
    ASSUME TextInv
    PROVE  /\ IsState(Heap) /\ Heap.arena = arena /\ Heap.mem = mem /\ Heap.vectors = vectors
           /\ Sound(Heap.arena, Heap.mem, Heap.vectors) /\ DOMAIN vectors \subseteq Handles
BY HeapIsState DEF TextInv, Sound, TableOK

LEMMA TextsGiveUp ==
    ASSUME TextInv, Running, status' = "aborted",
           UNCHANGED <<arena, mem, vectors, result, strings, names>>
    PROVE  TextInv' /\ Texts!Next
<1>1. TextInv'
  BY DEF TextInv
<1>2. ListsNow' = ListsNow
  BY DEF ListsNow
<1>3. Texts!GiveUp
  BY <1>1, <1>2, TextsAre DEF Texts!GiveUp
<1> QED BY <1>1, <1>3 DEF Texts!Next, Running

LEMMA OneChanged ==
    ASSUME TextInv, NEW s \in Handles, NEW h, NEW text, IsList(text), Changes(Heap, h, s, text),
           arena' = h.arena, mem' = h.mem, vectors' = h.vectors, UNCHANGED <<status, names>>,
           strings' = WithLength(s, Len(text))
    PROVE  /\ TextInv'
           /\ DOMAIN ListsNow' = DOMAIN ListsNow \cup {s} /\ ListsNow'[s] = text
           /\ \A u \in DOMAIN ListsNow \ {s} : ListsNow'[u] = ListsNow[u]
<1>1. /\ Sound(arena', mem', vectors') /\ Spares(Heap, h)
      /\ DOMAIN vectors' = DOMAIN vectors \cup {s}
      /\ Said(mem', vectors'[s]) = text
      /\ \A u \in DOMAIN vectors \ {s} : Said(mem', vectors'[u]) = Said(mem, vectors[u])
  BY HeapSound DEF Changes, Says
<1>2. DOMAIN strings = DOMAIN vectors /\ \A v \in DOMAIN vectors : strings[v] = vectors[v].length
  BY DEF TextInv
<1>3. DOMAIN strings' = DOMAIN vectors' /\ strings'[s] = Len(text)
      /\ \A v \in DOMAIN vectors \ {s} : strings'[v] = strings[v]
  BY <1>1, <1>2 DEF WithLength, Made
<1>4. \A v \in DOMAIN vectors' : strings'[v] = vectors'[v].length
  <2> TAKE v \in DOMAIN vectors'
  <2>1. Len(Said(mem', vectors'[v])) = vectors'[v].length
    BY <1>1, SaidFacts
  <2>2. CASE v = s
    BY <1>1, <1>3, <2>1, <2>2
  <2>3. CASE v # s
    <3>1. v \in DOMAIN vectors \ {s}
      BY <1>1, <2>3
    <3>2. Len(Said(mem, vectors[v])) = vectors[v].length
      BY <3>1, SaidFacts DEF TextInv
    <3> QED BY <1>1, <1>2, <1>3, <2>1, <3>1, <3>2
  <2> QED BY <2>2, <2>3
<1>5. \A k \in DOMAIN names : NameOK(arena', mem', vectors', names[k])
  BY <1>1, HeapSound, NameStays DEF TextInv
<1>6. TextInv'
  BY <1>1, <1>3, <1>4, <1>5 DEF TextInv
<1>7. ListsNow' = [u \in DOMAIN vectors' |-> Said(mem', vectors'[u])]
  BY DEF ListsNow
<1> QED BY <1>1, <1>6, <1>7 DEF ListsNow

(* A call that makes or changes the String s, or finds no memory.          *)
LEMMA CallFacts ==
    ASSUME TextInv, Running, NEW s \in Handles, NEW h, NEW text, IsList(text),
           Changes(Heap, h, s, text), BecomesWith(h, WithLength(s, Len(text))),
           \/ s \notin DOMAIN vectors /\ text \in Literals \cup {<<>>}
           \/ s \notin DOMAIN vectors /\ \E u \in DOMAIN vectors : text = Said(mem, vectors[u])
           \/ s \in DOMAIN vectors /\ \E c \in Characters : text = Append(Said(mem, vectors[s]), c)
    PROVE  TextInv' /\ Texts!Next
<1>1. CASE ~h.ok
  <2>1. status' = "aborted" /\ UNCHANGED <<arena, mem, vectors, result, strings, names>>
    BY <1>1 DEF BecomesWith, Becomes
  <2> QED BY <2>1, TextsGiveUp
<1>2. CASE h.ok
  <2>1. /\ arena' = h.arena /\ mem' = h.mem /\ vectors' = h.vectors
        /\ UNCHANGED <<status, names>> /\ UNCHANGED <<result, status>>
        /\ strings' = WithLength(s, Len(text))
    BY <1>2 DEF BecomesWith, Becomes
  <2>2. /\ TextInv'
        /\ DOMAIN ListsNow' = DOMAIN ListsNow \cup {s} /\ ListsNow'[s] = text
        /\ \A u \in DOMAIN ListsNow \ {s} : ListsNow'[u] = ListsNow[u]
    BY <2>1, OneChanged
  <2>3. Texts!OnlyOn(s)
    BY <2>1, <2>2, TextsAre DEF Texts!OnlyOn, Texts!MadeNow, Texts!Made
  <2>4. DOMAIN ListsNow = DOMAIN vectors /\ \A u \in DOMAIN vectors : ListsNow[u] = Said(mem, vectors[u])
    BY DEF ListsNow
  <2>5. CASE s \notin DOMAIN vectors /\ text \in Literals \cup {<<>>}
    <3>1. Texts!New(s)
      BY <2>2, <2>4, <2>5, TextsAre DEF Texts!New, Texts!MadeNow, Texts!Made
    <3> QED BY <2>2, <2>3, <3>1 DEF Texts!Use, Texts!Next, Running
  <2>6. CASE s \notin DOMAIN vectors /\ \E u \in DOMAIN vectors : text = Said(mem, vectors[u])
    <3>1. Texts!Clone(s)
      BY <2>2, <2>4, <2>6, TextsAre DEF Texts!Clone, Texts!MadeNow, Texts!Made
    <3> QED BY <2>2, <2>3, <3>1 DEF Texts!Use, Texts!Next, Running
  <2>7. CASE s \in DOMAIN vectors /\ \E c \in Characters : text = Append(Said(mem, vectors[s]), c)
    <3>1. Texts!Push(s)
      BY <2>2, <2>4, <2>7, TextsAre DEF Texts!Push, Texts!MadeNow, Texts!Made
    <3> QED BY <2>2, <2>3, <3>1 DEF Texts!Use, Texts!Next, Running
  <2> QED BY <2>5, <2>6, <2>7
<1> QED BY <1>1, <1>2

LEMMA StringNewStep ==
    ASSUME TextInv, StringNew
    PROVE  TextInv' /\ Texts!Next
<1>1. PICK s \in Handles \ Live : BecomesWith(NewString(Heap, s), WithLength(s, 0))
  BY DEF StringNew
<1>2. Running /\ s \notin DOMAIN vectors
  BY DEF StringNew, Live
<1> DEFINE h == NewString(Heap, s)
<1>3. Changes(Heap, h, s, <<>>)
  BY <1>2, HeapSound, NewStringFacts
<1> HIDE DEF h
<1>4. IsList(<<>>) /\ Len(<<>>) = 0 /\ <<>> \in Literals \cup {<<>>}
  BY ShortLists
<1>5. BecomesWith(h, WithLength(s, Len(<<>>)))
  BY <1>1, <1>4 DEF h
<1> QED BY <1>2, <1>3, <1>4, <1>5, CallFacts

LEMMA StringOfStep ==
    ASSUME TextInv, StringOf
    PROVE  TextInv' /\ Texts!Next
<1>1. PICK s \in Handles \ Live, l \in Literals :
          BecomesWith(AppendAll(NewString(Heap, s), s, l), WithLength(s, Len(l)))
  BY DEF StringOf
<1>2. Running /\ s \notin DOMAIN vectors
  BY DEF StringOf, Live
<1>3. l \in Seq(Characters)
  BY StringsAssumption
<1>4. IsList(l) /\ \A i \in DOMAIN l : l[i] \in Characters
  BY <1>3 DEF IsList
<1> DEFINE h == AppendAll(NewString(Heap, s), s, l)
<1>5. Changes(Heap, h, s, l)
  BY <1>2, <1>4, HeapSound, AppendAllFacts
<1>6. BecomesWith(h, WithLength(s, Len(l)))
  BY <1>1
<1> HIDE DEF h
<1> QED BY <1>2, <1>4, <1>5, <1>6, CallFacts

LEMMA StringAppendStep ==
    ASSUME TextInv, StringAppend
    PROVE  TextInv' /\ Texts!Next
<1>1. PICK s \in Made, c \in Characters :
          BecomesWith(AppendChar(Heap, s, c), WithLength(s, strings[s] + 1))
  BY DEF StringAppend
<1>2. Running /\ s \in DOMAIN vectors /\ s \in Handles /\ strings[s] = vectors[s].length
  BY HeapSound DEF StringAppend, Made, TextInv
<1> DEFINE h    == AppendChar(Heap, s, c)
           old  == Said(mem, vectors[s])
           text == Append(old, c)
<1>3. IsList(old) /\ Len(old) = strings[s]
  BY <1>2, SaidFacts DEF TextInv
<1>4. IsList(text) /\ Len(text) = strings[s] + 1
  BY <1>3, AppendFacts
<1>5. Changes(Heap, h, s, text)
  BY <1>2, HeapSound, AppendCharFacts
<1>6. BecomesWith(h, WithLength(s, Len(text)))
  BY <1>1, <1>4
<1>7. text = Append(Said(mem, vectors[s]), c)
  OBVIOUS
<1> HIDE DEF h, text
<1> QED BY <1>2, <1>4, <1>5, <1>6, <1>7, CallFacts

LEMMA StringCloneStep ==
    ASSUME TextInv, StringClone
    PROVE  TextInv' /\ Texts!Next
<1>1. PICK s \in Made, t \in Handles \ Live :
          BecomesWith(AppendAll(NewString(Heap, t), t, Chars(Heap, s, strings[s])),
                      WithLength(t, strings[s]))
  BY DEF StringClone
<1>2. Running /\ t \notin DOMAIN vectors /\ s \in DOMAIN vectors /\ strings[s] = vectors[s].length
  BY DEF StringClone, Made, TextInv, Live
<1> DEFINE text == Said(mem, vectors[s])
           h    == AppendAll(NewString(Heap, t), t, text)
<1>3. Chars(Heap, s, strings[s]) = text
  BY <1>2, CharsSaid DEF CharsThere
<1>4. IsList(text) /\ Len(text) = strings[s] /\ \A i \in DOMAIN text : text[i] \in Characters
  BY <1>2, SaidFacts DEF TextInv
<1>5. \E u \in DOMAIN vectors : text = Said(mem, vectors[u])
  BY <1>2
<1> HIDE DEF text
<1>6. Changes(Heap, h, t, text)
  BY <1>2, <1>4, HeapSound, AppendAllFacts
<1>7. BecomesWith(h, WithLength(t, Len(text)))
  BY <1>1, <1>3, <1>4
<1> HIDE DEF h
<1> QED BY <1>2, <1>4, <1>5, <1>6, <1>7, CallFacts

(* A call that makes one name more and changes no String.                  *)
LEMMA NameAdded ==
    ASSUME TextInv, Running, NEW h, NEW name,
           Becomes(h), names' = IF h.ok THEN Append(names, name) ELSE names,
           UNCHANGED <<result, strings>>,
           Sound(h.arena, h.mem, h.vectors), Spares(Heap, h), h.vectors = vectors,
           \A u \in DOMAIN vectors : Says(Heap, h, u),
           NameOK(h.arena, h.mem, h.vectors, name)
    PROVE  TextInv' /\ [Texts!Next]_Texts!vars
<1>1. CASE ~h.ok
  <2>1. status' = "aborted" /\ UNCHANGED <<arena, mem, vectors, result, strings, names>>
    BY <1>1 DEF Becomes
  <2> QED BY <2>1, TextsGiveUp
<1>2. CASE h.ok
  <2>1. /\ arena' = h.arena /\ mem' = h.mem /\ vectors' = h.vectors
        /\ names' = Append(names, name) /\ UNCHANGED <<status, result, strings>>
    BY <1>2 DEF Becomes
  <2>2. /\ IsList(names')
        /\ \A k \in DOMAIN names' : NameOK(arena', mem', vectors', names'[k])
    <3>1. /\ IsList(names) /\ DOMAIN names = 1 .. Len(names) /\ Len(names) \in Nat
          /\ \A k \in DOMAIN names : NameOK(h.arena, h.mem, h.vectors, names[k])
      <4>1. IsList(names) /\ \A k \in DOMAIN names : NameOK(arena, mem, vectors, names[k])
        BY DEF TextInv
      <4>2. \A k \in DOMAIN names : NameOK(Heap.arena, Heap.mem, Heap.vectors, names[k])
        BY <4>1, HeapSound
      <4>3. \A k \in DOMAIN names : NameOK(h.arena, h.mem, h.vectors, names[k])
        BY <4>2, NameStays
      <4> QED BY <4>1, <4>3, ListFacts
    <3>2. /\ IsList(names') /\ DOMAIN names' = 1 .. (Len(names) + 1)
          /\ names'[Len(names) + 1] = name /\ \A k \in 1 .. Len(names) : names'[k] = names[k]
      BY <2>1, <3>1, AppendFacts
    <3>3. ASSUME NEW k \in DOMAIN names' PROVE NameOK(h.arena, h.mem, h.vectors, names'[k])
      <4>1. CASE k = Len(names) + 1
        BY <3>2, <4>1
      <4>2. CASE k # Len(names) + 1
        <5>1. k \in 1 .. Len(names)
          BY <3>1, <3>2, <4>2
        <5> QED BY <3>1, <3>2, <5>1
      <4> QED BY <4>1, <4>2
    <3> QED BY <2>1, <3>2, <3>3
  <2>3. TextInv'
    BY <2>1, <2>2 DEF TextInv
  <2>4. ListsNow' = ListsNow
    BY <2>1, HeapSound DEF ListsNow, Says
  <2>5. UNCHANGED Texts!vars
    BY <2>1, <2>3, <2>4, TextsAre DEF Texts!vars
  <2> QED BY <2>3, <2>5
<1> QED BY <1>1, <1>2

LEMMA AsStrStep ==
    ASSUME TextInv, AsStr
    PROVE  TextInv' /\ [Texts!Next]_Texts!vars
<1>1. PICK s \in Made :
          LET at    == Top(arena, Room(strings[s]))
              chars == Chars(Heap, s, strings[s])
              h     == Written(Take(Heap, Room(strings[s])), at, Append(chars, NUL))
          IN  /\ Becomes(h)
              /\ names' = IF h.ok THEN Append(names, [at |-> at, chars |-> chars]) ELSE names
  BY DEF AsStr
<1>2. /\ Running /\ s \in DOMAIN vectors /\ strings[s] = vectors[s].length
      /\ UNCHANGED <<result, strings>>
  BY DEF AsStr, Made, TextInv
<1> DEFINE chars == Said(mem, vectors[s])
           room  == Room(Len(chars))
           at    == Top(Heap.arena, room)
           h     == Written(Take(Heap, room), at, Append(chars, NUL))
           name  == [at |-> at, chars |-> chars]
<1>3. Chars(Heap, s, strings[s]) = chars
  BY <1>2, CharsSaid DEF CharsThere
<1>4. chars \in Seq(Characters) /\ Len(chars) = strings[s]
  BY <1>2, SaidFacts, ElementsOf DEF TextInv
<1> HIDE DEF chars
<1>5. Becomes(h) /\ names' = IF h.ok THEN Append(names, name) ELSE names
  BY <1>1, <1>3, <1>4, HeapSound
<1>6. /\ Sound(h.arena, h.mem, h.vectors) /\ Spares(Heap, h) /\ h.vectors = vectors
      /\ \A u \in DOMAIN vectors : Says(Heap, h, u)
      /\ NameOK(h.arena, h.mem, h.vectors, name)
  BY <1>4, HeapSound, AsStrFacts
<1> HIDE DEF h, name
<1> QED BY <1>2, <1>5, <1>6, NameAdded

LEMMA StrCloneStep ==
    ASSUME TextInv, StrClone
    PROVE  TextInv' /\ [Texts!Next]_Texts!vars
<1>1. PICK k \in DOMAIN names :
          LET to == Top(arena, WordsThere(Heap, names[k].at))
              h  == CloneOf(Heap, names[k].at)
          IN  /\ Becomes(h)
              /\ names' = IF h.ok THEN Append(names, [at |-> to, chars |-> names[k].chars])
                          ELSE names
  BY DEF StrClone
<1>2. Running /\ UNCHANGED <<result, strings>>
  BY DEF StrClone
<1> DEFINE to   == Top(Heap.arena, WordsThere(Heap, names[k].at))
           h    == CloneOf(Heap, names[k].at)
           name == [at |-> to, chars |-> names[k].chars]
<1>3. Becomes(h) /\ names' = IF h.ok THEN Append(names, name) ELSE names
  BY <1>1, HeapSound
<1>4. NameOK(Heap.arena, Heap.mem, Heap.vectors, names[k])
  BY HeapSound DEF TextInv
<1>5. /\ Sound(h.arena, h.mem, h.vectors) /\ Spares(Heap, h) /\ h.vectors = vectors
      /\ \A u \in DOMAIN vectors : Says(Heap, h, u)
      /\ NameOK(h.arena, h.mem, h.vectors, name)
  BY <1>4, HeapSound, StrCloneFacts
<1> HIDE DEF h, name
<1> QED BY <1>2, <1>3, <1>5, NameAdded

LEMMA TextStepFacts ==
    ASSUME TextInv, [StringNext]_stringVars
    PROVE  TextInv' /\ [Texts!Next]_Texts!vars
<1>1. CASE StringNext
  BY <1>1, StringNewStep, StringOfStep, StringAppendStep, StringCloneStep, AsStrStep, StrCloneStep DEF StringNext
<1>2. CASE UNCHANGED stringVars
  <2>1. TextInv'
    BY <1>2 DEF TextInv, stringVars, vars
  <2>2. ListsNow' = ListsNow
    BY <1>2 DEF ListsNow, stringVars, vars
  <2> QED BY <1>2, <2>1, <2>2, TextsAre DEF Texts!vars, stringVars, vars
<1> QED BY <1>1, <1>2

LEMMA TextInitFacts ==
    ASSUME StringInit
    PROVE  TextInv /\ Texts!Init
<1>1. ArenaOK(<<>>)
  BY DEF ArenaOK
<1>2. DOMAIN vectors = {} /\ DOMAIN strings = {} /\ DOMAIN names = {}
  BY DEF StringInit, Init
<1>3. TextInv
  BY <1>1, <1>2, ShortLists DEF TextInv, Sound, TableOK, StringInit, Init
<1>4. [s \in Made |-> Chars(Heap, s, strings[s])] = [l \in {} |-> <<>>]
  BY <1>2 DEF Made
<1> QED BY <1>3, <1>4 DEF Texts!Init, StringInit, Init

-----------------------------------------------------------------------------
(* The theorems.                                                           *)

LEMMA TextInvHolds == StringSpec => []TextInv
<1>1. StringInit => TextInv
  BY TextInitFacts
<1>2. TextInv /\ [StringNext]_stringVars => TextInv'
  BY TextStepFacts
<1> QED BY <1>1, <1>2, PTL DEF StringSpec

(* A String is as long as its vector, however it was made: string_clone    *)
(* appends as many characters as it read.                                  *)
THEOREM StringsTyped == StringSpec => []StringTypeOK
<1>1. TextInv => StringTypeOK
  BY DEF TextInv, Sound, ArenaOK, TableOK, EntryOK, Entries, Within, TypeOK, StringTypeOK, Live, Made
<1> QED BY <1>1, TextInvHolds, PTL

(* The C string as_str returned, and every copy str_clone made of it,      *)
(* stays what the String was then, its end included, whatever is           *)
(* allocated, appended, cloned or grown afterwards: the names in the tree  *)
(* and the tables are never written again.                                 *)
THEOREM NamesStay == StringSpec => []NamesKept
<1>1. TextInv => NamesKept
  <2> SUFFICES ASSUME TextInv, NEW k \in DOMAIN names
               PROVE  InMemory(Heap, names[k].at, Append(names[k].chars, NUL))
    BY DEF NamesKept
  <2> DEFINE at   == names[k].at
             text == Append(names[k].chars, NUL)
             n    == Words(Len(text))
  <2>1. Outside(arena, vectors, Block(at, n)) /\ Held(mem, Block(at, n)) = WordsOf(text)
    BY DEF TextInv, NameOK
  <2>2. n \in Nat
    BY <2>1 DEF Outside, EntryOK, Entries, Block
  <2>3. /\ Held(mem, Block(at, n)) = [i \in 1 .. n |-> At(mem, Plus(at, i - 1))]
        /\ WordsOf(text) = [i \in 1 .. n |-> Bytes(text, i - 1)]
    BY DEF Held, Block, WordsOf
  <2>4. ASSUME NEW i \in 0 .. (n - 1) PROVE Read(Heap, Plus(at, i)) = Bytes(text, i)
    <3>1. PICK j : j = i + 1
      OBVIOUS
    <3>2. j \in 1 .. n /\ j - 1 = i
      BY <2>2, <3>1
    <3> HIDE DEF at, text, n
    <3>3. At(mem, Plus(at, i)) = Bytes(text, i)
      BY <2>1, <2>3, <3>2
    <3> QED BY <3>3 DEF Read, At, Heap
  <2> QED BY <2>4 DEF InMemory
<1> QED BY <1>1, TextInvHolds, PTL

(* The Strings implement lists of characters: an append to one, its growth *)
(* or its clone is not seen in another, and as_str in none.                *)
THEOREM StringsAreTexts == StringSpec => ImplementsTexts
<1>1. StringInit => Texts!Init
  BY TextInitFacts
<1>2. TextInv /\ [StringNext]_stringVars => [Texts!Next]_Texts!vars
  BY TextStepFacts
<1> QED BY <1>1, <1>2, TextInvHolds, PTL DEF StringSpec, ImplementsTexts, Texts!Spec

=============================================================================
