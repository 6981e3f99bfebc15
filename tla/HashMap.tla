------------------------------- MODULE HashMap -------------------------------
(***************************************************************************)
(* The hash maps of src/hashmap.c, which keep the scopes and the types of  *)
(* the semantic checker: a table of linked lists, with the nodes malloc    *)
(* handed out and free took back.                                          *)
(*                                                                         *)
(* Every operation runs alone, so each is one step; what the steps can get *)
(* wrong together is the memory.                                           *)
(*                                                                         *)
(* Nothing uses the definitions called Faulty...: each is the definition   *)
(* that follows it with a mistake the properties find.                     *)
(***************************************************************************)
EXTENDS Integers, SequencesExt, FiniteSets

CONSTANTS
    Handles,   \* addresses of maps
    Keys,
    Data,
    Buckets,   \* how many places of the table hash() & (size - 1) reaches
    Bucket,    \* the place of a key
    MaxNodes,  \* how many nodes there is memory for
    NULL,
    Types      \* what type_env_init adds, in its order: [key, data]

ASSUME HashMapAssumption ==
    /\ Buckets \in Nat
    /\ Bucket \in [Keys -> 0 .. (Buckets - 1)]
    /\ MaxNodes \in Nat
    /\ NULL \notin Data \cup Nat
    /\ Types \in Seq([key : Keys, data : Data])
    /\ \A i, j \in DOMAIN Types : Types[i].key = Types[j].key => i = j

VARIABLES
    heap,     \* the nodes malloc handed out: [key, data, next]
    tables,   \* of every map there is, the first node at each place
    status    \* running, exit1 (my_malloc found no memory) or crash
vars == <<heap, tables, status>>

-----------------------------------------------------------------------------
(* A list is followed until NULL, or until it leaves the nodes there are.  *)
Chain(nodes, first) ==
    LET from[n \in Nat \cup {NULL}] ==
            IF n = NULL THEN <<>>
            ELSE IF n \notin DOMAIN nodes THEN <<n>>
            ELSE <<n>> \o from[nodes[n].next]
    IN  from[first]

(* The operations, on a state of the memory: [heap, tables, ok].           *)
Memory == [heap |-> heap, tables |-> tables, ok |-> TRUE]

(* Which free address malloc returns makes no difference; the lowest is    *)
(* used again as soon as it is free.                                       *)
Free(mem)  == (1 .. MaxNodes) \ DOMAIN mem.heap
Fresh(mem) == CHOOSE n \in Free(mem) : \A m \in Free(mem) : n <= m
Updated(f, x, y) == [z \in DOMAIN f \cup {x} |-> IF z = x THEN y ELSE f[z]]

(* insert(): the node is made first.  A key that is there keeps its node,  *)
(* and the new one is freed; otherwise the new node follows the last.      *)
FaultyInsert(mem, m, b, data, key) ==
    LET n     == Fresh(mem)
        node  == [key |-> key, data |-> data, next |-> NULL]
        chain == Chain(mem.heap, mem.tables[m][b])
        same  == {i \in DOMAIN chain : mem.heap[chain[i]].key = key}
        made  == Updated(mem.heap, n, node)
    IN  IF chain = <<>>
        THEN [mem EXCEPT !.heap = made, !.tables[m][b] = n]
        ELSE IF same # {}
        THEN [mem EXCEPT !.heap = [made EXCEPT ![chain[Min(same)]].data = data]]
        ELSE [mem EXCEPT !.heap = [made EXCEPT ![Last(chain)].next = n]]
Insert(mem, m, b, data, key) ==
    LET n     == Fresh(mem)
        node  == [key |-> key, data |-> data, next |-> NULL]
        chain == Chain(mem.heap, mem.tables[m][b])
        same  == {i \in DOMAIN chain : mem.heap[chain[i]].key = key}
        made  == Updated(mem.heap, n, node)
    IN  IF chain = <<>>
        THEN [mem EXCEPT !.heap = made, !.tables[m][b] = n]
        ELSE IF same # {}   \* the new node is freed again
        THEN [mem EXCEPT !.heap[chain[Min(same)]].data = data]
        ELSE [mem EXCEPT !.heap = [made EXCEPT ![Last(chain)].next = n]]

Add(mem, m, data, key) ==
    IF ~mem.ok \/ Free(mem) = {} THEN [mem EXCEPT !.ok = FALSE]
    ELSE Insert(mem, m, Bucket[key], data, key)

AddAll(mem, m, entries) ==
    FoldLeft(LAMBDA s, e : Add(s, m, e.data, e.key), mem, entries)

Find(mem, first, key) ==
    LET chain == Chain(mem.heap, first)
        same  == {i \in DOMAIN chain : mem.heap[chain[i]].key = key}
    IN  IF same = {} THEN NULL ELSE mem.heap[chain[Min(same)]].data

Places == 0 .. (Buckets - 1)
FaultyEmptyTable == [b \in 1 .. Buckets |-> NULL]
EmptyTable == [b \in Places |-> NULL]
New(mem, m) == [mem EXCEPT !.tables = Updated(@, m, EmptyTable)]

(* The nodes of a map, place by place.                                     *)
NodesOf(mem, m) == FlattenSeq([i \in 1 .. Buckets |-> Chain(mem.heap, mem.tables[m][i - 1])])

Becomes(mem) ==
    IF mem.ok
    THEN heap' = mem.heap /\ tables' = mem.tables /\ UNCHANGED status
    ELSE status' = "exit1" /\ UNCHANGED <<heap, tables>>

-----------------------------------------------------------------------------
(* The calls.  A caller hands in maps that were made and not freed.        *)
Live == DOMAIN tables
Running == status = "running"

HashmapNew ==
    /\ Running
    /\ \E m \in Handles \ Live : Becomes(New(Memory, m))

(* hashmap_new may find no memory.  For the table, which calloc makes, it  *)
(* does not look, and the first use reads through NULL.                    *)
NoTable ==
    /\ Running
    /\ Free(Memory) = {}
    /\ status' \in {"exit1", "crash"}
    /\ UNCHANGED <<heap, tables>>

HashmapAdd ==
    /\ Running
    /\ \E m \in Live, key \in Keys, data \in Data : Becomes(Add(Memory, m, data, key))

TypeEnvInit ==
    /\ Running
    /\ \E m \in Live : Becomes(AddAll(Memory, m, Types))

(* hashmap_get, which changes nothing.                                     *)
Found(m, key) == Find(Memory, tables[m][Bucket[key]], key)

(* The entries are added one by one; the data is shared.                   *)
FaultySymtabClone ==
    /\ Running
    /\ \E m \in Live, c \in Handles \ Live : tables' = Updated(tables, c, tables[m])
    /\ UNCHANGED <<heap, status>>
SymtabClone ==
    /\ Running
    /\ \E m \in Live, c \in Handles \ Live :
           LET nodes == NodesOf(Memory, m)
           IN  Becomes(AddAll(New(Memory, c), c, [i \in DOMAIN nodes |-> heap[nodes[i]]]))

(* hashmap_free and type_env_free: the next node is read before a node is  *)
(* freed.                                                                  *)
HashmapFree ==
    /\ Running
    /\ \E m \in Live :
           /\ heap' = [n \in DOMAIN heap \ Range(NodesOf(Memory, m)) |-> heap[n]]
           /\ tables' = [l \in Live \ {m} |-> tables[l]]
    /\ UNCHANGED status

Init ==
    /\ heap = <<>>
    /\ tables = <<>>
    /\ status = "running"

Next ==
    \/ HashmapNew \/ NoTable \/ HashmapAdd \/ TypeEnvInit
    \/ SymtabClone \/ HashmapFree

Spec == Init /\ [][Next]_vars

-----------------------------------------------------------------------------
(* Nodes and tables have their fields.                                     *)
TypeOK ==
    /\ DOMAIN heap \subseteq 1 .. MaxNodes
    /\ \A n \in DOMAIN heap : /\ heap[n].key \in Keys
                              /\ heap[n].data \in Data
                              /\ heap[n].next \in Nat \cup {NULL}
    /\ Live \subseteq Handles
    /\ \A m \in Live : tables[m] \in [Places -> Nat \cup {NULL}]
    /\ status \in {"running", "exit1", "crash"}

(* The lists, one at each place of each map.                               *)
Spots == {<<m, b>> : m \in Live, b \in Places}
ChainAt(p) == Chain(heap, tables[p[1]][p[2]])
NoneLost   == DOMAIN heap = UNION {Range(ChainAt(p)) : p \in Spots}
NoneShared == \A p, q \in Spots : \A i \in DOMAIN ChainAt(p), j \in DOMAIN ChainAt(q) :
                  ChainAt(p)[i] = ChainAt(q)[j] => p = q /\ i = j
InPlace    == \A p \in Spots : \A i \in DOMAIN ChainAt(p) :
                  Bucket[heap[ChainAt(p)[i]].key] = p[2]
KeysDiffer == \A p \in Spots : \A i, j \in DOMAIN ChainAt(p) :
                  heap[ChainAt(p)[i]].key = heap[ChainAt(p)[j]].key => i = j

(* No node is lost, shared, or followed after it was freed: every node     *)
(* malloc handed out is in exactly one list, once, and at the place of its *)
(* key; no key is twice in a map.                                          *)
HeapExact == NoneLost /\ NoneShared /\ InPlace /\ KeysDiffer

(* What hashmap_get finds are the maps of Maps: adding overwrites, a clone *)
(* starts with the same entries and then lives its own life, and freeing a *)
(* map leaves the others alone.                                            *)
EntriesOf(m) == [key \in {k \in Keys : Found(m, k) # NULL} |-> Found(m, key)]
Abstract == INSTANCE Maps WITH
    maps  <- [m \in Live |-> EntriesOf(m)],
    Types <- [key \in {Types[i].key : i \in DOMAIN Types} |->
                 Types[CHOOSE i \in DOMAIN Types : Types[i].key = key].data]
ImplementsMaps == Abstract!Spec

=============================================================================
