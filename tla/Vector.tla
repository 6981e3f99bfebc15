------------------------------- MODULE Vector -------------------------------
(***************************************************************************)
(* The growing arrays of src/util.c, which hold the tokens, the arguments, *)
(* the statements and the functions: several of them grow by turns in one  *)
(* arena.                                                                  *)
(*                                                                         *)
(* Nothing uses the definitions called Faulty...: each is the definition   *)
(* that follows it with a mistake the properties find.                     *)
(***************************************************************************)
EXTENDS Arena

CONSTANTS
    Handles,      \* addresses of vectors
    Values,       \* what void * points to
    InitSize,     \* VECTOR_INIT_SIZE
    StructWords,  \* the words of a struct Vector
    Garbage,      \* what a word holds that nobody wrote
    MaxLength     \* how long the vectors of the model become

ASSUME VectorAssumption ==
    /\ InitSize \in Nat \ {0}
    /\ StructWords \in Nat
    /\ Garbage \notin Values
    /\ MaxLength \in Nat

VARIABLES
    arena,     \* default_arena
    mem,       \* the words that were written, by address
    vectors,   \* of every vector there is, [array, size, length]
    result,    \* what the last call of vector_get returned
    status     \* running, exit1 (an index out of range), aborted (no memory)
vars == <<arena, mem, vectors, result, status>>

-----------------------------------------------------------------------------
(* The operations, on a state of the memory.                               *)
Heap == [arena |-> arena, mem |-> mem, vectors |-> vectors, ok |-> TRUE]

Take(h, size) == [h EXCEPT !.arena = Alloc(@, size), !.ok = @ /\ MayAlloc(h.arena, size)]

Read(h, address) == IF address \in DOMAIN h.mem THEN h.mem[address] ELSE Garbage
Write(h, address, x) ==
    [h EXCEPT !.mem = [a \in DOMAIN @ \cup {address} |-> IF a = address THEN x ELSE @[a]]]

Place(h, v, i) == Plus(h.vectors[v].array, i)

(* vector_new: the struct and then the array.                              *)
Fresh(array) == [array |-> array, size |-> InitSize, length |-> 0]
Make(h, v) ==
    LET s == Take(h, StructWords)
        array == Top(s.arena, InitSize)
    IN  [Take(s, InitSize) EXCEPT
            !.vectors = [u \in DOMAIN @ \cup {v} |-> IF u = v THEN Fresh(array) ELSE @[u]]]

(* arena_realloc copies as many words as the old array had.                *)
FaultyCopied(h, from, to, n) ==
    LET target == {Plus(to, i) : i \in 0 .. (n \div 2 - 1)}
        source(a) == Plus(from, a.offset - to.offset)
    IN  [a \in DOMAIN h.mem \cup target |->
            IF a \in target THEN Read(h, source(a)) ELSE h.mem[a]]
Copied(h, from, to, n) ==
    LET target == {Plus(to, i) : i \in 0 .. (n - 1)}
        source(a) == Plus(from, a.offset - to.offset)
    IN  [a \in DOMAIN h.mem \cup target |->
            IF a \in target THEN Read(h, source(a)) ELSE h.mem[a]]

FaultyGrow(h, v) ==
    LET old == h.vectors[v]
        to  == Top(h.arena, old.size)
    IN  [Take(h, old.size) EXCEPT
            !.mem = Copied(h, old.array, to, old.size),
            !.vectors[v] = [old EXCEPT !.array = to, !.size = 2 * @]]
Grow(h, v) ==
    LET old == h.vectors[v]
        to  == Top(h.arena, 2 * old.size)
    IN  [Take(h, 2 * old.size) EXCEPT
            !.mem = Copied(h, old.array, to, old.size),
            !.vectors[v] = [old EXCEPT !.array = to, !.size = 2 * @]]

FaultyFull(h, v) == h.vectors[v].length > h.vectors[v].size
Full(h, v) == h.vectors[v].length >= h.vectors[v].size
Push(h, v, x) ==
    LET g == IF Full(h, v) THEN Grow(h, v) ELSE h
    IN  [Write(g, Place(g, v, g.vectors[v].length), x) EXCEPT !.vectors[v].length = @ + 1]

Becomes(h) ==
    IF h.ok THEN arena' = h.arena /\ mem' = h.mem /\ vectors' = h.vectors /\ UNCHANGED status
    ELSE status' = "aborted" /\ UNCHANGED <<arena, mem, vectors>>

-----------------------------------------------------------------------------
(* The calls.                                                              *)
Live    == DOMAIN vectors
Running == status = "running"

InRange(v, i) == i < vectors[v].length
OutOfRange == status' = "exit1" /\ UNCHANGED <<arena, mem, vectors, result>>

VectorNew ==
    /\ Running
    /\ \E v \in Handles \ Live : Becomes(Make(Heap, v))
    /\ UNCHANGED result

VectorPush ==
    /\ Running
    /\ \E v \in Live, x \in Values :
           vectors[v].length < MaxLength /\ Becomes(Push(Heap, v, x))
    /\ UNCHANGED result

(* An index is a size_t; the interesting ones are up to the length.        *)
VectorSet ==
    /\ Running
    /\ \E v \in Live : \E i \in 0 .. vectors[v].length, x \in Values :
           \/ InRange(v, i) /\ Becomes(Write(Heap, Place(Heap, v, i), x)) /\ UNCHANGED result
           \/ ~InRange(v, i) /\ OutOfRange

VectorGet ==
    /\ Running
    /\ \E v \in Live : \E i \in 0 .. vectors[v].length :
           \/ /\ InRange(v, i)
              /\ result' = <<Read(Heap, Place(Heap, v, i))>>
              /\ UNCHANGED <<arena, mem, vectors, status>>
           \/ ~InRange(v, i) /\ OutOfRange

(* The regions are freed, and with them all there is.                      *)
ArenaFree ==
    /\ Running
    /\ arena' = <<>>
    /\ mem' = [a \in {} |-> Garbage]
    /\ vectors' = [v \in {} |-> Garbage]
    /\ UNCHANGED <<result, status>>

Init ==
    /\ arena = <<>>
    /\ mem = [a \in {} |-> Garbage]
    /\ vectors = [v \in {} |-> Garbage]
    /\ result = <<>>
    /\ status = "running"

Next == VectorNew \/ VectorPush \/ VectorSet \/ VectorGet \/ ArenaFree

Spec == Init /\ [][Next]_vars

-----------------------------------------------------------------------------
(* The arena gives out no more than it has, and a vector holds no more     *)
(* than its array.                                                         *)
TypeOK ==
    /\ \A r \in DOMAIN arena : arena[r].count <= arena[r].capacity
    /\ Live \subseteq Handles
    /\ \A v \in Live : /\ vectors[v].array.region \in DOMAIN arena
                       /\ vectors[v].length \in 0 .. vectors[v].size
    /\ status \in {"running", "exit1", "aborted"}

(* The arrays of two vectors have no word in common, and each lies in what *)
(* the arena gave out.                                                     *)
End(v) == vectors[v].array.offset + vectors[v].size
Apart(u, v) ==
    \/ vectors[u].array.region # vectors[v].array.region
    \/ End(u) <= vectors[v].array.offset
    \/ End(v) <= vectors[u].array.offset
ArraysApart ==
    /\ \A v \in Live : End(v) <= arena[vectors[v].array.region].count
    /\ \A u, v \in Live : u # v => Apart(u, v)

(* The vectors implement lists: growing one keeps what it holds, and       *)
(* leaves the others alone.                                                *)
Contents(v) == [i \in 1 .. vectors[v].length |-> Read(Heap, Place(Heap, v, i - 1))]
Abstract == INSTANCE Lists WITH lists <- [v \in Live |-> Contents(v)], Initial <- {<<>>}
ImplementsLists == Abstract!Spec

=============================================================================
