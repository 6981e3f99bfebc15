------------------------------- MODULE Arena -------------------------------
(***************************************************************************)
(* The memory of the compiler: include/mylang/arena.h as src/util.c uses   *)
(* it.  Blocks are cut from the last of a list of regions and never given  *)
(* back one by one; when a block does not fit, a region is added.          *)
(*                                                                         *)
(* An arena is the sequence of its regions; sizes are in words, and the    *)
(* address of a word is the number of its region and its offset there.     *)
(***************************************************************************)
EXTENDS Integers, Sequences

CONSTANTS
    Capacity,    \* ARENA_REGION_DEFAULT_CAPACITY
    MaxRegions   \* how many regions malloc finds memory for

ASSUME ArenaAssumption ==
    /\ Capacity \in Nat
    /\ MaxRegions \in Nat

Region(capacity) == [count |-> 0, capacity |-> capacity]
EndOf(a) == a[Len(a)]

(* The last region is the end: nothing resets or rewinds the arena, so no  *)
(* region follows it and the loop that looks for room behind it never runs.*)
Fits(a, size) == a # <<>> /\ EndOf(a).count + size <= EndOf(a).capacity
NewRegion(size) == Region(IF Capacity < size THEN size ELSE Capacity)
WithRoom(a, size) == IF Fits(a, size) THEN a ELSE Append(a, NewRegion(size))

(* The assertion of new_region.                                            *)
MayAlloc(a, size) == Fits(a, size) \/ Len(a) < MaxRegions

(* The address arena_alloc returns, and the arena behind it.               *)
Top(a, size) ==
    LET r == WithRoom(a, size) IN [region |-> Len(r), offset |-> EndOf(r).count]
Alloc(a, size) ==
    LET r == WithRoom(a, size) IN [r EXCEPT ![Len(r)].count = @ + size]

Plus(address, n) == [address EXCEPT !.offset = @ + n]

=============================================================================
