------------------------------- MODULE Strings -------------------------------
(***************************************************************************)
(* The strings of src/util.c, in which the scanner collects words and the  *)
(* parser reads them back: a String is a vector of pointers to characters  *)
(* in blocks of their own; as_str copies it to a C string, which the tree  *)
(* keeps, and str_clone copies that to another, which the symbol tables    *)
(* keep, while the arena goes on giving out blocks.                        *)
(*                                                                         *)
(* A String and its vector have one name here.                             *)
(*                                                                         *)
(* Nothing uses the definitions called Faulty...: each is the definition   *)
(* that follows it with a mistake the properties find.                     *)
(***************************************************************************)
EXTENDS Vector, FiniteSets, SequencesExt

CONSTANTS
    Characters,
    Literals,      \* the C strings string() is called with
    WordSize,      \* bytes in a word
    StringWords,   \* the words of a struct String
    NUL,
    MaxNames       \* how many C strings the model keeps

ASSUME StringsAssumption ==
    /\ Literals \subseteq Seq(Characters)
    /\ WordSize \in Nat \ {0}
    /\ StringWords \in Nat
    /\ NUL \notin Characters
    /\ Garbage[1] \notin {"pointer", "char", "text"}
    /\ MaxNames \in Nat

VARIABLES
    strings,   \* of every String there is, its length
    names      \* the C strings as_str and str_clone made: [at, chars], with
               \* the characters as_str was given in chars (history)
stringVars == <<vars, strings, names>>

-----------------------------------------------------------------------------
(* The operations, on a state of the memory.                               *)

(* What a word holds is a pointer, a character or some bytes of a C        *)
(* string.                                                                 *)
Pointer(address) == <<"pointer", address>>
Cell(c)          == <<"char", c>>
Text(bytes)      == <<"text", bytes>>

(* string_append: the block of the character is allocated before the array *)
(* grows.                                                                  *)
FaultyAppendChar(h, s, c) ==
    LET cell == Top(h.arena, 1)
    IN  Push(Write(h, cell, Cell(c)), s, Pointer(cell))
AppendChar(h, s, c) ==
    LET cell == Top(h.arena, 1)
    IN  Push(Write(Take(h, 1), cell, Cell(c)), s, Pointer(cell))

NewString(h, s) == Make(Take(h, StringWords), s)

(* string() and string_clone() append one character at a time.             *)
AppendAll(h, s, chars) == FoldLeft(LAMBDA g, c : AppendChar(g, s, c), h, chars)

(* Anything but a pointer to a character reads as NUL, which is none.      *)
CharAt(h, s, i) ==
    LET word == Read(h, Place(h, s, i))
        cell == IF word[1] = "pointer" THEN Read(h, word[2]) ELSE Garbage
    IN  IF cell[1] = "char" THEN cell[2] ELSE NUL
Chars(h, s, length) == [i \in 1 .. length |-> CharAt(h, s, i - 1)]

(* A C string in memory: a word holds some of its bytes.                   *)
Words(bytes) == (bytes + WordSize - 1) \div WordSize
Bytes(text, k) ==
    Text(SubSeq(text, k * WordSize + 1, Min({(k + 1) * WordSize, Len(text)})))
Written(h, at, text) ==
    FoldLeft(LAMBDA g, k : Write(g, Plus(at, k - 1), Bytes(text, k - 1)), h,
             [k \in 1 .. Words(Len(text)) |-> k])
InMemory(h, at, text) ==
    \A k \in 0 .. (Words(Len(text)) - 1) : Read(h, Plus(at, k)) = Bytes(text, k)

(* The room as_str asks for.                                               *)
FaultyRoom(length) == Words(length)
Room(length) == Words(length + 1)

(* The words up to the first that has a NUL in it: strlen counts to there, *)
(* and strcpy copies as far.  A block begins at a word.                    *)
Ends(word) == word[1] = "text" /\ NUL \in Range(word[2])
WordsThere(h, at) ==
    Min({k \in 0 .. h.arena[at.region].count : Ends(Read(h, Plus(at, k)))}) + 1
CloneOf(h, at) ==
    LET n == WordsThere(h, at)
    IN  [Take(h, n) EXCEPT !.mem = Copied(h, at, Top(h.arena, n), n)]

-----------------------------------------------------------------------------
(* The calls.                                                              *)
Made == DOMAIN strings
BecomesWith(h, lengths) ==
    /\ Becomes(h)
    /\ strings' = IF h.ok THEN lengths ELSE strings
    /\ UNCHANGED <<result, names>>
WithLength(s, n) == [t \in Made \cup {s} |-> IF t = s THEN n ELSE strings[t]]

StringNew ==
    /\ Running
    /\ \E s \in Handles \ Live : BecomesWith(NewString(Heap, s), WithLength(s, 0))

StringOf ==
    /\ Running
    /\ \E s \in Handles \ Live, l \in Literals :
           BecomesWith(AppendAll(NewString(Heap, s), s, l), WithLength(s, Len(l)))

StringAppend ==
    /\ Running
    /\ \E s \in Made, c \in Characters :
           /\ strings[s] < MaxLength
           /\ BecomesWith(AppendChar(Heap, s, c), WithLength(s, strings[s] + 1))

FaultyStringClone ==
    /\ Running
    /\ \E s \in Made, t \in Handles \ Live :
           BecomesWith(AppendAll(NewString(Heap, t), t, Chars(Heap, s, strings[s])),
                       WithLength(t, 0))
StringClone ==
    /\ Running
    /\ \E s \in Made, t \in Handles \ Live :
           BecomesWith(AppendAll(NewString(Heap, t), t, Chars(Heap, s, strings[s])),
                       WithLength(t, strings[s]))

AsStr ==
    /\ Running
    /\ Len(names) < MaxNames
    /\ \E s \in Made :
           LET at    == Top(arena, Room(strings[s]))
               chars == Chars(Heap, s, strings[s])
               h     == Written(Take(Heap, Room(strings[s])), at, Append(chars, NUL))
           IN  /\ Becomes(h)
               /\ names' = IF h.ok THEN Append(names, [at |-> at, chars |-> chars]) ELSE names
    /\ UNCHANGED <<result, strings>>

StrClone ==
    /\ Running
    /\ Len(names) < MaxNames
    /\ \E k \in DOMAIN names :
           LET to == Top(arena, WordsThere(Heap, names[k].at))
               h  == CloneOf(Heap, names[k].at)
           IN  /\ Becomes(h)
               /\ names' = IF h.ok THEN Append(names, [at |-> to, chars |-> names[k].chars])
                          ELSE names
    /\ UNCHANGED <<result, strings>>

StringInit ==
    /\ Init
    /\ strings = [s \in {} |-> 0]
    /\ names = <<>>

StringNext == StringNew \/ StringOf \/ StringAppend \/ StringClone \/ AsStr \/ StrClone

StringSpec == StringInit /\ [][StringNext]_stringVars

-----------------------------------------------------------------------------
(* A String is as long as its vector.                                      *)
StringTypeOK ==
    /\ TypeOK
    /\ Made = Live
    /\ \A s \in Made : strings[s] = vectors[s].length

(* A C string made from a String, and a copy of one, stay what the String  *)
(* was then, the end included, whatever is allocated, appended or cloned   *)
(* afterwards.                                                             *)
NamesKept ==
    \A k \in DOMAIN names : InMemory(Heap, names[k].at, Append(names[k].chars, NUL))

(* The Strings implement lists of characters: a String keeps what was      *)
(* appended to it while its array and the others' move, and a clone shares *)
(* nothing with what it was cloned from.                                   *)
Texts == INSTANCE Lists WITH
    lists   <- [s \in Made |-> Chars(Heap, s, strings[s])],
    Values  <- Characters,
    Initial <- Literals \cup {<<>>}
ImplementsTexts == Texts!Spec

=============================================================================
