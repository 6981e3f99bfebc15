------------------------------- MODULE Lexer -------------------------------
(***************************************************************************)
(* The scanner: tokenize() of src/lex.c, from the characters of a file to  *)
(* the vector of tokens the parser reads.                                  *)
(*                                                                         *)
(* A text is a sequence of characters.                                     *)
(* One step is one turn of the loop of tokenize: it reads a character,     *)
(* takes a case of the switch with everything that case reads, and pushes  *)
(* the token, if there is one.                                             *)
(*                                                                         *)
(* The type of a token of fixed spelling is its spelling ("+", "while");   *)
(* the others are IDENT, NUM and TYPE.  The value of IDENT and TYPE is the *)
(* characters read; `number', of a NUM, is what str2int reads back from    *)
(* the digits int_to_str wrote.  `from' and `to' are history: the token    *)
(* was made from the characters text[from + 1 .. to].                      *)
(*                                                                         *)
(* Nothing uses the definitions called Faulty...: each is the definition   *)
(* that follows it with a mistake the properties find.                     *)
(***************************************************************************)
EXTENDS Alphabet, SequencesExt

CONSTANTS
    Texts,      \* the inputs
    Letters,    \* the letters of the alphabet, with "_"
    IntLimit,   \* an int is in -IntLimit .. IntLimit - 1
    Memory,     \* the tokens the arena has room for
    JunkTypes   \* what the type of a token nobody set can be

ASSUME LexerAssumption ==
    /\ Texts \subseteq Seq(STRING)
    /\ Letters \cap (Punctuation \cup LookAhead \cup Blanks \cup {Newline, NUL}) = {}
    /\ \A c \in Letters : ~IsDigit(c)
    /\ IntLimit \in Nat /\ IntLimit > 0
    /\ Memory \in Nat
    /\ JunkTypes \subseteq STRING /\ JunkTypes # {}

VARIABLES
    text,     \* Lexer.input, the file read by read_file
    curr,     \* Lexer.curr: how many characters have been read
    tokens,   \* the result
    line,     \* the line and ...
    pos,      \* ... the column, as tokenize counts them, for messages
    status    \* running, done, exit1 (a message) or aborted (out of memory)
vars == <<text, curr, tokens, line, pos, status>>

-----------------------------------------------------------------------------
(* The characters of words; `Letters' is a parameter of the model only.    *)
IsIdentStart(c) == c \in Letters
IsIdentChar(c)  == c \in Letters \/ IsDigit(c)

WordType(word) ==
    IF word \in {SpelledInt, SpelledVoid} THEN "TYPE"
    ELSE IF \E kw \in Keywords : word = Spelled(kw)
         THEN CHOOSE kw \in Keywords : word = Spelled(kw)
         ELSE "IDENT"

-----------------------------------------------------------------------------
(* Reading.                                                                *)

(* next(): the character at i, and where the next call reads.  At the end  *)
(* it returns '\0' without moving.                                         *)
Char(i)  == IF i < Len(text) THEN text[i + 1] ELSE NUL
FaultyAfter(i) == i + 1
After(i) == IF i < Len(text) THEN i + 1 ELSE i

(* next() and then back(): at the end this is one character too far.       *)
Peeked(i) == After(i) - 1

(* Where a run of characters that started at i ends.                       *)
RunEnd(i, InRun(_)) ==
    CHOOSE j \in i .. Len(text) : /\ ~InRun(Char(j))
                                  /\ \A k \in i .. (j - 1) : InRun(Char(k))

(* tokenize_digit and tokenize_ident put the character that ended the run  *)
(* back, unless it is '\0'.                                                *)
FaultyAfterRun(j) == After(j)
FaultyAfterRunBack(j) == Peeked(j)
AfterRun(j) == IF Char(j) = NUL THEN After(j) ELSE j

Slice(i, j) == SubSeq(text, i + 1, j)

(* int arithmetic wraps: that is what overflow, undefined in C, does in    *)
(* the code compilers make for these two operations.                       *)
WrapInt(v) == ((v + IntLimit) % (2 * IntLimit)) - IntLimit
AddDigit(sum, c) == WrapInt(sum * 10 + DigitValue(c))
Sum(digits) == FoldLeft(AddDigit, 0, digits)

(* int_to_str gets room for as many characters as the literal has digits,  *)
(* so a negative sum with as many digits of its own loses the last one.    *)
FaultyPrinted(v, size) == IF v >= 10 ^ (size - 1) THEN v \div 10 ELSE v
Printed(v, size) == IF v < 0 /\ -v >= 10 ^ (size - 1) THEN -((-v) \div 10) ELSE v

-----------------------------------------------------------------------------
(* The token made from text[curr + 1 .. j].                                *)
Token(type, value, number, ln, ps, j) ==
    [type |-> type, value |-> value, number |-> number,
     line |-> ln, pos |-> ps, from |-> curr, to |-> j]
Fixed == <<>>     \* the value of a token its type says everything about
Unset == <<NUL>>  \* a value nobody set: a stray pointer

Push(type, value, number, j) ==
    /\ tokens' = Append(tokens, Token(type, value, number, line, pos, j))
    /\ pos' = pos + 1
    /\ UNCHANGED <<text, line, status>>

(* Every turn begins with the allocation of a Token.                       *)
Reads(c) == /\ status = "running"
            /\ Char(curr) = c
            /\ c # NUL
            /\ Len(tokens) < Memory

LexEnd ==
    /\ status = "running"
    /\ Char(curr) = NUL
    /\ curr' = After(curr)
    /\ status' = "done"
    /\ UNCHANGED <<text, tokens, line, pos>>

(* The assertion of new_region.                                            *)
LexNoMemory ==
    /\ status = "running"
    /\ Char(curr) # NUL
    /\ Len(tokens) = Memory
    /\ status' = "aborted"
    /\ UNCHANGED <<text, curr, tokens, line, pos>>

LexPunctuation ==
    \E c \in Punctuation :
        /\ Reads(c)
        /\ Push(c, Fixed, 0, curr + 1)
        /\ curr' = curr + 1

LexPair ==
    \E p \in Pairs :
        /\ Reads(p.first)
        /\ Char(curr + 1) = p.second
        /\ Push(p.type, Fixed, 0, curr + 2)
        /\ curr' = curr + 2

(* The second character belongs to something else: back().                 *)
LexShort ==
    \E c \in LookAhead :
        /\ Reads(c)
        /\ ~\E p \in Pairs : p.first = c /\ p.second = Char(curr + 1)
        /\ ~(c = "/" /\ Char(curr + 1) = "/")
        /\ Push(c, Fixed, 0, curr + 1)
        /\ curr' = Peeked(curr + 1)

(* A comment leaves the newline that ends it in c, and so pushes nothing.  *)
(* If '\0' ends it, the token is pushed with its type and value unset.     *)
LexComment ==
    /\ Reads("/")
    /\ Char(curr + 1) = "/"
    /\ LET end == RunEnd(curr + 2, LAMBDA c : c # NUL /\ c # Newline)
       IN  /\ curr' = After(end)
           /\ IF Char(end) = NUL
              THEN \E junk \in JunkTypes :
                       tokens' = Append(tokens, Token(junk, Unset, 0, line + 1, 1, end))
              ELSE UNCHANGED tokens
    /\ line' = line + 1
    /\ pos' = 2
    /\ UNCHANGED <<text, status>>

FaultyLexNewline ==
    /\ Reads(Newline)
    /\ curr' = curr + 1
    /\ pos' = 2
    /\ UNCHANGED <<text, tokens, line, status>>
LexNewline ==
    /\ Reads(Newline)
    /\ curr' = curr + 1
    /\ line' = line + 1
    /\ pos' = 2
    /\ UNCHANGED <<text, tokens, status>>

LexBlank ==
    \E c \in Blanks :
        /\ Reads(c)
        /\ curr' = curr + 1
        /\ pos' = pos + 1
        /\ UNCHANGED <<text, tokens, line, status>>

LexNumber ==
    /\ Reads(Char(curr))
    /\ IsDigit(Char(curr))
    /\ LET end == RunEnd(curr, IsDigit)
       IN  /\ Push("NUM", Fixed, Printed(Sum(Slice(curr, end)), end - curr), end)
           /\ curr' = AfterRun(end)

LexWord ==
    /\ Reads(Char(curr))
    /\ IsIdentStart(Char(curr))
    /\ LET end  == RunEnd(curr, IsIdentChar)
           word == Slice(curr, end)
       IN  /\ Push(WordType(word),
                   IF WordType(word) \in Keywords THEN Fixed ELSE word, 0, end)
           /\ curr' = AfterRun(end)

FaultyLexUnexpected ==
    /\ Reads(Char(curr))
    /\ Char(curr) \notin Punctuation \cup LookAhead \cup Blanks \cup {Newline}
    /\ ~IsDigit(Char(curr))
    /\ ~IsIdentStart(Char(curr))
    /\ UNCHANGED vars
LexUnexpected ==
    /\ Reads(Char(curr))
    /\ Char(curr) \notin Punctuation \cup LookAhead \cup Blanks \cup {Newline}
    /\ ~IsDigit(Char(curr))
    /\ ~IsIdentStart(Char(curr))
    /\ curr' = curr + 1
    /\ status' = "exit1"
    /\ UNCHANGED <<text, tokens, line, pos>>

-----------------------------------------------------------------------------

Start(input) ==
    /\ text = input
    /\ curr = 0
    /\ tokens = <<>>
    /\ line = 1
    /\ pos = 1
    /\ status = "running"

Init == \E input \in Texts : Start(input)

Tokenize ==
    \/ LexEnd
    \/ LexNoMemory
    \/ LexPunctuation
    \/ LexPair
    \/ LexShort
    \/ LexComment
    \/ LexNewline
    \/ LexBlank
    \/ LexNumber
    \/ LexWord
    \/ LexUnexpected

(* The scanner has returned, or the process has ended.                     *)
Stopped == status # "running" /\ UNCHANGED vars

Next == Tokenize \/ Stopped

Spec == Init /\ [][Next]_vars

(* One process that waits for nothing.                                     *)
FairSpec == Spec /\ WF_vars(Tokenize)

-----------------------------------------------------------------------------
TokenTypes ==
    Punctuation \cup LookAhead \cup {p.type : p \in Pairs} \cup Keywords
    \cup {"IDENT", "TYPE", "NUM"} \cup JunkTypes

TokenOK(t) ==
    /\ t.type \in TokenTypes
    /\ t.value \in {Fixed, Unset, Slice(t.from, t.to)}
    /\ t.number \in -IntLimit .. IntLimit - 1
    /\ t.line \in Nat \ {0} /\ t.pos \in Nat \ {0}
    /\ t.from \in Nat /\ t.to \in Nat
    /\ t.from < t.to /\ t.to <= Len(text)

(* The reader is inside the text, or just behind it, at every turn, and a  *)
(* token was made from characters of the text: those are its value, if it  *)
(* has one.                                                                *)
TypeOK ==
    /\ text \in Seq(STRING)
    /\ curr \in 0 .. Len(text)
    /\ line \in Nat \ {0}
    /\ pos \in Nat \ {0}
    /\ status \in {"running", "done", "exit1", "aborted"}
    /\ Len(tokens) <= Memory
    /\ \A k \in DOMAIN tokens : TokenOK(tokens[k])

=============================================================================
