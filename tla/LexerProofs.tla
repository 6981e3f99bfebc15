---------------------------- MODULE LexerProofs ----------------------------
(***************************************************************************)
(* Proofs about the scanner, for every set of input files, every alphabet  *)
(* of letters and every amount of memory.                                  *)
(*                                                                         *)
(* That the reader stays inside the file is not enough to bound the tokens:*)
(* the step that reads an operator may put back a character it never read. *)
(* Inv says that this happens at the last character only (Stuck), and that *)
(* until then every token took a character of its own.                     *)
(*                                                                         *)
(* What a literal is worth is a fold over its digits, and what C reads in  *)
(* the text is a recursive function of positions: both are shown to exist  *)
(* first (SumFacts, WalkHolds), and then compared with what a turn does.   *)
(***************************************************************************)
EXTENDS LexerRef, ListLemmas, FiniteSetTheorems

(* A set of positions that has the last one has a first one.               *)
LEMMA FirstPosition ==
    ASSUME NEW i \in Nat, NEW n \in Nat, NEW S \in SUBSET (i .. n), n \in S
    PROVE  \E j \in S : \A k \in i .. (j - 1) : k \notin S
<1> DEFINE Less == {p \in Nat \X Nat : p[1] < p[2]}
<1>1. IsWellFoundedOn(Less, Nat)
  BY NatLessThanWellFounded, Zenon DEF OpToRel
<1>2. PICK j \in S : \A k \in S : ~(<<k, j>> \in Less)
  <2>1. S \subseteq Nat /\ S # {}
    OBVIOUS
  <2> HIDE DEF Less
  <2> QED BY <1>1, <2>1, WFMin
<1>3. ASSUME NEW k \in i .. (j - 1) PROVE k \notin S
  <2>1. k \in Nat /\ j \in Nat /\ k < j
    OBVIOUS
  <2>2. <<k, j>> \in Less
    BY <2>1
  <2> QED BY <1>2, <2>2
<1> QED BY <1>3

(* Where a run ends: at a character that is none of it, with the run in    *)
(* between.                                                                *)
EndsRun(i, j, InRun(_)) ==
    /\ j \in i .. Len(text)
    /\ ~InRun(Char(j))
    /\ \A k \in i .. (j - 1) : InRun(Char(k))

LEMMA EndIsNul ==
    ASSUME text \in Seq(STRING) PROVE Char(Len(text)) = NUL
BY DEF Char

LEMMA DigitRunEnds ==
    ASSUME text \in Seq(STRING), NEW i \in 0 .. Len(text)
    PROVE  EndsRun(i, RunEnd(i, IsDigit), IsDigit)
<1> DEFINE S == {j \in i .. Len(text) : ~IsDigit(Char(j))}
<1>1. Len(text) \in S
  BY EndIsNul DEF IsDigit, Digits, NUL
<1>2. PICK j \in S : \A k \in i .. (j - 1) : k \notin S
  <2>1. i \in Nat /\ Len(text) \in Nat /\ S \in SUBSET (i .. Len(text))
    OBVIOUS
  <2> HIDE DEF S
  <2> QED BY <1>1, <2>1, FirstPosition
<1>3. \A k \in i .. (j - 1) : IsDigit(Char(k))
  BY <1>2
<1>4. \E e \in i .. Len(text) : ~IsDigit(Char(e)) /\ \A k \in i .. (e - 1) : IsDigit(Char(k))
  BY <1>3
<1> QED BY <1>4 DEF RunEnd, EndsRun

LEMMA WordRunEnds ==
    ASSUME text \in Seq(STRING), NEW i \in 0 .. Len(text)
    PROVE  EndsRun(i, RunEnd(i, IsIdentChar), IsIdentChar)
<1> DEFINE S == {j \in i .. Len(text) : ~IsIdentChar(Char(j))}
<1>1. Len(text) \in S
  BY EndIsNul, LexerAssumption DEF IsIdentChar, IsDigit, Digits, NUL
<1>2. PICK j \in S : \A k \in i .. (j - 1) : k \notin S
  <2>1. i \in Nat /\ Len(text) \in Nat /\ S \in SUBSET (i .. Len(text))
    OBVIOUS
  <2> HIDE DEF S
  <2> QED BY <1>1, <2>1, FirstPosition
<1>3. \A k \in i .. (j - 1) : IsIdentChar(Char(k))
  BY <1>2
<1>4. \E e \in i .. Len(text) : ~IsIdentChar(Char(e)) /\ \A k \in i .. (e - 1) : IsIdentChar(Char(k))
  BY <1>3
<1> QED BY <1>4 DEF RunEnd, EndsRun

InComment(c) == c # NUL /\ c # Newline

LEMMA CommentRunEnds ==
    ASSUME text \in Seq(STRING), NEW i \in 0 .. Len(text)
    PROVE  EndsRun(i, RunEnd(i, InComment), InComment)
<1> DEFINE S == {j \in i .. Len(text) : ~InComment(Char(j))}
<1>1. Len(text) \in S
  BY EndIsNul DEF InComment
<1>2. PICK j \in S : \A k \in i .. (j - 1) : k \notin S
  <2>1. i \in Nat /\ Len(text) \in Nat /\ S \in SUBSET (i .. Len(text))
    OBVIOUS
  <2> HIDE DEF S
  <2> QED BY <1>1, <2>1, FirstPosition
<1>3. \A k \in i .. (j - 1) : InComment(Char(k))
  BY <1>2
<1>4. \E e \in i .. Len(text) : ~InComment(Char(e)) /\ \A k \in i .. (e - 1) : InComment(Char(k))
  BY <1>3
<1> QED BY <1>4 DEF RunEnd, EndsRun

-----------------------------------------------------------------------------
(* The inductive invariant.                                                *)

InText(t) == t.from \in Nat /\ t.to \in Nat /\ t.from < t.to /\ t.to <= Len(text)

(* The reader went back to the operator that ends the text.                *)
Stuck ==
    /\ curr + 1 = Len(text)
    /\ Char(curr) \in LookAhead

Inv ==
    /\ text \in Seq(STRING)
    /\ curr \in 0 .. Len(text)
    /\ \E S : tokens \in Seq(S)
    /\ \A k \in DOMAIN tokens : InText(tokens[k])
    /\ Len(tokens) <= curr \/ Stuck
    /\ status = "aborted" => Len(tokens) = Memory /\ Char(curr) # NUL

LEMMA Before ==
    ASSUME Inv
    PROVE  /\ Len(text) \in Nat /\ curr \in Nat /\ curr <= Len(text)
           /\ Len(tokens) \in Nat
           /\ Char(curr) # NUL => curr < Len(text)
           /\ Stuck => curr < Len(text) /\ Char(curr + 1) = NUL /\ Char(curr) \in LookAhead
BY DEF Inv, Char, Stuck

(* A turn that reads on and pushes no token.                               *)
LEMMA SkipKeepsInv ==
    ASSUME Inv, ~Stuck, curr' \in curr .. Len(text), UNCHANGED <<text, tokens>>,
           status' # "aborted"
    PROVE  Inv'
<1>1. Len(tokens) <= curr'
  BY Before DEF Inv
<1>2. curr' \in 0 .. Len(text)
  BY Before
<1> QED BY <1>1, <1>2 DEF Inv, InText

(* A turn that pushes a token made of what it read.                        *)
LEMMA PushKeepsInv ==
    ASSUME Inv, text' = text, status' # "aborted", NEW t, InText(t), tokens' = Append(tokens, t),
           \/ ~Stuck /\ curr' \in (curr + 1) .. Len(text)
           \/ Stuck'  /\ curr' \in 0 .. Len(text)
    PROVE  Inv'
<1>1. PICK S : tokens \in Seq(S)
  BY DEF Inv
<1>2. tokens \in Seq(S \cup {t}) /\ t \in S \cup {t}
  BY <1>1
<1>3. /\ tokens' \in Seq(S \cup {t})
      /\ Len(tokens') = Len(tokens) + 1
      /\ \A k \in DOMAIN tokens' : tokens'[k] = t \/ (k \in DOMAIN tokens /\ tokens'[k] = tokens[k])
  BY <1>2
<1>4. ASSUME NEW k \in DOMAIN tokens' PROVE InText(tokens[k])'
  <2>1. InText(tokens'[k])
    BY <1>3 DEF Inv
  <2> QED BY <2>1 DEF InText
<1>5. curr' \in 0 .. Len(text)
  BY Before
<1>6. Len(tokens') <= curr' \/ Stuck'
  BY <1>3, Before DEF Inv
<1>7. \E T : tokens' \in Seq(T)
  BY <1>3
<1> QED BY <1>4, <1>5, <1>6, <1>7 DEF Inv

-----------------------------------------------------------------------------
(* The steps.                                                              *)

(* The classes of characters have nothing in common.                       *)
LEMMA ClassesApart ==
    /\ \A c \in LookAhead : /\ c \notin Punctuation \cup Blanks \cup {Newline, NUL}
                           /\ ~IsDigit(c) /\ ~IsIdentStart(c)
    /\ \A p \in Pairs : p.second # NUL
<1>1. \A c \in LookAhead : c \notin Punctuation
  BY DEF LookAhead, Punctuation
<1>2. \A c \in LookAhead : c \notin Blanks /\ c # Newline /\ c # NUL
  BY DEF LookAhead, Blanks, Newline, NUL
<1>3. \A c \in LookAhead : ~IsDigit(c)
  BY DEF LookAhead, IsDigit, Digits
<1>4. \A c \in LookAhead : ~IsIdentStart(c)
  BY LexerAssumption DEF IsIdentStart
<1>5. \A p \in Pairs : p.second \in {"&", "|", "=", "<", ">"}
  BY DEF Pairs, Pair
<1>6. \A p \in Pairs : p.second # NUL
  BY <1>5 DEF NUL
<1> QED BY <1>1, <1>2, <1>3, <1>4, <1>6

LEMMA TokenInText ==
    ASSUME NEW type, NEW value, NEW number, NEW ln, NEW ps, NEW j \in Nat,
           curr \in Nat, curr < j, j <= Len(text)
    PROVE  InText(Token(type, value, number, ln, ps, j))
BY DEF InText, Token

LEMMA AfterInText ==
    ASSUME text \in Seq(STRING), NEW i \in 0 .. Len(text)
    PROVE  After(i) \in i .. Len(text)
BY DEF After

LEMMA PunctuationStep ==
    ASSUME Inv, LexPunctuation
    PROVE  Inv'
<1>1. PICK c \in Punctuation : /\ Reads(c)
                               /\ Push(c, Fixed, 0, curr + 1)
                               /\ curr' = curr + 1
  BY DEF LexPunctuation
<1>2. ~Stuck
  BY <1>1, ClassesApart DEF Stuck, Reads
<1>3. curr + 1 \in Nat /\ curr \in Nat /\ curr + 1 <= Len(text)
  BY <1>1, Before DEF Reads
<1> DEFINE t == Token(c, Fixed, 0, line, pos, curr + 1)
<1>4. InText(t) /\ tokens' = Append(tokens, t)
  BY <1>1, <1>3, TokenInText DEF Push
<1>5. text' = text /\ status' # "aborted"
  BY <1>1 DEF Push, Reads
<1>6. curr' \in (curr + 1) .. Len(text)
  BY <1>1, <1>3, Before
<1> HIDE DEF t
<1> QED BY <1>2, <1>4, <1>5, <1>6, PushKeepsInv

LEMMA PairStep ==
    ASSUME Inv, LexPair
    PROVE  Inv'
<1>1. PICK p \in Pairs : /\ Reads(p.first)
                         /\ Char(curr + 1) = p.second
                         /\ Push(p.type, Fixed, 0, curr + 2)
                         /\ curr' = curr + 2
  BY DEF LexPair
<1>2. Char(curr + 1) # NUL
  BY <1>1, ClassesApart
<1>3. ~Stuck
  BY <1>2, Before
<1>4. curr + 2 \in Nat /\ curr \in Nat /\ curr + 2 <= Len(text)
  BY <1>2, Before DEF Char
<1> DEFINE t == Token(p.type, Fixed, 0, line, pos, curr + 2)
<1>5. InText(t) /\ tokens' = Append(tokens, t)
  BY <1>1, <1>4, TokenInText DEF Push
<1>6. text' = text /\ status' # "aborted"
  BY <1>1 DEF Push, Reads
<1>7. curr' \in (curr + 1) .. Len(text)
  BY <1>1, <1>4, Before
<1> HIDE DEF t
<1> QED BY <1>3, <1>5, <1>6, <1>7, PushKeepsInv

(* The step that puts back what it may not have read.                      *)
LEMMA ShortStep ==
    ASSUME Inv, LexShort
    PROVE  Inv'
<1>1. PICK c \in LookAhead : /\ Reads(c)
                             /\ Push(c, Fixed, 0, curr + 1)
                             /\ curr' = Peeked(curr + 1)
  BY DEF LexShort
<1>2. curr + 1 \in Nat /\ curr \in Nat /\ curr + 1 <= Len(text)
  BY <1>1, Before DEF Reads
<1> DEFINE t == Token(c, Fixed, 0, line, pos, curr + 1)
<1>3. InText(t) /\ tokens' = Append(tokens, t)
  BY <1>1, <1>2, TokenInText DEF Push
<1>4. text' = text /\ status' # "aborted"
  BY <1>1 DEF Push, Reads
<1> HIDE DEF t
<1>5. CASE curr + 1 = Len(text)
  <2>1. curr' = curr
    BY <1>1, <1>2, <1>5 DEF Peeked, After
  <2>2. Char(curr)' = Char(curr) /\ Char(curr) = c
    BY <1>1, <1>4, <2>1 DEF Char, Reads
  <2>3. Stuck' /\ curr' \in 0 .. Len(text)
    BY <1>2, <1>4, <1>5, <2>1, <2>2, Before DEF Stuck
  <2> QED BY <1>3, <1>4, <2>3, PushKeepsInv
<1>6. CASE curr + 1 < Len(text)
  <2>1. ~Stuck
    BY <1>6 DEF Stuck
  <2>2. curr' \in (curr + 1) .. Len(text)
    BY <1>1, <1>2, <1>6, Before DEF Peeked, After
  <2> QED BY <1>3, <1>4, <2>1, <2>2, PushKeepsInv
<1> QED BY <1>2, <1>5, <1>6, Before

LEMMA CommentStep ==
    ASSUME Inv, LexComment
    PROVE  Inv'
<1> DEFINE end == RunEnd(curr + 2, LAMBDA c : c # NUL /\ c # Newline)
<1>1. /\ Reads("/") /\ Char(curr + 1) = "/"
      /\ curr' = After(end)
      /\ \/ \E junk \in JunkTypes :
                tokens' = Append(tokens, Token(junk, Unset, 0, line + 1, 1, end))
         \/ UNCHANGED tokens
      /\ UNCHANGED <<text, status>>
  BY Zenon DEF LexComment
<1>2. Char(curr + 1) # NUL
  BY <1>1 DEF NUL
<1>3. ~Stuck
  BY <1>2, Before
<1>4. curr + 2 \in 0 .. Len(text) /\ curr \in Nat /\ text \in Seq(STRING)
  BY <1>2, Before DEF Char, Inv
<1>5. end = RunEnd(curr + 2, InComment)
  BY Zenon DEF InComment, RunEnd
<1> HIDE DEF end
<1>6. end \in (curr + 2) .. Len(text)
  BY <1>4, <1>5, CommentRunEnds DEF EndsRun
<1>7. curr' \in end .. Len(text)
  BY <1>1, <1>4, <1>6, AfterInText
<1>8. text' = text /\ status' # "aborted"
  BY <1>1 DEF Reads
<1>9. CASE UNCHANGED tokens
  <2>1. curr' \in curr .. Len(text)
    BY <1>4, <1>6, <1>7
  <2> QED BY <1>3, <1>8, <1>9, <2>1, SkipKeepsInv
<1>10. ASSUME NEW junk \in JunkTypes,
              tokens' = Append(tokens, Token(junk, Unset, 0, line + 1, 1, end))
       PROVE  Inv'
  <2> DEFINE t == Token(junk, Unset, 0, line + 1, 1, end)
  <2>1. InText(t) /\ tokens' = Append(tokens, t)
    BY <1>4, <1>6, <1>10, TokenInText
  <2>2. curr' \in (curr + 1) .. Len(text)
    BY <1>4, <1>6, <1>7
  <2> HIDE DEF t
  <2> QED BY <1>3, <1>8, <2>1, <2>2, PushKeepsInv
<1> QED BY <1>1, <1>9, <1>10

LEMMA NumberStep ==
    ASSUME Inv, LexNumber
    PROVE  Inv'
<1> DEFINE end == RunEnd(curr, IsDigit)
           t   == Token("NUM", Fixed, Printed(Sum(Slice(curr, end)), end - curr), line, pos, end)
<1>1. /\ Reads(Char(curr)) /\ IsDigit(Char(curr))
      /\ tokens' = Append(tokens, t) /\ UNCHANGED <<text, line, status>>
      /\ curr' = AfterRun(end)
  BY DEF LexNumber, Push
<1>2. curr < Len(text) /\ curr \in 0 .. Len(text) /\ text \in Seq(STRING)
  BY <1>1, Before DEF Reads, Inv
<1>3. ~Stuck
  BY <1>1, ClassesApart DEF Stuck
<1>4. EndsRun(curr, end, IsDigit)
  BY <1>2, DigitRunEnds
<1> HIDE DEF end
<1>5. end \in (curr + 1) .. Len(text)
  BY <1>1, <1>2, <1>4 DEF EndsRun
<1>6. curr' \in (curr + 1) .. Len(text)
  BY <1>1, <1>2, <1>5, AfterInText DEF AfterRun
<1>7. InText(t)
  BY <1>2, <1>5, TokenInText
<1> HIDE DEF t
<1> QED BY <1>1, <1>3, <1>6, <1>7, PushKeepsInv DEF Reads

LEMMA WordStep ==
    ASSUME Inv, LexWord
    PROVE  Inv'
<1> DEFINE end  == RunEnd(curr, IsIdentChar)
           word == Slice(curr, end)
           t    == Token(WordType(word), IF WordType(word) \in Keywords THEN Fixed ELSE word,
                         0, line, pos, end)
<1>1. /\ Reads(Char(curr)) /\ IsIdentStart(Char(curr))
      /\ tokens' = Append(tokens, t) /\ UNCHANGED <<text, line, status>>
      /\ curr' = AfterRun(end)
  BY DEF LexWord, Push
<1>2. curr < Len(text) /\ curr \in 0 .. Len(text) /\ text \in Seq(STRING)
  BY <1>1, Before DEF Reads, Inv
<1>3. ~Stuck
  BY <1>1, ClassesApart DEF Stuck
<1>4. EndsRun(curr, end, IsIdentChar) /\ IsIdentChar(Char(curr))
  BY <1>1, <1>2, WordRunEnds DEF IsIdentChar, IsIdentStart
<1> HIDE DEF end
<1>5. end \in (curr + 1) .. Len(text)
  BY <1>2, <1>4 DEF EndsRun
<1>6. curr' \in (curr + 1) .. Len(text)
  BY <1>1, <1>2, <1>5, AfterInText DEF AfterRun
<1>7. InText(t)
  BY <1>2, <1>5, TokenInText
<1> HIDE DEF t
<1> QED BY <1>1, <1>3, <1>6, <1>7, PushKeepsInv DEF Reads

(* The turns that read one character and push nothing.                     *)
LEMMA SkipStep ==
    ASSUME Inv, LexNewline \/ LexBlank \/ LexUnexpected
    PROVE  Inv'
<1>1. /\ Reads(Char(curr)) /\ Char(curr) \notin LookAhead
      /\ curr' = curr + 1 /\ UNCHANGED <<text, tokens>> /\ status' # "aborted"
  <2>1. CASE LexNewline
    BY <2>1, ClassesApart DEF LexNewline, Reads
  <2>2. CASE LexBlank
    BY <2>2, ClassesApart DEF LexBlank, Reads
  <2>3. CASE LexUnexpected
    BY <2>3 DEF LexUnexpected
  <2> QED BY <2>1, <2>2, <2>3
<1>2. ~Stuck
  BY <1>1 DEF Stuck
<1>3. curr' \in curr .. Len(text)
  BY <1>1, Before DEF Reads
<1> QED BY <1>1, <1>2, <1>3, SkipKeepsInv

LEMMA EndStep ==
    ASSUME Inv, LexEnd
    PROVE  Inv'
<1>1. ~Stuck
  BY ClassesApart DEF LexEnd, Stuck
<1>2. curr' \in curr .. Len(text)
  BY AfterInText DEF LexEnd, Inv
<1> QED BY <1>1, <1>2, SkipKeepsInv DEF LexEnd

LEMMA NoMemoryStep ==
    ASSUME Inv, LexNoMemory
    PROVE  Inv'
BY DEF LexNoMemory, Inv, InText, Stuck, Char

LEMMA StepKeepsInv ==
    ASSUME Inv, [Next]_vars
    PROVE  Inv'
<1>1. CASE Tokenize
  BY <1>1, PunctuationStep, PairStep, ShortStep, CommentStep, NumberStep, WordStep,
     SkipStep, EndStep, NoMemoryStep DEF Tokenize
<1>2. CASE UNCHANGED vars
  BY <1>2 DEF vars, Inv, InText, Stuck, Char
<1> QED BY <1>1, <1>2 DEF Next, Stopped

LEMMA InvHolds == Spec => []Inv
<1>1. Init => Inv
  BY LexerAssumption DEF Init, Start, Inv
<1> QED BY <1>1, StepKeepsInv, PTL DEF Spec

-----------------------------------------------------------------------------
(* The theorems.                                                           *)

(* The scanner never reads or puts back a character outside the file, and  *)
(* every token is made of characters of the file.                          *)
ReaderInside ==
    /\ curr \in 0 .. Len(text)
    /\ \A k \in DOMAIN tokens : InText(tokens[k])

THEOREM ReaderStaysInside == Spec => []ReaderInside
<1>1. Inv => ReaderInside
  BY DEF Inv, ReaderInside
<1> QED BY <1>1, InvHolds, PTL

(* tokenize makes no more tokens than it read characters, and runs out of  *)
(* a memory as large as the file for one kind of file only: one that ends  *)
(* in an operator of which the scanner must see the next character, which  *)
(* back() then puts back again and again.                                  *)
EndsInOperator == text # <<>> /\ text[Len(text)] \in LookAhead
RunsOutAtOperatorOnly ==
    Len(text) <= Memory /\ status = "aborted" => EndsInOperator

THEOREM RunsOutOnlyThere == Spec => []RunsOutAtOperatorOnly
<1>1. ASSUME Inv, Len(text) <= Memory, status = "aborted" PROVE EndsInOperator
  <2>1. Len(tokens) = Memory /\ Char(curr) # NUL
    BY <1>1 DEF Inv
  <2>2. Stuck
    BY <1>1, <2>1, Before, LexerAssumption DEF Inv
  <2>3. text[Len(text)] = Char(curr) /\ text # <<>>
    BY <1>1, <2>2, Before DEF Stuck, Char, Inv
  <2> QED BY <2>2, <2>3 DEF Stuck, EndsInOperator
<1>2. Inv => RunsOutAtOperatorOnly
  BY <1>1 DEF RunsOutAtOperatorOnly
<1> QED BY <1>2, InvHolds, PTL

-----------------------------------------------------------------------------
(* Literals.                                                               *)

LEMMA DigitFacts ==
    ASSUME NEW c, IsDigit(c)
    PROVE  DigitValue(c) \in 0 .. 9
<1>1. DOMAIN Digits = 1 .. 10
  BY DEF Digits
<1>2. PICK i \in 1 .. 10 : Digits[i] = c
  BY <1>1 DEF IsDigit
<1> DEFINE j == CHOOSE k \in DOMAIN Digits : Digits[k] = c
<1>3. j \in 1 .. 10
  BY <1>1, <1>2
<1> HIDE DEF j
<1> QED BY <1>3 DEF DigitValue, j

LEMMA WrapFacts ==
    ASSUME NEW v \in Int
    PROVE  /\ WrapInt(v) \in -IntLimit .. IntLimit - 1
           /\ v \in -IntLimit .. IntLimit - 1 => WrapInt(v) = v
  BY LexerAssumption, SMTT(30) DEF WrapInt

(* The sum of tokenize_digit behind each digit.                            *)
LEMMA SumFacts ==
    ASSUME NEW digits, IsList(digits), \A k \in DOMAIN digits : IsDigit(digits[k])
    PROVE  \E at : /\ at[0] = 0 /\ at[Len(digits)] = Sum(digits)
                   /\ \A k \in 0 .. Len(digits) : at[k] \in Int
                   /\ \A k \in 1 .. Len(digits) : at[k] = AddDigit(at[k - 1], digits[k])
<1> DEFINE n == Len(digits)
           Rec(f) == f = [s \in SUBSET (1 .. n) |->
                             IF s = {} THEN 0
                             ELSE AddDigit(f[s \ {Max(s)}], digits[Max(s)])]
           step == [p \in (1 .. n) \X Int |-> AddDigit(p[2], digits[p[1]])]
<1>1. n \in Nat /\ DOMAIN digits = 1 .. n
  BY ListFacts
<1>2. ASSUME NEW v \in Int, NEW k \in 1 .. n PROVE AddDigit(v, digits[k]) \in Int
  <2>1. DigitValue(digits[k]) \in Int
    BY <1>1, DigitFacts
  <2> QED BY <2>1, WrapFacts, LexerAssumption DEF AddDigit
<1>3. \A k \in 1 .. n, v \in Int : step[<<k, v>>] = AddDigit(v, digits[k])
  OBVIOUS
<1> HIDE DEF step
<1>4. PICK g \in [SUBSET (1 .. n) -> Int] : IsFold(g, n, 0, step)
  <2>1. \A k \in 1 .. n, v \in Int : step[<<k, v>>] \in Int
    BY <1>2, <1>3
  <2>2. 0 \in Int
    OBVIOUS
  <2> HIDE DEF n, Rec
  <2> QED BY <1>1, <2>1, <2>2, FoldExists, Zenon
<1>5. Rec(g)
  <2>1. ASSUME NEW s \in SUBSET (1 .. n), s # {}
        PROVE  step[<<Max(s), g[s \ {Max(s)}]>>] = AddDigit(g[s \ {Max(s)}], digits[Max(s)])
    <3>1. Max(s) \in 1 .. n
      BY <1>1, <2>1, LastOf
    <3>2. g[s \ {Max(s)}] \in Int
      <4>1. s \ {Max(s)} \in SUBSET (1 .. n)
        OBVIOUS
      <4> QED BY <1>4, <4>1
    <3> HIDE DEF n
    <3> QED BY <1>3, <3>1, <3>2
  <2> QED BY <1>4, <2>1 DEF IsFold
<1> DEFINE f == CHOOSE x : Rec(x)
<1>6. Rec(f)
  <2> HIDE DEF Rec
  <2> QED BY <1>5
<1>7. Sum(digits) = f[1 .. n]
  BY <1>1 DEF Sum, FoldLeft, MapThenFoldSet
<1> HIDE DEF f
<1> DEFINE at == [k \in 0 .. n |-> f[1 .. k]]
<1>8. at[0] = 0
  <2>1. 1 .. 0 = {} /\ {} \in SUBSET (1 .. n) /\ 0 \in 0 .. n
    BY <1>1
  <2> QED BY <1>6, <2>1
<1>9. ASSUME NEW k \in 1 .. n PROVE at[k] = AddDigit(at[k - 1], digits[k])
  <2>1. 1 .. k # {} /\ Max(1 .. k) = k /\ (1 .. k) \ {k} = 1 .. (k - 1)
    <3>1. k \in Nat \ {0}
      BY <1>1
    <3> HIDE DEF n, Rec, at
    <3> QED BY <3>1, UpToLast
  <2>2. 1 .. k \in SUBSET (1 .. n) /\ k \in 0 .. n /\ k - 1 \in 0 .. n
    BY <1>1
  <2>3. f[1 .. k] = AddDigit(f[1 .. (k - 1)], digits[k])
    BY <1>6, <2>1, <2>2
  <2> QED BY <2>2, <2>3
<1>10. at[n] = Sum(digits)
  BY <1>1, <1>7
<1> HIDE DEF at, n
<1>11. \A k \in 0 .. n : at[k] \in Int
  <2>1. \A k \in 1 .. n : at[k - 1] \in Int => at[k] \in Int
    BY <1>2, <1>9
  <2>2. at[0] \in Int
    BY <1>8
  <2> HIDE DEF Rec
  <2> QED BY <1>1, <2>1, <2>2, AlongPositions, Zenon
<1> QED BY <1>8, <1>9, <1>10, <1>11 DEF n
(* The same without a bound.                                               *)
LEMMA ValueFacts ==
    ASSUME NEW digits, IsList(digits), \A k \in DOMAIN digits : IsDigit(digits[k])
    PROVE  \E at : /\ at[0] = 0 /\ at[Len(digits)] = Value(digits)
                   /\ \A k \in 0 .. Len(digits) : at[k] \in Nat
                   /\ \A k \in 1 .. Len(digits) : at[k] = at[k - 1] * 10 + DigitValue(digits[k])
<1> DEFINE n == Len(digits)
           Rec(f) == f = [s \in SUBSET (1 .. n) |->
                             IF s = {} THEN 0
                             ELSE f[s \ {Max(s)}] * 10 + DigitValue(digits[Max(s)])]
           step == [p \in (1 .. n) \X Nat |-> p[2] * 10 + DigitValue(digits[p[1]])]
<1>1. n \in Nat /\ DOMAIN digits = 1 .. n
  BY ListFacts
<1>2. ASSUME NEW v \in Nat, NEW k \in 1 .. n PROVE v * 10 + DigitValue(digits[k]) \in Nat
  <2>1. DigitValue(digits[k]) \in Nat
    BY <1>1, DigitFacts
  <2> QED BY <2>1
<1>3. \A k \in 1 .. n, v \in Nat : step[<<k, v>>] = v * 10 + DigitValue(digits[k])
  OBVIOUS
<1> HIDE DEF step
<1>4. PICK g \in [SUBSET (1 .. n) -> Nat] : IsFold(g, n, 0, step)
  <2>1. \A k \in 1 .. n, v \in Nat : step[<<k, v>>] \in Nat
    BY <1>2, <1>3
  <2>2. 0 \in Nat
    OBVIOUS
  <2> HIDE DEF n, Rec
  <2> QED BY <1>1, <2>1, <2>2, FoldExists, Zenon
<1>5. Rec(g)
  <2>1. ASSUME NEW s \in SUBSET (1 .. n), s # {}
        PROVE  step[<<Max(s), g[s \ {Max(s)}]>>] = g[s \ {Max(s)}] * 10 + DigitValue(digits[Max(s)])
    <3>1. Max(s) \in 1 .. n
      BY <1>1, <2>1, LastOf
    <3>2. g[s \ {Max(s)}] \in Nat
      <4>1. s \ {Max(s)} \in SUBSET (1 .. n)
        OBVIOUS
      <4> QED BY <1>4, <4>1
    <3> HIDE DEF n
    <3> QED BY <1>3, <3>1, <3>2
  <2> QED BY <1>4, <2>1 DEF IsFold
<1> DEFINE f == CHOOSE x : Rec(x)
<1>6. Rec(f)
  <2> HIDE DEF Rec
  <2> QED BY <1>5
<1>7. Value(digits) = f[1 .. n]
  BY <1>1 DEF Value, FoldLeft, MapThenFoldSet
<1> HIDE DEF f
<1> DEFINE at == [k \in 0 .. n |-> f[1 .. k]]
<1>8. at[0] = 0
  <2>1. 1 .. 0 = {} /\ {} \in SUBSET (1 .. n) /\ 0 \in 0 .. n
    BY <1>1
  <2> QED BY <1>6, <2>1
<1>9. ASSUME NEW k \in 1 .. n PROVE at[k] = at[k - 1] * 10 + DigitValue(digits[k])
  <2>1. 1 .. k # {} /\ Max(1 .. k) = k /\ (1 .. k) \ {k} = 1 .. (k - 1)
    <3>1. k \in Nat \ {0}
      BY <1>1
    <3> HIDE DEF n, Rec, at
    <3> QED BY <3>1, UpToLast
  <2>2. 1 .. k \in SUBSET (1 .. n) /\ k \in 0 .. n /\ k - 1 \in 0 .. n
    BY <1>1
  <2>3. f[1 .. k] = f[1 .. (k - 1)] * 10 + DigitValue(digits[k])
    BY <1>6, <2>1, <2>2
  <2> QED BY <2>2, <2>3
<1>10. at[n] = Value(digits)
  BY <1>1, <1>7
<1> HIDE DEF at, n
<1>11. \A k \in 0 .. n : at[k] \in Nat
  <2>1. \A k \in 1 .. n : at[k - 1] \in Nat => at[k] \in Nat
    BY <1>2, <1>9
  <2>2. at[0] \in Nat
    BY <1>8
  <2> HIDE DEF Rec
  <2> QED BY <1>1, <2>1, <2>2, AlongPositions, Zenon
<1> QED BY <1>8, <1>9, <1>10, <1>11 DEF n

(* A sum that fits an int never wrapped on the way.                        *)
LEMMA SumIsValue ==
    ASSUME NEW digits, IsList(digits), \A k \in DOMAIN digits : IsDigit(digits[k])
    PROVE  /\ Value(digits) \in Nat /\ Sum(digits) \in -IntLimit .. IntLimit - 1
           /\ Value(digits) < IntLimit => Sum(digits) = Value(digits)
<1> DEFINE n == Len(digits)
<1>1. n \in Nat /\ DOMAIN digits = 1 .. n
  BY ListFacts
<1>2. \A k \in 1 .. n : DigitValue(digits[k]) \in 0 .. 9
  BY <1>1, DigitFacts
<1>3. PICK a : /\ a[0] = 0 /\ a[n] = Sum(digits)
               /\ \A k \in 0 .. n : a[k] \in Int
               /\ \A k \in 1 .. n : a[k] = AddDigit(a[k - 1], digits[k])
  BY SumFacts
<1>4. PICK b : /\ b[0] = 0 /\ b[n] = Value(digits)
               /\ \A k \in 0 .. n : b[k] \in Nat
               /\ \A k \in 1 .. n : b[k] = b[k - 1] * 10 + DigitValue(digits[k])
  BY ValueFacts
<1> HIDE DEF n
<1>5. Value(digits) \in Nat /\ Sum(digits) \in -IntLimit .. IntLimit - 1
  <2>1. CASE n = 0
    BY <1>3, <1>4, <2>1, LexerAssumption
  <2>2. CASE n # 0
    <3>1. n \in 1 .. n /\ n - 1 \in 0 .. n /\ n \in 0 .. n
      BY <1>1, <2>2
    <3>2. a[n] = AddDigit(a[n - 1], digits[n]) /\ a[n - 1] * 10 + DigitValue(digits[n]) \in Int
      BY <1>2, <1>3, <3>1
    <3>3. a[n] \in -IntLimit .. IntLimit - 1
      BY <3>2, WrapFacts DEF AddDigit
    <3> QED BY <1>3, <1>4, <3>1, <3>3
  <2> QED BY <2>1, <2>2
<1>6. \A k \in 0 .. n : b[k] <= b[n]
  <2> DEFINE f == [k \in 0 .. n |-> b[n - k]]
             V == {v \in Nat : v <= b[n]}
  <2>1. f[0] \in V
    BY <1>1, <1>4
  <2>2. ASSUME NEW k \in 1 .. n, f[k - 1] \in V
        PROVE  f[k] \in V
    <3>1. f[k] = b[n - k] /\ f[k - 1] = b[n - k + 1] /\ n - k + 1 \in 1 .. n /\ n - k \in 0 .. n
      BY <1>1
    <3>2. b[n - k + 1] = b[n - k] * 10 + DigitValue(digits[n - k + 1])
      <4>1. n - k + 1 - 1 = n - k
        BY <1>1
      <4> QED BY <1>4, <3>1, <4>1
    <3>3. b[n - k] \in Nat /\ b[n - k + 1] <= b[n] /\ b[n] \in Nat
      BY <1>1, <1>4, <2>2, <3>1
    <3>4. b[n - k] <= b[n]
      <4>1. \A x, y, m \in Nat, d \in 0 .. 9 : y = x * 10 + d /\ y <= m => x <= m
        OBVIOUS
      <4>2. DigitValue(digits[n - k + 1]) \in 0 .. 9 /\ b[n - k + 1] \in Nat
        BY <1>2, <3>1, <1>4, SMTT(30)
      <4> HIDE DEF f, V
      <4> QED BY <4>1, <4>2, <3>2, <3>3
    <3> QED BY <3>1, <3>3, <3>4
  <2> HIDE DEF f, V
  <2>3. \A k \in 0 .. n : f[k] \in V
    BY <1>1, <2>1, <2>2, AlongPositions, Zenon
  <2>4. ASSUME NEW k \in 0 .. n PROVE b[k] <= b[n]
    <3>1. n - k \in 0 .. n /\ n - (n - k) = k
      BY <1>1
    <3>2. f[n - k] = b[k]
      BY <3>1 DEF f
    <3> QED BY <2>3, <3>1, <3>2 DEF V
  <2> QED BY <2>4
<1>7. ASSUME Value(digits) < IntLimit
      PROVE  Sum(digits) = Value(digits)
  <2> DEFINE f == [k \in 0 .. n |-> a[k] - b[k]]
             V == {0}
  <2>1. f[0] \in V
    BY <1>1, <1>3, <1>4
  <2>2. ASSUME NEW k \in 1 .. n, f[k - 1] \in V
        PROVE  f[k] \in V
    <3>1. k \in 0 .. n /\ k - 1 \in 0 .. n
      BY <1>1
    <3>2. a[k - 1] = b[k - 1] /\ b[k - 1] \in Nat
      BY <1>3, <1>4, <2>2, <3>1
    <3>3. b[k] = b[k - 1] * 10 + DigitValue(digits[k]) /\ a[k] = WrapInt(b[k])
      BY <1>3, <1>4, <3>2 DEF AddDigit
    <3>4. b[k] \in Nat /\ b[k] < IntLimit
      BY <1>1, <1>4, <1>6, <1>7, <3>1, LexerAssumption
    <3>5. a[k] = b[k]
      BY <3>3, <3>4, WrapFacts, LexerAssumption
    <3> QED BY <3>1, <3>4, <3>5
  <2>3. \A k \in 0 .. n : f[k] \in V
    <3> HIDE DEF f, V
    <3> QED BY <1>1, <2>1, <2>2, AlongPositions, Zenon
  <2>4. a[n] - b[n] = 0 /\ a[n] \in Int /\ b[n] \in Nat
    BY <1>1, <1>3, <1>4, <2>3
  <2> QED BY <1>3, <1>4, <2>4
<1> QED BY <1>5, <1>7

(* The number of a literal, as int_to_str prints it.                       *)
LEMMA PrintedFacts ==
    ASSUME NEW v \in -IntLimit .. IntLimit - 1, NEW size
    PROVE  Printed(v, size) \in -IntLimit .. IntLimit - 1 /\ (v >= 0 => Printed(v, size) = v)
<1>1. CASE v < 0 /\ -v >= 10 ^ (size - 1)
  <2>1. (-v) \div 10 \in 0 .. -v
    BY <1>1, LexerAssumption
  <2>2. Printed(v, size) = -((-v) \div 10)
    BY <1>1 DEF Printed
  <2> QED BY <1>1, <2>1, <2>2, LexerAssumption
<1>2. CASE ~(v < 0 /\ -v >= 10 ^ (size - 1))
  <2>1. Printed(v, size) = v
    BY <1>2 DEF Printed
  <2> QED BY <2>1
<1> QED BY <1>1, <1>2

-----------------------------------------------------------------------------
(* What a turn pushes: the token of a comment that nothing set, a number,  *)
(* or a token of another type.                                             *)

OtherTypes ==
    Punctuation \cup LookAhead \cup {p.type : p \in Pairs} \cup Keywords \cup {"IDENT", "TYPE"}

NobodySet(t) ==
    \E junk \in JunkTypes : \E j : t = Token(junk, Unset, 0, line + 1, 1, j)
ANumber(t) ==
    \E j \in (curr + 1) .. Len(text) :
        /\ \A k \in curr .. (j - 1) : IsDigit(Char(k))
        /\ t = Token("NUM", Fixed, Printed(Sum(Slice(curr, j)), j - curr), line, pos, j)
Another(t) ==
    \E type \in OtherTypes : \E j : \E value \in {Fixed, Slice(curr, j)} :
        t = Token(type, value, 0, line, pos, j)

LEMMA SliceFacts ==
    ASSUME text \in Seq(STRING), NEW i \in 0 .. Len(text), NEW j \in i .. Len(text)
    PROVE  /\ Slice(i, j) \in Seq(STRING) /\ Len(Slice(i, j)) = j - i
           /\ DOMAIN Slice(i, j) = 1 .. (j - i)
           /\ \A k \in 1 .. (j - i) : Slice(i, j)[k] = text[i + k]
           /\ \A k \in 1 .. (j - i) : Slice(i, j)[k] = Char(i + k - 1)
<1>1. Slice(i, j) \in Seq(STRING) /\ Len(Slice(i, j)) = j - i
  BY DEF Slice
<1>2. \A k \in 1 .. (j - i) : Slice(i, j)[k] = text[i + k]
  BY DEF Slice
<1>3. \A k \in 1 .. (j - i) : text[i + k] = Char(i + k - 1)
  BY DEF Char
<1>4. DOMAIN Slice(i, j) = 1 .. (j - i)
  BY <1>1
<1> QED BY <1>1, <1>2, <1>3, <1>4

LEMMA WordTypes ==
    ASSUME NEW word
    PROVE  WordType(word) \in {"TYPE", "IDENT"} \cup Keywords
  BY DEF WordType

LEMMA NoNumber == "NUM" \notin OtherTypes
<1>1. "NUM" \notin Punctuation
  BY DEF Punctuation
<1>2. "NUM" \notin LookAhead \cup Keywords \cup {"IDENT", "TYPE"}
  BY DEF LookAhead, Keywords
<1>3. \A p \in Pairs : p.type # "NUM"
  BY DEF Pairs, Pair
<1> QED BY <1>1, <1>2, <1>3 DEF OtherTypes

LEMMA TurnPushes ==
    ASSUME Inv, Tokenize
    PROVE  /\ text' = text
           /\ \/ tokens' = tokens
              \/ /\ Char(curr) # NUL /\ Len(tokens) < Memory
                 /\ \E t : tokens' = Append(tokens, t) /\ (NobodySet(t) \/ ANumber(t) \/ Another(t))
<1>1. CASE LexEnd \/ LexNoMemory \/ LexNewline \/ LexBlank \/ LexUnexpected
  BY <1>1 DEF LexEnd, LexNoMemory, LexNewline, LexBlank, LexUnexpected
<1>2. CASE LexPunctuation
  <2>1. PICK c \in Punctuation : Reads(c) /\ Push(c, Fixed, 0, curr + 1)
    BY <1>2 DEF LexPunctuation
  <2>2. Another(Token(c, Fixed, 0, line, pos, curr + 1))
    BY DEF Another, OtherTypes
  <2> QED BY <2>1, <2>2 DEF Push, Reads
<1>3. CASE LexPair
  <2>1. PICK p \in Pairs : Reads(p.first) /\ Push(p.type, Fixed, 0, curr + 2)
    BY <1>3 DEF LexPair
  <2>2. Another(Token(p.type, Fixed, 0, line, pos, curr + 2))
    BY DEF Another, OtherTypes
  <2> QED BY <2>1, <2>2 DEF Push, Reads
<1>4. CASE LexShort
  <2>1. PICK c \in LookAhead : Reads(c) /\ Push(c, Fixed, 0, curr + 1)
    BY <1>4 DEF LexShort
  <2>2. Another(Token(c, Fixed, 0, line, pos, curr + 1))
    BY DEF Another, OtherTypes
  <2> QED BY <2>1, <2>2 DEF Push, Reads
<1>5. CASE LexComment
  <2>1. /\ Reads("/") /\ text' = text
        /\ \/ \E junk \in JunkTypes : \E j :
                  tokens' = Append(tokens, Token(junk, Unset, 0, line + 1, 1, j))
           \/ tokens' = tokens
    BY <1>5, Zenon DEF LexComment
  <2> QED BY <2>1 DEF Reads, NobodySet
<1>6. CASE LexNumber
  <2> DEFINE end == RunEnd(curr, IsDigit)
             t == Token("NUM", Fixed, Printed(Sum(Slice(curr, end)), end - curr), line, pos, end)
  <2>1. /\ Reads(Char(curr)) /\ IsDigit(Char(curr)) /\ text' = text
        /\ tokens' = Append(tokens, t)
    BY <1>6 DEF LexNumber, Push
  <2>2. curr < Len(text) /\ curr \in 0 .. Len(text) /\ text \in Seq(STRING)
    BY <2>1, Before DEF Reads, Inv
  <2>3. EndsRun(curr, end, IsDigit)
    BY <2>2, DigitRunEnds
  <2>4. ANumber(t)
    <3> HIDE DEF end
    <3> QED BY <2>1, <2>2, <2>3 DEF EndsRun, ANumber
  <2> QED BY <2>1, <2>4 DEF Reads
<1>7. CASE LexWord
  <2> DEFINE end  == RunEnd(curr, IsIdentChar)
             word == Slice(curr, end)
             type == WordType(word)
             value == IF type \in Keywords THEN Fixed ELSE word
             t    == Token(type, value, 0, line, pos, end)
  <2>1. /\ Reads(Char(curr)) /\ IsIdentStart(Char(curr)) /\ text' = text
        /\ tokens' = Append(tokens, t)
    BY <1>7 DEF LexWord, Push
  <2>2. curr \in 0 .. Len(text) /\ text \in Seq(STRING)
    BY <2>1, Before DEF Reads, Inv
  <2>3. EndsRun(curr, end, IsIdentChar)
    BY <2>2, WordRunEnds
  <2> HIDE DEF end
  <2>4. type \in OtherTypes
    BY WordTypes DEF OtherTypes
  <2>5. value \in {Fixed, Slice(curr, end)}
    OBVIOUS
  <2> HIDE DEF type, value
  <2>7. Another(t)
    BY <2>4, <2>5 DEF Another
  <2> QED BY <2>1, <2>7 DEF Reads
<1> QED BY <1>1, <1>2, <1>3, <1>4, <1>5, <1>6, <1>7 DEF Tokenize

(* The tokens of a turn: the old ones, and perhaps one more.               *)
LEMMA OldOrNew ==
    ASSUME Inv, NEW t, tokens' = Append(tokens, t), NEW k \in DOMAIN tokens'
    PROVE  \/ k \in DOMAIN tokens /\ tokens'[k] = tokens[k]
           \/ k = Len(tokens) + 1 /\ tokens'[k] = t
<1>1. IsList(tokens)
  BY DEF Inv, IsList
<1>2. DOMAIN tokens = 1 .. Len(tokens) /\ Len(tokens) \in Nat
  BY <1>1, ListFacts
<1>3. /\ DOMAIN tokens' = 1 .. (Len(tokens) + 1) /\ tokens'[Len(tokens) + 1] = t
      /\ \A i \in 1 .. Len(tokens) : tokens'[i] = tokens[i]
  BY <1>1, AppendFacts
<1> QED BY <1>2, <1>3

(* The digits of a number.                                                 *)
LEMMA NumberDigits ==
    ASSUME Inv, NEW j \in (curr + 1) .. Len(text), \A k \in curr .. (j - 1) : IsDigit(Char(k))
    PROVE  /\ IsList(Slice(curr, j))
           /\ \A k \in DOMAIN Slice(curr, j) : IsDigit(Slice(curr, j)[k])
<1>1. text \in Seq(STRING) /\ curr \in 0 .. Len(text) /\ j \in curr .. Len(text)
  BY Before DEF Inv
<1>2. \A k \in 1 .. (j - curr) : curr + k - 1 \in curr .. (j - 1)
  BY <1>1
<1> QED BY <1>1, <1>2, SliceFacts DEF IsList

LEMMA TurnTypes ==
    ASSUME TypeOK, Tokenize
    PROVE  /\ line' \in Nat \ {0} /\ pos' \in Nat \ {0}
           /\ status' \in {"running", "done", "exit1", "aborted"}
<1>1. CASE LexEnd \/ LexNoMemory \/ LexNewline \/ LexBlank \/ LexUnexpected
  BY <1>1 DEF TypeOK, LexEnd, LexNoMemory, LexNewline, LexBlank, LexUnexpected
<1>2. CASE LexPunctuation \/ LexPair \/ LexShort \/ LexNumber \/ LexWord
  <2>1. pos' = pos + 1 /\ line' = line /\ status' = status
    BY <1>2 DEF LexPunctuation, LexPair, LexShort, LexNumber, LexWord, Push
  <2> QED BY <2>1 DEF TypeOK
<1>3. CASE LexComment
  BY <1>3 DEF TypeOK, LexComment
<1> QED BY <1>1, <1>2, <1>3 DEF Tokenize

(* Every type a token can have, and a number an int can hold.              *)
LEMMA NewTokenOK ==
    ASSUME Inv, TypeOK, NEW t, NobodySet(t) \/ ANumber(t) \/ Another(t), InText(t)
    PROVE  TokenOK(t)
<1>1. CASE NobodySet(t)
  <2>1. PICK junk \in JunkTypes : \E j : t = Token(junk, Unset, 0, line + 1, 1, j)
    BY <1>1 DEF NobodySet
  <2>2. t.type \in TokenTypes /\ t.value = Unset
    BY <2>1 DEF Token, TokenTypes
  <2>3. t.number \in -IntLimit .. IntLimit - 1 /\ t.line \in Nat \ {0} /\ t.pos \in Nat \ {0}
    BY <2>1, LexerAssumption DEF Token, TypeOK
  <2> QED BY <2>2, <2>3 DEF TokenOK, InText
<1>2. CASE ANumber(t)
  <2>1. PICK j \in (curr + 1) .. Len(text) :
            /\ \A k \in curr .. (j - 1) : IsDigit(Char(k))
            /\ t = Token("NUM", Fixed, Printed(Sum(Slice(curr, j)), j - curr), line, pos, j)
    BY <1>2 DEF ANumber
  <2>2. Printed(Sum(Slice(curr, j)), j - curr) \in -IntLimit .. IntLimit - 1
    BY <2>1, NumberDigits, SumIsValue, PrintedFacts
  <2>3. t.type \in TokenTypes /\ t.value = Fixed
    BY <2>1 DEF Token, TokenTypes
  <2>4. t.number \in -IntLimit .. IntLimit - 1 /\ t.line \in Nat \ {0} /\ t.pos \in Nat \ {0}
    BY <2>1, <2>2 DEF Token, TypeOK
  <2> QED BY <2>3, <2>4 DEF TokenOK, InText
<1>3. CASE Another(t)
  <2>1. PICK type \in OtherTypes : \E j : \E value \in {Fixed, Slice(curr, j)} :
            t = Token(type, value, 0, line, pos, j)
    BY <1>3 DEF Another
  <2>2. t.type \in TokenTypes /\ t.value \in {Fixed, Slice(t.from, t.to)}
    BY <2>1 DEF Token, TokenTypes, OtherTypes
  <2>3. t.number \in -IntLimit .. IntLimit - 1 /\ t.line \in Nat \ {0} /\ t.pos \in Nat \ {0}
    BY <2>1, LexerAssumption DEF Token, TypeOK
  <2> QED BY <2>2, <2>3 DEF TokenOK, InText
<1> QED BY <1>1, <1>2, <1>3

LEMMA TurnKeepsTypes ==
    ASSUME Inv, Inv', TypeOK, Tokenize
    PROVE  TypeOK'
<1>1. text' = text
  BY TurnPushes
<1>2. \A t : TokenOK(t)' <=> TokenOK(t)
  BY <1>1 DEF TokenOK, Slice
<1>3. text' \in Seq(STRING) /\ curr' \in 0 .. Len(text')
  BY DEF Inv
<1>4. Len(tokens') <= Memory /\ \A k \in DOMAIN tokens' : TokenOK(tokens'[k])
  <2>1. CASE tokens' = tokens
    BY <2>1 DEF TypeOK
  <2>2. CASE tokens' # tokens
    <3>1. PICK t : /\ Len(tokens) < Memory /\ tokens' = Append(tokens, t)
                   /\ NobodySet(t) \/ ANumber(t) \/ Another(t)
      BY <2>2, TurnPushes
    <3>2. IsList(tokens)
      BY DEF Inv, IsList
    <3>3. Len(tokens) \in Nat /\ Len(tokens') = Len(tokens) + 1
          /\ Len(tokens) + 1 \in DOMAIN tokens' /\ tokens'[Len(tokens) + 1] = t
      BY <3>1, <3>2, ListFacts, AppendFacts
    <3>4. InText(t)
      BY <1>1, <3>3 DEF Inv, InText
    <3>5. TokenOK(t)
      BY <3>1, <3>4, NewTokenOK
    <3>6. Len(tokens') <= Memory
      BY <3>1, <3>3, LexerAssumption
    <3> QED BY <3>1, <3>5, <3>6, OldOrNew DEF TypeOK
  <2> QED BY <2>1, <2>2
<1>5. \A k \in DOMAIN tokens' : TokenOK(tokens[k])'
  BY <1>1, <1>4 DEF TokenOK, Slice
<1> QED BY <1>3, <1>4, <1>5, TurnTypes DEF TypeOK

-----------------------------------------------------------------------------

(* The type of everything the scanner keeps: at every turn the reader is   *)
(* inside the file or just behind it, the vector has no more tokens than   *)
(* there is memory for, and each has one of the types there are, a number  *)
(* an int can hold, and the characters it was read from as its value.      *)
THEOREM LexerTypes == Spec => []TypeOK
<1>1. Init => TypeOK
  BY LexerAssumption DEF Init, Start, TypeOK
<1>2. Inv /\ Inv' /\ TypeOK /\ [Next]_vars => TypeOK'
  <2>1. CASE UNCHANGED vars
    BY <2>1 DEF vars, TypeOK, TokenOK, Slice
  <2> QED BY <2>1, TurnKeepsTypes DEF Next, Stopped
<1> QED BY <1>1, <1>2, InvHolds, PTL DEF Spec

(* A literal an int can hold keeps its value on the way through            *)
(* tokenize_digit, which sums in an int that wraps, and int_to_str, whose  *)
(* buffer has the length of the literal: for every size of an int, however *)
(* many zeros lead it and whatever stands next to it.                      *)
THEOREM LiteralsKeep == Spec => []LiteralsKept
<1> DEFINE Kept(t) ==
               t.type = "NUM" /\ t.value # Unset =>
                   (Value(Slice(t.from, t.to)) < IntLimit =>
                       t.number = Value(Slice(t.from, t.to)))
<1>1. LiteralsKept <=> \A k \in DOMAIN tokens : Kept(tokens[k])
  BY DEF LiteralsKept
<1>2. Init => LiteralsKept
  BY DEF Init, Start, LiteralsKept
<1>3. ASSUME Inv, NEW t, NobodySet(t) \/ ANumber(t) \/ Another(t)
      PROVE  Kept(t)
  <2>1. CASE NobodySet(t)
    BY <2>1 DEF NobodySet, Token
  <2>2. CASE Another(t)
    BY <2>2, NoNumber DEF Another, Token
  <2>3. CASE ANumber(t)
    <3>1. PICK j \in (curr + 1) .. Len(text) :
              /\ \A k \in curr .. (j - 1) : IsDigit(Char(k))
              /\ t = Token("NUM", Fixed, Printed(Sum(Slice(curr, j)), j - curr), line, pos, j)
      BY <2>3 DEF ANumber
    <3> DEFINE s == Slice(curr, j)
    <3>2. t.from = curr /\ t.to = j /\ t.number = Printed(Sum(s), j - curr)
      BY <3>1 DEF Token
    <3>3. /\ Value(s) \in Nat /\ Sum(s) \in -IntLimit .. IntLimit - 1
          /\ Value(s) < IntLimit => Sum(s) = Value(s)
      BY <1>3, <3>1, NumberDigits, SumIsValue
    <3>4. Value(s) < IntLimit => t.number = Value(s)
      BY <3>2, <3>3, PrintedFacts
    <3> QED BY <3>2, <3>4
  <2> QED BY <1>3, <2>1, <2>2, <2>3
<1>4. Inv /\ LiteralsKept /\ [Next]_vars => LiteralsKept'
  <2> SUFFICES ASSUME Inv, LiteralsKept, [Next]_vars PROVE LiteralsKept'
    OBVIOUS
  <2>1. CASE UNCHANGED vars
    BY <2>1 DEF vars, LiteralsKept, Slice
  <2>2. CASE Tokenize
    <3>1. text' = text
      BY <2>2, TurnPushes
    <3>2. \A k \in DOMAIN tokens' : Kept(tokens'[k])
      <4>1. CASE tokens' = tokens
        BY <1>1, <4>1
      <4>2. CASE tokens' # tokens
        <5>1. PICK t : /\ tokens' = Append(tokens, t)
                       /\ NobodySet(t) \/ ANumber(t) \/ Another(t)
          BY <2>2, <4>2, TurnPushes
        <5>2. Kept(t)
          BY <1>3, <5>1
        <5> HIDE DEF Kept
        <5> QED BY <1>1, <5>1, <5>2, OldOrNew
      <4> QED BY <4>1, <4>2
    <3> QED BY <3>1, <3>2 DEF LiteralsKept, Slice
  <2> QED BY <2>1, <2>2 DEF Next, Stopped
<1> QED BY <1>2, <1>4, InvHolds, PTL DEF Spec

-----------------------------------------------------------------------------
(* Lines.                                                                  *)

NewlinesUpTo(i) == {k \in 1 .. i : text[k] = Newline}

LEMMA NewlinesCounted ==
    ASSUME NEW i \in Nat
    PROVE  /\ Cardinality(NewlinesUpTo(i)) \in Nat
           /\ text[i + 1] = Newline =>
                  Cardinality(NewlinesUpTo(i + 1)) = Cardinality(NewlinesUpTo(i)) + 1
           /\ \A j \in Nat : i <= j /\ (\A k \in (i + 1) .. j : text[k] # Newline) =>
                  NewlinesUpTo(j) = NewlinesUpTo(i)
<1>1. IsFiniteSet(NewlinesUpTo(i))
  <2>1. IsFiniteSet(1 .. i)
    BY FS_Interval
  <2> QED BY <2>1, FS_Subset DEF NewlinesUpTo
<1>2. Cardinality(NewlinesUpTo(i)) \in Nat
  BY <1>1, FS_CardinalityType
<1>3. ASSUME text[i + 1] = Newline
      PROVE  Cardinality(NewlinesUpTo(i + 1)) = Cardinality(NewlinesUpTo(i)) + 1
  <2>1. NewlinesUpTo(i + 1) = NewlinesUpTo(i) \cup {i + 1} /\ i + 1 \notin NewlinesUpTo(i)
    BY <1>3 DEF NewlinesUpTo
  <2> QED BY <1>1, <2>1, FS_AddElement
<1>4. ASSUME NEW j \in Nat, i <= j, \A k \in (i + 1) .. j : text[k] # Newline
      PROVE  NewlinesUpTo(j) = NewlinesUpTo(i)
  BY <1>4 DEF NewlinesUpTo
<1> QED BY <1>2, <1>3, <1>4

(* The characters from one place to another, without a newline.            *)
NoNewline(i, j) == \A k \in i .. (j - 1) : Char(k) # Newline

(* A turn counts the newline it reads, and no other; a comment that the    *)
(* end of the file closes is counted too, but nothing comes behind it.     *)
LEMMA TurnLines ==
    ASSUME Inv, Tokenize, IsText, line \in Nat
    PROVE  /\ text' = text /\ curr' \in curr .. Len(text)
           /\ \/ line' = line /\ NoNewline(curr, curr')
              \/ /\ line' = line + 1
                 /\ \/ curr' = Len(text)
                    \/ /\ curr' > curr /\ Char(curr' - 1) = Newline
                       /\ NoNewline(curr, curr' - 1)
<1>1. /\ text \in Seq(STRING) /\ Len(text) \in Nat /\ curr \in 0 .. Len(text) /\ curr \in Nat
      /\ \A k \in 0 .. Len(text) : Char(k) = NUL <=> k = Len(text)
  BY Before DEF Inv, IsText, Char
<1>2. CASE LexEnd \/ LexNoMemory
  <2>1. curr' = curr /\ line' = line /\ text' = text
    BY <1>1, <1>2 DEF LexEnd, LexNoMemory, After
  <2> QED BY <1>1, <2>1 DEF NoNewline
<1>3. CASE LexNewline
  <2>1. curr' = curr + 1 /\ line' = line + 1 /\ text' = text /\ Char(curr) = Newline /\ Char(curr) # NUL
    BY <1>3 DEF LexNewline, Reads
  <2> QED BY <1>1, <2>1 DEF NoNewline
<1>4. CASE LexBlank \/ LexUnexpected \/ LexPunctuation
  <2>1. curr' = curr + 1 /\ line' = line /\ text' = text /\ Char(curr) # Newline /\ Char(curr) # NUL
    <3>1. \A c \in Blanks \cup Punctuation : c # Newline
      BY DEF Blanks, Punctuation, Newline
    <3> QED BY <1>4, <3>1 DEF LexBlank, LexUnexpected, LexPunctuation, Reads, Push
  <2> QED BY <1>1, <2>1 DEF NoNewline
<1>5. CASE LexPair
  <2>1. PICK p \in Pairs : /\ Char(curr) = p.first /\ Char(curr + 1) = p.second
                           /\ curr' = curr + 2 /\ line' = line /\ text' = text /\ Char(curr) # NUL
    BY <1>5 DEF LexPair, Reads, Push
  <2>2. p.first # Newline /\ p.second # Newline /\ p.second # NUL
    BY DEF Pairs, Pair, Newline, NUL
  <2>3. curr + 2 <= Len(text)
    BY <1>1, <2>1, <2>2
  <2> QED BY <1>1, <2>1, <2>2, <2>3 DEF NoNewline
<1>6. CASE LexShort
  <2>1. /\ Char(curr) \in LookAhead /\ curr' = Peeked(curr + 1) /\ line' = line /\ text' = text
        /\ Char(curr) # NUL
    BY <1>6 DEF LexShort, Reads, Push
  <2>2. Char(curr) # Newline
    BY <2>1, ClassesApart
  <2>3. curr < Len(text) /\ (curr' = curr \/ curr' = curr + 1)
    BY <1>1, <2>1 DEF Peeked, After
  <2> QED BY <1>1, <2>1, <2>2, <2>3 DEF NoNewline
<1>7. CASE LexComment
  <2> DEFINE end == RunEnd(curr + 2, LAMBDA c : c # NUL /\ c # Newline)
  <2>1. /\ Reads("/") /\ Char(curr + 1) = "/"
        /\ curr' = After(end) /\ line' = line + 1 /\ text' = text
    BY <1>7, Zenon DEF LexComment
  <2>2. Char(curr + 1) # NUL /\ Char(curr) = "/" /\ Char(curr) # NUL
    BY <2>1 DEF NUL, Reads
  <2>3. curr + 2 \in 0 .. Len(text)
    BY <1>1, <2>2
  <2>4. end = RunEnd(curr + 2, InComment)
    BY Zenon DEF InComment, RunEnd
  <2> HIDE DEF end
  <2>5. EndsRun(curr + 2, end, InComment)
    BY <1>1, <2>3, <2>4, CommentRunEnds
  <2>6. /\ end \in (curr + 2) .. Len(text)
        /\ \A k \in (curr + 2) .. (end - 1) : Char(k) # Newline
        /\ Char(end) = NUL \/ Char(end) = Newline
    BY <2>5 DEF EndsRun, InComment
  <2>7. CASE end = Len(text)
    <3>1. curr' = Len(text)
      BY <2>1, <2>7 DEF After
    <3> QED BY <1>1, <2>1, <3>1
  <2>8. CASE end # Len(text)
    <3>1. curr' = end + 1 /\ end < Len(text)
      BY <1>1, <2>1, <2>6, <2>8 DEF After
    <3>2. Char(end) = Newline
      BY <1>1, <2>3, <2>6, <2>8
    <3>3. Char(curr) # Newline /\ Char(curr + 1) # Newline
      BY <2>1, <2>2 DEF Newline
    <3>4. NoNewline(curr, end)
      <4> SUFFICES ASSUME NEW k \in curr .. (end - 1) PROVE Char(k) # Newline
        BY DEF NoNewline
      <4>1. k = curr \/ k = curr + 1 \/ k \in (curr + 2) .. (end - 1)
        BY <1>1, <2>6
      <4> QED BY <2>6, <3>3, <4>1
    <3> QED BY <1>1, <2>1, <2>6, <3>1, <3>2, <3>4
  <2> QED BY <2>7, <2>8
<1>8. CASE LexNumber
  <2> DEFINE end == RunEnd(curr, IsDigit)
  <2>1. curr' = AfterRun(end) /\ line' = line /\ text' = text
    BY <1>8 DEF LexNumber, Push
  <2>2. EndsRun(curr, end, IsDigit)
    BY <1>1, DigitRunEnds
  <2> HIDE DEF end
  <2>3. curr' = end /\ end \in curr .. Len(text)
    BY <1>1, <2>1, <2>2 DEF EndsRun, AfterRun, After
  <2>4. \A c : IsDigit(c) => c # Newline
    BY DEF IsDigit, Digits, Newline
  <2> QED BY <2>1, <2>2, <2>3, <2>4 DEF EndsRun, NoNewline
<1>9. CASE LexWord
  <2> DEFINE end == RunEnd(curr, IsIdentChar)
  <2>1. curr' = AfterRun(end) /\ line' = line /\ text' = text
    BY <1>9 DEF LexWord, Push
  <2>2. EndsRun(curr, end, IsIdentChar)
    BY <1>1, WordRunEnds
  <2> HIDE DEF end
  <2>3. curr' = end /\ end \in curr .. Len(text)
    BY <1>1, <2>1, <2>2 DEF EndsRun, AfterRun, After
  <2>4. \A c : IsIdentChar(c) => c # Newline
    <3>1. \A c : IsDigit(c) => c # Newline
      BY DEF IsDigit, Digits, Newline
    <3> QED BY <3>1, LexerAssumption DEF IsIdentChar
  <2> QED BY <2>1, <2>2, <2>3, <2>4 DEF EndsRun, NoNewline
<1> QED BY <1>2, <1>3, <1>4, <1>5, <1>6, <1>7, <1>8, <1>9 DEF Tokenize

(* How many lines were counted, as long as a token may follow.             *)
LineCounted ==
    IsText => Char(curr) = NUL \/ line = 1 + Cardinality(NewlinesUpTo(curr))

LEMMA TurnKeepsLine ==
    ASSUME Inv, Inv', LineCounted, Tokenize, line \in Nat
    PROVE  LineCounted'
<1> SUFFICES ASSUME IsText, Char(curr') # NUL, text' = text
             PROVE  line' = 1 + Cardinality(NewlinesUpTo(curr'))
  <2>1. text' = text
    BY TurnPushes
  <2>2. (IsText' <=> IsText) /\ (Char(curr))' = Char(curr')
        /\ (NewlinesUpTo(curr))' = NewlinesUpTo(curr')
    BY <2>1 DEF IsText, Char, NewlinesUpTo
  <2> QED BY <2>1, <2>2 DEF LineCounted
<1>1. /\ text \in Seq(STRING) /\ Len(text) \in Nat /\ curr \in 0 .. Len(text) /\ curr \in Nat
      /\ \A k \in 0 .. Len(text) : Char(k) = NUL <=> k = Len(text)
      /\ \A k \in 0 .. (Len(text) - 1) : Char(k) = text[k + 1]
  BY Before DEF Inv, IsText, Char
<1>2. curr' \in curr .. Len(text) /\ curr' # Len(text)
  BY <1>1, TurnLines
<1>3. PICK m \in Nat : m = Len(text)
  BY <1>1
<1>4. PICK d \in Nat : d = curr'
  BY <1>1, <1>2
<1>5. curr <= d /\ d < m
  BY <1>1, <1>2, <1>3, <1>4
<1>6. line = 1 + Cardinality(NewlinesUpTo(curr))
  BY <1>1, <1>2 DEF LineCounted
<1>7. CASE line' = line /\ NoNewline(curr, curr')
  <2>1. \A k \in (curr + 1) .. curr' : text[k] # Newline
    <3> SUFFICES ASSUME NEW k \in (curr + 1) .. curr' PROVE text[k] # Newline
      OBVIOUS
    <3>1. k - 1 \in curr .. (d - 1) /\ k - 1 \in 0 .. (m - 1) /\ k - 1 + 1 = k
      <4>1. curr \in Nat
        BY <1>1
      <4>2. k \in Int /\ curr + 1 <= k /\ k <= d
        BY <1>4, <4>1
      <4> QED BY <1>5, <4>1, <4>2
    <3> QED BY <1>1, <1>7, <1>3, <1>4, <3>1 DEF NoNewline
  <2>2. NewlinesUpTo(curr') = NewlinesUpTo(curr)
    BY <1>1, <1>2, <2>1, NewlinesCounted
  <2> QED BY <1>6, <1>7, <2>2
<1>8. CASE line' = line + 1 /\ curr' > curr /\ Char(curr' - 1) = Newline /\ NoNewline(curr, curr' - 1)
  <2>1. \A k \in (curr + 1) .. (d - 1) : text[k] # Newline
    <3> SUFFICES ASSUME NEW k \in (curr + 1) .. (d - 1) PROVE text[k] # Newline
      OBVIOUS
    <3>1. k - 1 \in curr .. (d - 1 - 1) /\ k - 1 \in 0 .. (m - 1) /\ k - 1 + 1 = k
      <4>1. curr \in Nat
        BY <1>1
      <4>2. k \in Int /\ curr + 1 <= k /\ k <= d - 1
        BY <4>1
      <4> QED BY <1>5, <4>1, <4>2
    <3> QED BY <1>1, <1>8, <1>3, <1>4, <3>1 DEF NoNewline
  <2>2. curr' - 1 \in Nat /\ curr <= curr' - 1 /\ curr' - 1 \in 0 .. (Len(text) - 1)
        /\ curr' - 1 + 1 = curr'
    <3>1. d > curr
      BY <1>8, <1>4
    <3>2. d - 1 \in Nat /\ curr <= d - 1 /\ d - 1 \in 0 .. (m - 1) /\ d - 1 + 1 = d
      BY <1>1, <1>5, <3>1
    <3> QED BY <1>3, <1>4, <3>2
  <2>3. NewlinesUpTo(curr' - 1) = NewlinesUpTo(curr)
    BY <1>1, <1>4, <2>1, <2>2, NewlinesCounted
  <2>4. text[curr'] = Newline
    BY <1>1, <1>8, <2>2
  <2>5. Cardinality(NewlinesUpTo(curr')) = Cardinality(NewlinesUpTo(curr' - 1)) + 1
    BY <2>2, <2>4, NewlinesCounted
  <2>6. Cardinality(NewlinesUpTo(curr)) \in Nat
    BY <1>1, NewlinesCounted
  <2> QED BY <1>6, <1>8, <2>3, <2>5, <2>6
<1> QED BY <1>2, <1>7, <1>8, TurnLines

(* A token carries the number of the line it is on, across comments and    *)
(* empty lines, in every file that is text.                                *)
THEOREM LinesCount == Spec => []LinesRight
<1> DEFINE OnLine(t) == t.value # Unset => t.line = 1 + Cardinality(NewlinesUpTo(t.from))
<1>1. LinesRight <=> (IsText => \A k \in DOMAIN tokens : OnLine(tokens[k]))
  BY DEF LinesRight, NewlinesUpTo
<1>2. Init => LinesRight /\ LineCounted
  <2> SUFFICES ASSUME Init PROVE LinesRight /\ LineCounted
    OBVIOUS
  <2>1. NewlinesUpTo(0) = {}
    BY DEF NewlinesUpTo
  <2>2. Cardinality({}) = 0
    BY FS_EmptySet
  <2> QED BY <2>1, <2>2 DEF Init, Start, LinesRight, LineCounted
<1>3. ASSUME Inv, IsText, LineCounted, Char(curr) # NUL,
             NEW t, NobodySet(t) \/ ANumber(t) \/ Another(t)
      PROVE  OnLine(t)
  <2>1. line = 1 + Cardinality(NewlinesUpTo(curr))
    BY <1>3 DEF LineCounted
  <2>2. t.value = Unset \/ (t.line = line /\ t.from = curr)
    BY <1>3 DEF NobodySet, ANumber, Another, Token
  <2> QED BY <2>1, <2>2
<1>4. /\ Inv /\ Inv' /\ TypeOK /\ LinesRight /\ LineCounted /\ [Next]_vars
      => LinesRight' /\ LineCounted'
  <2> SUFFICES ASSUME Inv, Inv', TypeOK, LinesRight, LineCounted, [Next]_vars
               PROVE  LinesRight' /\ LineCounted'
    OBVIOUS
  <2>1. CASE UNCHANGED vars
    BY <2>1 DEF vars, LinesRight, LineCounted, IsText, Char, NewlinesUpTo
  <2>2. CASE Tokenize
    <3>1. text' = text
      BY <2>2, TurnPushes
    <3>2. LineCounted'
      BY <2>2, TurnKeepsLine DEF TypeOK
    <3>3. ASSUME IsText PROVE \A k \in DOMAIN tokens' : OnLine(tokens'[k])
      <4>1. CASE tokens' = tokens
        BY <1>1, <3>3, <4>1
      <4>2. CASE tokens' # tokens
        <5>1. PICK t : /\ tokens' = Append(tokens, t) /\ Char(curr) # NUL
                       /\ NobodySet(t) \/ ANumber(t) \/ Another(t)
          BY <2>2, <4>2, TurnPushes
        <5>2. OnLine(t)
          BY <1>3, <3>3, <5>1
        <5> HIDE DEF OnLine
        <5> QED BY <1>1, <3>3, <5>1, <5>2, OldOrNew
      <4> QED BY <4>1, <4>2
    <3>4. LinesRight'
      BY <3>1, <3>3 DEF LinesRight, IsText, NewlinesUpTo
    <3> QED BY <3>2, <3>4
  <2> QED BY <2>1, <2>2 DEF Next, Stopped
<1> QED BY <1>2, <1>4, InvHolds, LexerTypes, PTL DEF Spec

-----------------------------------------------------------------------------
(* The lexemes of the text, from each character on.                        *)

Blank(i) == text[i + 1] \in Blanks \cup {Newline}
IsWalk(f) ==
    f = [i \in 0 .. Len(text) |->
            IF i = Len(text) THEN <<>>
            ELSE IF text[i + 1] \in Blanks \cup {Newline} THEN f[i + 1]
            ELSE IF CommentAt(i) THEN f[LineEnd(i)]
            ELSE IF LexemeEnds(i) = {} THEN <<Span(i, i)>>
            ELSE LET j == Max(LexemeEnds(i)) IN <<Span(i, j)>> \o f[j]]
LexemesFrom == CHOOSE f : IsWalk(f)

LEMMA LineEnds ==
    ASSUME text \in Seq(STRING), NEW i \in 0 .. Len(text), CommentAt(i)
    PROVE  /\ LineEnd(i) \in (i + 2) .. Len(text)
           /\ LineEnd(i) < Len(text) => text[LineEnd(i) + 1] = Newline
           /\ \A k \in i .. (LineEnd(i) - 1) : text[k + 1] # Newline
<1>1. /\ Len(text) \in Nat /\ i + 1 < Len(text)
      /\ text[i + 1] # Newline /\ text[i + 2] # Newline
  BY DEF CommentAt, Newline
<1>2. CASE \E j \in i .. (Len(text) - 1) : text[j + 1] = Newline
  <2> DEFINE S == {j \in i .. (Len(text) - 1) : text[j + 1] = Newline}
  <2>1. S \in SUBSET Nat /\ S # {}
    <3>1. i \in Nat /\ \A j \in S : j \in Nat
      OBVIOUS
    <3> QED BY <1>2, <3>1
  <2>2. PICK j \in S : \A k \in S : j <= k
    <3> HIDE DEF S
    <3> QED BY <2>1, LeastOf
  <2>3. \A k \in i .. (j - 1) : text[k + 1] # Newline
    <3> SUFFICES ASSUME NEW k \in i .. (j - 1), text[k + 1] = Newline PROVE FALSE
      OBVIOUS
    <3>1. k \in S
      BY <1>1
    <3> QED BY <2>2, <3>1
  <2>4. \E e \in i .. (Len(text) - 1) :
            text[e + 1] = Newline /\ \A k \in i .. (e - 1) : text[k + 1] # Newline
    BY <2>3
  <2> DEFINE e == LineEnd(i)
  <2>5. /\ e \in i .. (Len(text) - 1) /\ text[e + 1] = Newline
        /\ \A k \in i .. (e - 1) : text[k + 1] # Newline
    BY <1>2, <2>4 DEF LineEnd
  <2> HIDE DEF e, S
  <2>6. e # i /\ e # i + 1
    BY <1>1, <2>5
  <2>7. e \in (i + 2) .. Len(text)
    BY <1>1, <2>5, <2>6
  <2> QED BY <2>5, <2>7 DEF e
<1>3. CASE ~\E j \in i .. (Len(text) - 1) : text[j + 1] = Newline
  <2>1. LineEnd(i) = Len(text)
    BY <1>3 DEF LineEnd
  <2> QED BY <1>1, <1>3, <2>1
<1> QED BY <1>2, <1>3

LEMMA LastLexemeEnd ==
    ASSUME text \in Seq(STRING), NEW i \in 0 .. Len(text), LexemeEnds(i) # {}
    PROVE  Max(LexemeEnds(i)) \in LexemeEnds(i) /\ Max(LexemeEnds(i)) \in (i + 1) .. Len(text)
<1>1. LexemeEnds(i) \in SUBSET (1 .. Len(text)) /\ Len(text) \in Nat
  BY DEF LexemeEnds
<1>2. Max(LexemeEnds(i)) \in LexemeEnds(i)
  BY <1>1, LastOf
<1> QED BY <1>2 DEF LexemeEnds

LEMMA WalkHolds ==
    ASSUME text \in Seq(STRING)
    PROVE  IsWalk(LexemesFrom) /\ Lexemes = LexemesFrom[0]
<1> DEFINE n == Len(text)
           Illegal(i)  == LexemeEnds(i) = {}
           last == {i \in 0 .. n : i = n \/ (~Blank(i) /\ ~CommentAt(i) /\ Illegal(i))}
           next == [i \in 0 .. n |-> IF Blank(i) THEN i + 1
                                      ELSE IF CommentAt(i) THEN LineEnd(i) ELSE Max(LexemeEnds(i))]
           piece == [i \in 0 .. n |-> IF i = n \/ Blank(i) \/ CommentAt(i) THEN <<>>
                                       ELSE IF Illegal(i) THEN <<Span(i, i)>>
                                       ELSE <<Span(i, Max(LexemeEnds(i)))>>]
<1>1. n \in Nat
  OBVIOUS
<1>2. ASSUME NEW i \in 0 .. n, i \notin last PROVE next[i] \in (i + 1) .. n
  <2>1. CASE Blank(i)
    BY <1>1, <1>2, <2>1
  <2>2. CASE ~Blank(i) /\ CommentAt(i)
    <3>1. LineEnd(i) \in (i + 2) .. n
      BY <2>2, LineEnds
    <3> QED BY <1>1, <2>2, <3>1
  <2>3. CASE ~Blank(i) /\ ~CommentAt(i)
    <3>1. Max(LexemeEnds(i)) \in (i + 1) .. n
      BY <1>2, <2>3, LastLexemeEnd
    <3> QED BY <2>3, <3>1
  <2> QED BY <2>1, <2>2, <2>3
<1>3. ASSUME NEW i \in 0 .. n PROVE IsList(piece[i])
  <2>1. \/ piece[i] = <<>> \/ piece[i] = <<Span(i, i)>>
        \/ piece[i] = <<Span(i, Max(LexemeEnds(i)))>>
    OBVIOUS
  <2> HIDE DEF piece
  <2> QED BY <2>1, ShortLists
<1> HIDE DEF next, last, piece
<1>4. PICK f : Collects(f, n, last, next, piece) /\ \A i \in 0 .. n : IsList(f[i])
  <2>1. \A i \in 0 .. n : i \notin last => next[i] \in (i + 1) .. n
    BY <1>2
  <2>2. \A i \in 0 .. n : IsList(piece[i])
    BY <1>3
  <2> HIDE DEF n, Illegal
  <2> QED BY <1>1, <2>1, <2>2, WalkExists
<1> DEFINE Body(i) == IF i = Len(text) THEN <<>>
                      ELSE IF text[i + 1] \in Blanks \cup {Newline} THEN f[i + 1]
                      ELSE IF CommentAt(i) THEN f[LineEnd(i)]
                      ELSE IF LexemeEnds(i) = {} THEN <<Span(i, i)>>
                      ELSE LET j == Max(LexemeEnds(i)) IN <<Span(i, j)>> \o f[j]
<1>5. ASSUME NEW i \in 0 .. n PROVE f[i] = Body(i)
  <2>1. f[i] = IF i \in last THEN piece[i] ELSE piece[i] \o f[next[i]]
    BY <1>4 DEF Collects
  <2>2. CASE i = n
    BY <2>1, <2>2 DEF last, piece
  <2>3. CASE i # n /\ (Blank(i) \/ CommentAt(i))
    <3>1. i \notin last /\ piece[i] = <<>>
      BY <2>3 DEF last, piece
    <3>2. next[i] \in 0 .. n
      <4>1. next[i] \in (i + 1) .. n
        BY <1>2, <3>1
      <4> HIDE DEF n
      <4> QED BY <1>1, <4>1
    <3>3. f[i] = f[next[i]]
      <4>1. IsList(f[next[i]])
        BY <1>4, <3>2
      <4>2. <<>> \o f[next[i]] = f[next[i]]
        BY <4>1 DEF IsList
      <4> QED BY <2>1, <3>1, <4>2
    <3>4. next[i] = IF Blank(i) THEN i + 1 ELSE LineEnd(i)
      BY <2>3 DEF next
    <3> QED BY <2>3, <3>3, <3>4 DEF Blank
  <2>4. CASE i # n /\ ~Blank(i) /\ ~CommentAt(i) /\ Illegal(i)
    BY <2>1, <2>4 DEF last, piece, Blank
  <2>5. CASE i # n /\ ~Blank(i) /\ ~CommentAt(i) /\ ~Illegal(i)
    <3>1. /\ i \notin last /\ next[i] = Max(LexemeEnds(i))
          /\ piece[i] = <<Span(i, Max(LexemeEnds(i)))>>
      BY <2>5 DEF last, next, piece
    <3>2. f[i] = <<Span(i, Max(LexemeEnds(i)))>> \o f[Max(LexemeEnds(i))]
      BY <2>1, <3>1
    <3> QED BY <2>5, <3>2 DEF Blank
  <2> QED BY <2>2, <2>3, <2>4, <2>5
<1>6. f = [i \in 0 .. n |-> Body(i)]
  <2>1. f = [i \in 0 .. n |-> f[i]]
    BY <1>4 DEF Collects
  <2> HIDE DEF Body
  <2> QED BY <1>5, <2>1
<1>7. IsWalk(f)
  BY <1>6 DEF IsWalk
<1>8. IsWalk(LexemesFrom)
  BY <1>7 DEF LexemesFrom
<1>9. Lexemes = LexemesFrom[0]
  BY DEF Lexemes, LexemesFrom, IsWalk
<1> QED BY <1>8, <1>9

LEMMA WalkFacts ==
    ASSUME text \in Seq(STRING), NEW i \in 0 .. Len(text)
    PROVE  /\ IsList(LexemesFrom[i])
           /\ i = Len(text) => LexemesFrom[i] = <<>>
           /\ i # Len(text) /\ Blank(i) => LexemesFrom[i] = LexemesFrom[i + 1]
           /\ i # Len(text) /\ ~Blank(i) /\ CommentAt(i) => LexemesFrom[i] = LexemesFrom[LineEnd(i)]
           /\ i # Len(text) /\ ~Blank(i) /\ ~CommentAt(i) /\ LexemeEnds(i) = {} =>
                  LexemesFrom[i] = <<Span(i, i)>>
           /\ \A j : i # Len(text) /\ ~Blank(i) /\ ~CommentAt(i) /\ LexemeEnds(i) # {}
                     /\ j = Max(LexemeEnds(i)) =>
                  LexemesFrom[i] = <<Span(i, j)>> \o LexemesFrom[j]
<1> DEFINE f == LexemesFrom
<1>1. f = [k \in 0 .. Len(text) |->
            IF k = Len(text) THEN <<>>
            ELSE IF text[k + 1] \in Blanks \cup {Newline} THEN f[k + 1]
            ELSE IF CommentAt(k) THEN f[LineEnd(k)]
            ELSE IF LexemeEnds(k) = {} THEN <<Span(k, k)>>
            ELSE LET j == Max(LexemeEnds(k)) IN <<Span(k, j)>> \o f[j]]
  BY WalkHolds DEF IsWalk
<1> HIDE DEF f
<1>2. \A k \in 0 .. Len(text) :
         f[k] = IF k = Len(text) THEN <<>>
                ELSE IF Blank(k) THEN f[k + 1]
                ELSE IF CommentAt(k) THEN f[LineEnd(k)]
                ELSE IF LexemeEnds(k) = {} THEN <<Span(k, k)>>
                ELSE LET j == Max(LexemeEnds(k)) IN <<Span(k, j)>> \o f[j]
  BY <1>1 DEF Blank
<1> DEFINE n == Len(text)
           S == {k \in 0 .. n : IsList(f[k])}
<1>3. ASSUME NEW k \in 0 .. n, \A j \in (k + 1) .. n : j \in S
      PROVE  k \in S
  <2>1. n \in Nat /\ \A x : IsList(<<x>>)
    BY ShortLists
  <2>2. CASE k = n
    BY <1>2, <2>2, ShortLists
  <2>3. CASE k # n /\ Blank(k)
    <3>1. k + 1 \in (k + 1) .. n
      BY <2>1, <2>3
    <3>2. IsList(f[k + 1])
      BY <1>3, <3>1
    <3> QED BY <1>2, <2>3, <3>2
  <2>4. CASE k # n /\ ~Blank(k) /\ CommentAt(k)
    <3>1. LineEnd(k) \in (k + 1) .. n
      BY <2>1, <2>4, LineEnds
    <3>2. IsList(f[LineEnd(k)])
      BY <1>3, <3>1
    <3> QED BY <1>2, <2>4, <3>2
  <2>5. CASE k # n /\ ~Blank(k) /\ ~CommentAt(k) /\ LexemeEnds(k) = {}
    BY <1>2, <2>1, <2>5
  <2>6. CASE k # n /\ ~Blank(k) /\ ~CommentAt(k) /\ LexemeEnds(k) # {}
    <3> DEFINE j == Max(LexemeEnds(k))
    <3>1. j \in (k + 1) .. n
      BY <2>6, LastLexemeEnd
    <3>2. IsList(f[j])
      BY <1>3, <3>1
    <3>3. f[k] = <<Span(k, j)>> \o f[j]
      BY <1>2, <2>6
    <3> HIDE DEF j
    <3>4. IsList(f[k])
      BY <2>1, <3>2, <3>3, JoinedFacts
    <3> QED BY <3>4
  <2> QED BY <2>2, <2>3, <2>4, <2>5, <2>6
<1>4. IsList(f[i])
  <2>1. n \in Nat /\ i \in 0 .. n
    OBVIOUS
  <2>2. \A k \in 0 .. n : k \in S
    <3> HIDE DEF n, S
    <3> QED BY <1>3, <2>1, Downward
  <2> HIDE DEF n
  <2> QED BY <2>1, <2>2
<1>5. /\ i = Len(text) => f[i] = <<>>
      /\ i # Len(text) /\ Blank(i) => f[i] = f[i + 1]
      /\ i # Len(text) /\ ~Blank(i) /\ CommentAt(i) => f[i] = f[LineEnd(i)]
      /\ i # Len(text) /\ ~Blank(i) /\ ~CommentAt(i) /\ LexemeEnds(i) = {} => f[i] = <<Span(i, i)>>
  BY <1>2
<1>6. \A j : i # Len(text) /\ ~Blank(i) /\ ~CommentAt(i) /\ LexemeEnds(i) # {}
            /\ j = Max(LexemeEnds(i)) => f[i] = <<Span(i, j)>> \o f[j]
  BY <1>2
<1> QED BY <1>4, <1>5, <1>6 DEF f

(* What a lexeme can be, from its first character.                         *)
LEMMA FixedFacts ==
    /\ \A c \in Punctuation \cup LookAhead : <<c>> \in FixedLexemes
    /\ \A p \in Pairs : <<p.first, p.second>> \in FixedLexemes /\ p.first \in LookAhead
    /\ \A s \in FixedLexemes :
          \/ \E c \in Punctuation \cup LookAhead : s = <<c>>
          \/ \E p \in Pairs : s = <<p.first, p.second>>
<1>1. \A c \in Punctuation \cup LookAhead : <<c>> \in FixedLexemes
  BY DEF FixedLexemes
<1>2. \A p \in Pairs : <<p.first, p.second>> \in FixedLexemes /\ p.first \in LookAhead
  BY DEF FixedLexemes, Pairs, Pair, LookAhead
<1>3. ASSUME NEW s \in {<<"&", "&">>, <<"|", "|">>, <<"=", "=">>, <<"!", "=">>,
                        <<"<", "<">>, <<"<", "=">>, <<">", ">">>, <<">", "=">>}
      PROVE  \E p \in Pairs : s = <<p.first, p.second>>
  <2>1. ASSUME NEW a, NEW b, NEW type, Pair(a, b, type) \in Pairs, s = <<a, b>>
        PROVE  \E p \in Pairs : s = <<p.first, p.second>>
    <3>1. Pair(a, b, type).first = a /\ Pair(a, b, type).second = b
      BY DEF Pair
    <3> QED BY <2>1, <3>1
  <2>2. /\ Pair("&", "&", "&&") \in Pairs /\ Pair("|", "|", "||") \in Pairs
        /\ Pair("=", "=", "==") \in Pairs /\ Pair("!", "=", "!=") \in Pairs
        /\ Pair("<", "<", "<<") \in Pairs /\ Pair("<", "=", "<=") \in Pairs
        /\ Pair(">", ">", ">>") \in Pairs /\ Pair(">", "=", ">=") \in Pairs
    BY DEF Pairs
  <2>3. CASE s = <<"&", "&">>
    BY <2>1, <2>2, <2>3
  <2>4. CASE s = <<"|", "|">>
    BY <2>1, <2>2, <2>4
  <2>5. CASE s = <<"=", "=">>
    BY <2>1, <2>2, <2>5
  <2>6. CASE s = <<"!", "=">>
    BY <2>1, <2>2, <2>6
  <2>7. CASE s = <<"<", "<">>
    BY <2>1, <2>2, <2>7
  <2>8. CASE s = <<"<", "=">>
    BY <2>1, <2>2, <2>8
  <2>9. CASE s = <<">", ">">>
    BY <2>1, <2>2, <2>9
  <2>10. CASE s = <<">", "=">>
    BY <2>1, <2>2, <2>10
  <2> QED BY <1>3, <2>3, <2>4, <2>5, <2>6, <2>7, <2>8, <2>9, <2>10
<1>4. ASSUME NEW s \in FixedLexemes
      PROVE  \/ \E c \in Punctuation \cup LookAhead : s = <<c>>
             \/ \E p \in Pairs : s = <<p.first, p.second>>
  BY <1>3 DEF FixedLexemes
<1> QED BY <1>1, <1>2, <1>4

LEMMA DigitIs ==
    ASSUME NEW c, IsDigit(c) PROVE c \in {"0", "1", "2", "3", "4", "5", "6", "7", "8", "9"}
<1>1. PICK i \in 1 .. 10 : Digits[i] = c
  <2>1. DOMAIN Digits = 1 .. 10
    BY DEF Digits
  <2> QED BY <2>1 DEF IsDigit
<1> QED BY <1>1 DEF Digits

LEMMA NoDigit == \A c \in Punctuation : ~IsDigit(c)
  BY DigitIs DEF Punctuation

LEMMA LexemeStart ==
    ASSUME text \in Seq(STRING), NEW i \in 0 .. Len(text), NEW k \in (i + 1) .. Len(text),
           IsLexeme(Slice(i, k))
    PROVE  /\ IsDigit(Char(i)) => \A m \in i .. (k - 1) : IsDigit(Char(m))
           /\ IsIdentStart(Char(i)) => \A m \in i .. (k - 1) : IsIdentChar(Char(m))
           /\ ~IsDigit(Char(i)) /\ ~IsIdentStart(Char(i)) =>
                  \/ k = i + 1 /\ Char(i) \in Punctuation \cup LookAhead
                  \/ k = i + 2 /\ \E p \in Pairs : p.first = Char(i) /\ p.second = Char(i + 1)
<1> DEFINE s == Slice(i, k)
<1>1. /\ Len(s) = k - i /\ DOMAIN s = 1 .. (k - i)
      /\ \A m \in 1 .. (k - i) : s[m] = Char(i + m - 1)
  <2>1. k \in i .. Len(text)
    OBVIOUS
  <2> QED BY <2>1, SliceFacts
<1>2. 1 \in 1 .. (k - i) /\ s[1] = Char(i)
  BY <1>1
<1>3. \A m \in i .. (k - 1) : m - i + 1 \in 1 .. (k - i) /\ s[m - i + 1] = Char(m)
  BY <1>1
<1> HIDE DEF s
<1>4. CASE s \in FixedLexemes
  <2>1. /\ Char(i) \in Punctuation \cup LookAhead
        /\ \/ k = i + 1
           \/ k = i + 2 /\ \E p \in Pairs : p.first = Char(i) /\ p.second = Char(i + 1)
    <3>1. CASE \E c \in Punctuation \cup LookAhead : s = <<c>>
      BY <1>1, <1>2, <3>1
    <3>2. CASE \E p \in Pairs : s = <<p.first, p.second>>
      <4>1. PICK p \in Pairs : s = <<p.first, p.second>>
        BY <3>2
      <4>2. Len(s) = 2 /\ s[1] = p.first /\ s[2] = p.second
        BY <4>1
      <4>3. k = i + 2
        <5>1. k - i = 2
          BY <1>1, <4>2
        <5>2. k \in Int /\ i \in Int
          OBVIOUS
        <5> HIDE DEF s
        <5> QED BY <5>1, <5>2
      <4>4. 2 \in 1 .. (k - i) /\ s[2] = Char(i + 1)
        BY <1>1, <4>3
      <4> QED BY <1>2, <4>1, <4>2, <4>3, <4>4, FixedFacts
    <3> QED BY <1>4, <3>1, <3>2, FixedFacts
  <2>2. ~IsDigit(Char(i)) /\ ~IsIdentStart(Char(i))
    BY <2>1, NoDigit, ClassesApart, LexerAssumption DEF IsIdentStart
  <2> QED BY <2>1, <2>2
<1>5. CASE Drawn(s, IsDigit)
  <2>1. \A m \in 1 .. (k - i) : IsDigit(s[m])
    BY <1>1, <1>5 DEF Drawn
  <2>2. \A m \in i .. (k - 1) : IsDigit(Char(m))
    BY <1>3, <2>1
  <2>3. IsDigit(Char(i)) /\ ~IsIdentStart(Char(i))
    BY <1>2, <2>1, LexerAssumption DEF IsIdentStart
  <2> QED BY <2>2, <2>3
<1>6. CASE Drawn(s, IsIdentChar) /\ ~IsDigit(s[1])
  <2>1. \A m \in 1 .. (k - i) : IsIdentChar(s[m])
    BY <1>1, <1>6 DEF Drawn
  <2>2. \A m \in i .. (k - 1) : IsIdentChar(Char(m))
    BY <1>3, <2>1
  <2>3. ~IsDigit(Char(i)) /\ IsIdentStart(Char(i))
    BY <1>2, <1>6, <2>1 DEF IsIdentChar, IsIdentStart
  <2> QED BY <2>2, <2>3
<1> QED BY <1>4, <1>5, <1>6 DEF IsLexeme, s

(* The longest lexeme that begins behind a character.                      *)
LEMMA LongestFrom ==
    ASSUME text \in Seq(STRING), NEW i \in 0 .. Len(text), i # Len(text), ~Blank(i), ~CommentAt(i),
           NEW j \in (i + 1) .. Len(text), IsLexeme(Slice(i, j)),
           \A k \in (j + 1) .. Len(text) : ~IsLexeme(Slice(i, k))
    PROVE  LexemesFrom[i] = <<Span(i, j)>> \o LexemesFrom[j]
<1>1. j \in LexemeEnds(i)
  BY DEF LexemeEnds
<1>2. Max(LexemeEnds(i)) \in LexemeEnds(i) /\ Max(LexemeEnds(i)) \in (i + 1) .. Len(text)
  BY <1>1, LastLexemeEnd
<1>3. LexemeEnds(i) \in SUBSET (1 .. Len(text)) /\ Len(text) \in Nat
  BY DEF LexemeEnds
<1>4. j <= Max(LexemeEnds(i))
  BY <1>1, <1>3, LastOf
<1>5. Max(LexemeEnds(i)) \notin (j + 1) .. Len(text)
  BY <1>2 DEF LexemeEnds
<1>6. Max(LexemeEnds(i)) = j
  BY <1>2, <1>3, <1>4, <1>5
<1> QED BY <1>1, <1>6, WalkFacts

-----------------------------------------------------------------------------
(* A turn reads a lexeme, skips what is none, or stops.                    *)

Reading(t) ==
    /\ tokens' = Append(tokens, t)
    /\ t.from = curr /\ t.to \in (curr + 1) .. Len(text)
    /\ SpellsType(t.type, Slice(curr, t.to))
    /\ LexemesFrom[curr] = <<Span(curr, t.to)>> \o LexemesFrom[t.to]
    /\ \/ curr' = t.to /\ ~Stuck
       \/ curr' = curr /\ Stuck /\ t.to = Len(text)

TextFacts ==
    /\ text \in Seq(STRING) /\ Len(text) \in Nat /\ curr \in 0 .. Len(text) /\ curr \in Nat
    /\ \A k \in 0 .. Len(text) : Char(k) = NUL <=> k = Len(text)
    /\ \A k \in 0 .. (Len(text) - 1) : Char(k) = text[k + 1]

LEMMA TextIs ==
    ASSUME Inv, IsText PROVE TextFacts
  BY Before DEF TextFacts, Inv, IsText, Char

(* At a character that is not blank, and begins no comment.                *)
LEMMA AtLexeme ==
    ASSUME TextFacts, Char(curr) # NUL, Char(curr) \notin Blanks \cup {Newline},
           Char(curr) # "/" \/ Char(curr + 1) # "/"
    PROVE  curr # Len(text) /\ curr + 1 \in (curr + 1) .. Len(text) /\ ~Blank(curr) /\ ~CommentAt(curr)
<1>1. curr < Len(text) /\ Char(curr) = text[curr + 1]
  BY DEF TextFacts
<1>2. CommentAt(curr) => Char(curr + 1) = text[curr + 2]
  BY DEF TextFacts, CommentAt, Char
<1> QED BY <1>1, <1>2 DEF TextFacts, Blank, CommentAt

(* The types that are spellings are no classes.                            *)
LEMMA TypesApart ==
    /\ \A c \in Punctuation \cup LookAhead : c \notin {"NUM", "TYPE", "IDENT"} \cup Keywords
    /\ \A p \in Pairs : p.type \notin {"NUM", "TYPE", "IDENT"} \cup Keywords /\ p.type # p.first
    /\ \A kw \in Keywords : kw \notin {"NUM", "TYPE", "IDENT"}
<1>1. \A c \in Punctuation : c \notin {"NUM", "TYPE", "IDENT"} \cup Keywords
  BY DEF Punctuation, Keywords
<1>2. \A c \in LookAhead : c \notin {"NUM", "TYPE", "IDENT"} \cup Keywords
  BY DEF LookAhead, Keywords
<1>3. \A p \in Pairs : p.type \notin {"NUM", "TYPE", "IDENT"} \cup Keywords /\ p.type # p.first
  BY DEF Pairs, Pair, Keywords
<1>4. \A kw \in Keywords : kw \notin {"NUM", "TYPE", "IDENT"}
  BY DEF Keywords
<1> QED BY <1>1, <1>2, <1>3, <1>4

(* The type of a lexeme, class by class.                                   *)
LEMMA SpellsClass ==
    ASSUME NEW type, NEW lexeme
    PROVE  /\ type = "NUM" /\ (\A i \in DOMAIN lexeme : IsDigit(lexeme[i])) => SpellsType(type, lexeme)
           /\ type = "TYPE" /\ lexeme \in {SpelledInt, SpelledVoid} => SpellsType(type, lexeme)
           /\ type = "IDENT" /\ IsIdentStart(lexeme[1])
              /\ lexeme \notin {Spelled(kw) : kw \in Keywords} \cup {SpelledInt, SpelledVoid}
              => SpellsType(type, lexeme)
           /\ type \in Keywords /\ lexeme = Spelled(type) => SpellsType(type, lexeme)
           /\ /\ type \notin {"NUM", "TYPE", "IDENT"} \cup Keywords
              /\ lexeme \in FixedLexemes
              /\ (Len(lexeme) = 1) <=> (type = lexeme[1])
              /\ Len(lexeme) = 2 => \E p \in Pairs : p.type = type /\ lexeme = <<p.first, p.second>>
              => SpellsType(type, lexeme)
<1>1. type \in Keywords => type \notin {"NUM", "TYPE", "IDENT"}
  BY TypesApart
<1> QED BY <1>1 DEF SpellsType, Drawn

(* A lexeme of a fixed spelling has that spelling for its type.            *)
LEMMA SpellsFixed ==
    /\ \A c \in Punctuation \cup LookAhead : SpellsType(c, <<c>>)
    /\ \A p \in Pairs : SpellsType(p.type, <<p.first, p.second>>)
<1>1. ASSUME NEW c \in Punctuation \cup LookAhead PROVE SpellsType(c, <<c>>)
  <2> DEFINE s == <<c>>
  <2>1. s \in FixedLexemes /\ Len(s) = 1 /\ s[1] = c
    BY FixedFacts
  <2>2. c # "NUM" /\ c # "TYPE" /\ c # "IDENT" /\ c \notin Keywords
    BY TypesApart
  <2> HIDE DEF s
  <2>3. SpellsType(c, s)
    BY <2>1, <2>2, SpellsClass
  <2> QED BY <2>3 DEF s
<1>2. ASSUME NEW p \in Pairs PROVE SpellsType(p.type, <<p.first, p.second>>)
  <2> DEFINE s == <<p.first, p.second>>
  <2>1. s \in FixedLexemes /\ Len(s) = 2 /\ s[1] = p.first
    BY FixedFacts
  <2>2. p.type # "NUM" /\ p.type # "TYPE" /\ p.type # "IDENT" /\ p.type \notin Keywords /\ p.type # p.first
    BY TypesApart
  <2>3. \E q \in Pairs : q.type = p.type /\ s = <<q.first, q.second>>
    OBVIOUS
  <2> HIDE DEF s
  <2>4. SpellsType(p.type, s)
    BY <2>1, <2>2, <2>3, SpellsClass
  <2> QED BY <2>4 DEF s
<1> QED BY <1>1, <1>2

LEMMA ShortSlices ==
    ASSUME text \in Seq(STRING), NEW i \in 0 .. Len(text)
    PROVE  /\ i + 1 <= Len(text) => Slice(i, i + 1) = <<Char(i)>>
           /\ i + 2 <= Len(text) => Slice(i, i + 2) = <<Char(i), Char(i + 1)>>
<1>1. ASSUME i + 1 <= Len(text) PROVE Slice(i, i + 1) = <<Char(i)>>
  <2> DEFINE s == Slice(i, i + 1)
  <2>1. PICK j \in i .. Len(text) : j = i + 1
    BY <1>1
  <2>2. /\ Slice(i, j) \in Seq(STRING) /\ Len(Slice(i, j)) = j - i
        /\ \A k \in 1 .. (j - i) : Slice(i, j)[k] = Char(i + k - 1)
    BY SliceFacts
  <2>3. j - i = 1 /\ i + 1 - 1 = i
    BY <2>1
  <2>4. s \in Seq(STRING) /\ Len(s) = 1 /\ s[1] = Char(i)
    BY <2>1, <2>2, <2>3
  <2> HIDE DEF s
  <2> QED BY <2>4 DEF s
<1>2. ASSUME i + 2 <= Len(text) PROVE Slice(i, i + 2) = <<Char(i), Char(i + 1)>>
  <2> DEFINE s == Slice(i, i + 2)
  <2>1. PICK j \in i .. Len(text) : j = i + 2
    BY <1>2
  <2>2. /\ Slice(i, j) \in Seq(STRING) /\ Len(Slice(i, j)) = j - i
        /\ \A k \in 1 .. (j - i) : Slice(i, j)[k] = Char(i + k - 1)
    BY SliceFacts
  <2>3. j - i = 2 /\ i + 1 - 1 = i /\ i + 2 - 1 = i + 1
    BY <2>1
  <2>4. s \in Seq(STRING) /\ Len(s) = 2 /\ s[1] = Char(i) /\ s[2] = Char(i + 1)
    BY <2>1, <2>2, <2>3
  <2> HIDE DEF s
  <2> QED BY <2>4 DEF s
<1> QED BY <1>1, <1>2

(* The four turns that read a lexeme.                                      *)
LEMMA ReadsPunctuation ==
    ASSUME Inv, IsText, LexPunctuation PROVE \E t : Reading(t)
<1>1. PICK c \in Punctuation : /\ Reads(c)
                               /\ Push(c, Fixed, 0, curr + 1)
                               /\ curr' = curr + 1
  BY DEF LexPunctuation
<1>2. TextFacts
  BY TextIs
<1>3. Char(curr) = c /\ c # NUL /\ c \notin Blanks \cup {Newline} /\ c # "/" /\ c \notin LookAhead
      /\ ~IsDigit(c) /\ ~IsIdentStart(c)
  <2>1. c \notin Blanks \cup {Newline} /\ c # "/"
    BY DEF Punctuation, Blanks, Newline
  <2>2. c \notin LookAhead
    BY ClassesApart
  <2>3. ~IsIdentStart(c)
    BY LexerAssumption DEF IsIdentStart
  <2> QED BY <1>1, <2>1, <2>2, <2>3, NoDigit DEF Reads
<1>4. curr # Len(text) /\ curr + 1 \in (curr + 1) .. Len(text) /\ ~Blank(curr) /\ ~CommentAt(curr)
  BY <1>2, <1>3, AtLexeme
<1>5. text \in Seq(STRING) /\ curr \in 0 .. Len(text)
  BY <1>2 DEF TextFacts
<1>6. Slice(curr, curr + 1) = <<c>>
  BY <1>3, <1>4, <1>5, ShortSlices
<1>7. \A k \in (curr + 1 + 1) .. Len(text) : ~IsLexeme(Slice(curr, k))
  <2> SUFFICES ASSUME NEW k \in (curr + 1 + 1) .. Len(text), IsLexeme(Slice(curr, k)) PROVE FALSE
    OBVIOUS
  <2>1. k \in (curr + 1) .. Len(text) /\ k # curr + 1
    BY <1>5
  <2>2. \E p \in Pairs : p.first = Char(curr)
    BY <1>3, <1>5, <2>1, LexemeStart
  <2> QED BY <1>3, <2>2, FixedFacts
<1>8. IsLexeme(<<c>>)
  BY FixedFacts DEF IsLexeme
<1>9. LexemesFrom[curr] = <<Span(curr, curr + 1)>> \o LexemesFrom[curr + 1]
  BY <1>4, <1>5, <1>6, <1>7, <1>8, LongestFrom
<1> DEFINE t == Token(c, Fixed, 0, line, pos, curr + 1)
<1>10. tokens' = Append(tokens, t)
  BY <1>1 DEF Push
<1>11. t.from = curr /\ t.to = curr + 1 /\ t.type = c
  BY DEF Token
<1> HIDE DEF t
<1>12. SpellsType(t.type, Slice(curr, t.to))
  BY <1>6, <1>11, SpellsFixed
<1>13. ~Stuck
  BY <1>3 DEF Stuck
<1> QED BY <1>1, <1>4, <1>9, <1>10, <1>11, <1>12, <1>13 DEF Reading

LEMMA ReadsPair ==
    ASSUME Inv, IsText, LexPair PROVE \E t : Reading(t)
<1>1. PICK p \in Pairs : /\ Reads(p.first)
                         /\ Char(curr + 1) = p.second
                         /\ Push(p.type, Fixed, 0, curr + 2)
                         /\ curr' = curr + 2
  BY DEF LexPair
<1>2. TextFacts
  BY TextIs
<1>3. Char(curr) = p.first /\ p.first # NUL /\ p.first \notin Blanks \cup {Newline} /\ p.first # "/"
      /\ ~IsDigit(p.first) /\ ~IsIdentStart(p.first) /\ p.second # NUL
  <2>1. p.first # "/"
    BY DEF Pairs, Pair
  <2>2. p.first \in LookAhead
    BY FixedFacts
  <2> QED BY <1>1, <2>1, <2>2, ClassesApart DEF Reads
<1>4. curr # Len(text) /\ curr + 1 \in (curr + 1) .. Len(text) /\ ~Blank(curr) /\ ~CommentAt(curr)
  BY <1>2, <1>3, AtLexeme
<1>5. text \in Seq(STRING) /\ curr \in 0 .. Len(text) /\ curr + 2 \in (curr + 1) .. Len(text)
      /\ curr + 2 <= Len(text)
  BY <1>1, <1>2, <1>3, <1>4 DEF TextFacts
<1>6. Slice(curr, curr + 2) = <<p.first, p.second>>
  BY <1>1, <1>3, <1>5, ShortSlices
<1>7. \A k \in (curr + 2 + 1) .. Len(text) : ~IsLexeme(Slice(curr, k))
  <2> SUFFICES ASSUME NEW k \in (curr + 2 + 1) .. Len(text), IsLexeme(Slice(curr, k)) PROVE FALSE
    OBVIOUS
  <2>1. k \in (curr + 1) .. Len(text) /\ k # curr + 1 /\ k # curr + 2
    BY <1>5
  <2> QED BY <1>3, <1>5, <2>1, LexemeStart
<1>8. IsLexeme(<<p.first, p.second>>)
  BY FixedFacts DEF IsLexeme
<1>9. LexemesFrom[curr] = <<Span(curr, curr + 2)>> \o LexemesFrom[curr + 2]
  BY <1>4, <1>5, <1>6, <1>7, <1>8, LongestFrom
<1> DEFINE t == Token(p.type, Fixed, 0, line, pos, curr + 2)
<1>10. tokens' = Append(tokens, t)
  BY <1>1 DEF Push
<1>11. t.from = curr /\ t.to = curr + 2 /\ t.type = p.type
  BY DEF Token
<1> HIDE DEF t
<1>12. SpellsType(t.type, Slice(curr, t.to))
  BY <1>6, <1>11, SpellsFixed
<1>13. ~Stuck
  BY <1>1, <1>3, Before
<1> QED BY <1>1, <1>5, <1>9, <1>10, <1>11, <1>12, <1>13 DEF Reading

(* A character that begins no pair here is a lexeme.                       *)
LEMMA ShortLexeme ==
    ASSUME TextFacts, Char(curr) \in LookAhead,
           ~\E p \in Pairs : p.first = Char(curr) /\ p.second = Char(curr + 1),
           Char(curr) # "/" \/ Char(curr + 1) # "/"
    PROVE  /\ curr + 1 \in (curr + 1) .. Len(text)
           /\ Slice(curr, curr + 1) = <<Char(curr)>>
           /\ LexemesFrom[curr] = <<Span(curr, curr + 1)>> \o LexemesFrom[curr + 1]
<1>1. Char(curr) # NUL /\ Char(curr) \notin Blanks \cup {Newline}
      /\ ~IsDigit(Char(curr)) /\ ~IsIdentStart(Char(curr))
  BY ClassesApart
<1>2. curr # Len(text) /\ curr + 1 \in (curr + 1) .. Len(text) /\ ~Blank(curr) /\ ~CommentAt(curr)
  BY <1>1, AtLexeme
<1>3. text \in Seq(STRING) /\ curr \in 0 .. Len(text)
  BY DEF TextFacts
<1>4. Slice(curr, curr + 1) = <<Char(curr)>>
  BY <1>2, <1>3, ShortSlices
<1>5. \A k \in (curr + 1 + 1) .. Len(text) : ~IsLexeme(Slice(curr, k))
  <2> SUFFICES ASSUME NEW k \in (curr + 1 + 1) .. Len(text), IsLexeme(Slice(curr, k)) PROVE FALSE
    OBVIOUS
  <2>1. k \in (curr + 1) .. Len(text) /\ k # curr + 1
    BY <1>3
  <2> QED BY <1>1, <1>3, <2>1, LexemeStart
<1>6. IsLexeme(<<Char(curr)>>)
  BY FixedFacts DEF IsLexeme
<1>7. LexemesFrom[curr] = <<Span(curr, curr + 1)>> \o LexemesFrom[curr + 1]
  BY <1>2, <1>3, <1>4, <1>5, <1>6, LongestFrom
<1> QED BY <1>2, <1>4, <1>7

LEMMA ReadsShort ==
    ASSUME Inv, IsText, LexShort PROVE \E t : Reading(t)
<1>1. PICK c \in LookAhead : /\ Reads(c)
                             /\ ~\E p \in Pairs : p.first = c /\ p.second = Char(curr + 1)
                             /\ ~(c = "/" /\ Char(curr + 1) = "/")
                             /\ Push(c, Fixed, 0, curr + 1)
                             /\ curr' = Peeked(curr + 1)
  BY DEF LexShort
<1>2. TextFacts
  BY TextIs
<1>3. Char(curr) = c
  BY <1>1 DEF Reads
<1>4. /\ curr + 1 \in (curr + 1) .. Len(text)
      /\ Slice(curr, curr + 1) = <<c>>
      /\ LexemesFrom[curr] = <<Span(curr, curr + 1)>> \o LexemesFrom[curr + 1]
  BY <1>1, <1>2, <1>3, ShortLexeme
<1> DEFINE t == Token(c, Fixed, 0, line, pos, curr + 1)
<1>5. tokens' = Append(tokens, t)
  BY <1>1 DEF Push
<1>6. t.from = curr /\ t.to = curr + 1 /\ t.type = c
  BY DEF Token
<1> HIDE DEF t
<1>7. SpellsType(t.type, Slice(curr, t.to))
  BY <1>4, <1>6, SpellsFixed
<1>8. (curr' = curr + 1 /\ ~Stuck) \/ (curr' = curr /\ Stuck /\ curr + 1 = Len(text))
  <2>1. curr \in Nat /\ Len(text) \in Nat /\ curr + 1 <= Len(text)
    BY <1>2, <1>4 DEF TextFacts
  <2> QED BY <1>1, <1>3, <2>1 DEF Peeked, After, Stuck
<1> QED BY <1>4, <1>5, <1>6, <1>7, <1>8 DEF Reading

LEMMA ReadsNumber ==
    ASSUME Inv, IsText, LexNumber PROVE \E t : Reading(t)
<1> DEFINE end == RunEnd(curr, IsDigit)
           t   == Token("NUM", Fixed, Printed(Sum(Slice(curr, end)), end - curr), line, pos, end)
           s   == Slice(curr, end)
<1>1. /\ Reads(Char(curr)) /\ IsDigit(Char(curr))
      /\ tokens' = Append(tokens, t)
      /\ curr' = AfterRun(end)
  BY DEF LexNumber, Push
<1>2. TextFacts
  BY TextIs
<1>3. text \in Seq(STRING) /\ curr \in 0 .. Len(text)
  BY <1>2 DEF TextFacts
<1>4. EndsRun(curr, end, IsDigit)
  BY <1>3, DigitRunEnds
<1>5. t.from = curr /\ t.to = end /\ t.type = "NUM"
  BY DEF Token
<1> HIDE DEF t, end
<1>6. /\ end \in curr .. Len(text) /\ ~IsDigit(Char(end))
      /\ \A k \in curr .. (end - 1) : IsDigit(Char(k))
  BY <1>4 DEF EndsRun
<1>7. end \in (curr + 1) .. Len(text)
  BY <1>1, <1>3, <1>6
<1>8. Char(curr) # NUL /\ Char(curr) \notin Blanks \cup {Newline} /\ Char(curr) # "/"
  BY <1>1, DigitIs DEF NUL, Blanks, Newline
<1>9. curr # Len(text) /\ ~Blank(curr) /\ ~CommentAt(curr)
  BY <1>2, <1>8, AtLexeme
<1>10. /\ Len(s) = end - curr /\ DOMAIN s = 1 .. (end - curr)
       /\ \A k \in 1 .. (end - curr) : s[k] = Char(curr + k - 1)
  BY <1>3, <1>6, SliceFacts
<1>11. \A k \in 1 .. (end - curr) : curr + k - 1 \in curr .. (end - 1)
  BY <1>3, <1>7
<1>12. s # <<>> /\ Drawn(s, IsDigit)
  <2>1. Drawn(s, IsDigit)
    BY <1>6, <1>10, <1>11 DEF Drawn
  <2>2. Len(s) # 0
    BY <1>3, <1>7, <1>10
  <2> QED BY <2>1, <2>2
<1>13. IsLexeme(s)
  BY <1>12 DEF IsLexeme
<1>14. \A k \in (end + 1) .. Len(text) : ~IsLexeme(Slice(curr, k))
  <2> SUFFICES ASSUME NEW k \in (end + 1) .. Len(text), IsLexeme(Slice(curr, k)) PROVE FALSE
    OBVIOUS
  <2>1. k \in (curr + 1) .. Len(text) /\ end \in curr .. (k - 1)
    BY <1>3, <1>7
  <2> QED BY <1>1, <1>3, <1>6, <2>1, LexemeStart
<1>15. LexemesFrom[curr] = <<Span(curr, end)>> \o LexemesFrom[end]
  BY <1>3, <1>7, <1>9, <1>13, <1>14, LongestFrom
<1>16. SpellsType("NUM", s)
  BY <1>12, SpellsClass DEF Drawn
<1>17. curr' = end
  BY <1>1, <1>2, <1>6 DEF AfterRun, After, TextFacts
<1>18. ~Stuck
  BY <1>1, ClassesApart DEF Stuck
<1> QED BY <1>1, <1>5, <1>7, <1>15, <1>16, <1>17, <1>18 DEF Reading

LEMMA ReadsWord ==
    ASSUME Inv, IsText, LexWord PROVE \E t : Reading(t)
<1> DEFINE end  == RunEnd(curr, IsIdentChar)
           word == Slice(curr, end)
           t    == Token(WordType(word), IF WordType(word) \in Keywords THEN Fixed ELSE word, 0,
                         line, pos, end)
<1>1. /\ Reads(Char(curr)) /\ IsIdentStart(Char(curr))
      /\ tokens' = Append(tokens, t)
      /\ curr' = AfterRun(end)
  BY DEF LexWord, Push
<1>2. TextFacts
  BY TextIs
<1>3. text \in Seq(STRING) /\ curr \in 0 .. Len(text)
  BY <1>2 DEF TextFacts
<1>4. EndsRun(curr, end, IsIdentChar)
  BY <1>3, WordRunEnds
<1>5. t.from = curr /\ t.to = end /\ t.type = WordType(word)
  BY DEF Token
<1> HIDE DEF t, end
<1>6. /\ end \in curr .. Len(text) /\ ~IsIdentChar(Char(end))
      /\ \A k \in curr .. (end - 1) : IsIdentChar(Char(k))
  BY <1>4 DEF EndsRun
<1>7. end \in (curr + 1) .. Len(text)
  BY <1>1, <1>3, <1>6 DEF IsIdentChar, IsIdentStart
<1>8. Char(curr) # NUL /\ Char(curr) \notin Blanks \cup {Newline} /\ Char(curr) # "/"
      /\ ~IsDigit(Char(curr))
  <2>1. Char(curr) \in Letters /\ "/" \in LookAhead
    BY <1>1 DEF IsIdentStart, LookAhead
  <2> QED BY <2>1, LexerAssumption
<1>9. curr # Len(text) /\ ~Blank(curr) /\ ~CommentAt(curr)
  BY <1>2, <1>8, AtLexeme
<1>10. /\ Len(word) = end - curr /\ DOMAIN word = 1 .. (end - curr)
       /\ \A k \in 1 .. (end - curr) : word[k] = Char(curr + k - 1)
  BY <1>3, <1>6, SliceFacts
<1>11. \A k \in 1 .. (end - curr) : curr + k - 1 \in curr .. (end - 1)
  BY <1>3, <1>7
<1>12. word # <<>> /\ Drawn(word, IsIdentChar) /\ word[1] = Char(curr)
  <2>1. Drawn(word, IsIdentChar)
    BY <1>6, <1>10, <1>11 DEF Drawn
  <2>2. Len(word) # 0 /\ 1 \in 1 .. (end - curr) /\ curr + 1 - 1 = curr
    BY <1>3, <1>7, <1>10
  <2>3. word[1] = Char(curr)
    BY <1>10, <2>2
  <2> QED BY <2>1, <2>2, <2>3
<1>13. IsLexeme(word)
  BY <1>8, <1>12 DEF IsLexeme
<1>14. \A k \in (end + 1) .. Len(text) : ~IsLexeme(Slice(curr, k))
  <2> SUFFICES ASSUME NEW k \in (end + 1) .. Len(text), IsLexeme(Slice(curr, k)) PROVE FALSE
    OBVIOUS
  <2>1. k \in (curr + 1) .. Len(text) /\ end \in curr .. (k - 1)
    BY <1>3, <1>7
  <2> QED BY <1>1, <1>3, <1>6, <2>1, LexemeStart
<1>15. LexemesFrom[curr] = <<Span(curr, end)>> \o LexemesFrom[end]
  BY <1>3, <1>7, <1>9, <1>13, <1>14, LongestFrom
<1>16. SpellsType(WordType(word), word)
  <2> HIDE DEF word
  <2>1. IsIdentStart(word[1])
    BY <1>1, <1>12
  <2>2. CASE word \in {SpelledInt, SpelledVoid}
    <3>1. WordType(word) = "TYPE"
      BY <2>2 DEF WordType
    <3> QED BY <2>2, <3>1, SpellsClass
  <2>3. CASE word \notin {SpelledInt, SpelledVoid} /\ \E kw \in Keywords : word = Spelled(kw)
    <3>1. WordType(word) \in Keywords /\ word = Spelled(WordType(word))
      BY <2>3 DEF WordType
    <3> HIDE DEF word
    <3> QED BY <3>1, SpellsClass
  <2>4. CASE word \notin {SpelledInt, SpelledVoid} /\ ~\E kw \in Keywords : word = Spelled(kw)
    <3>1. WordType(word) = "IDENT"
      BY <2>4 DEF WordType
    <3>2. word \notin {Spelled(kw) : kw \in Keywords}
      BY <2>4
    <3> QED BY <2>1, <2>4, <3>1, <3>2, SpellsClass
  <2> QED BY <2>2, <2>3, <2>4
<1>17. curr' = end
  BY <1>1, <1>2, <1>6 DEF AfterRun, After, TextFacts
<1>18. ~Stuck
  BY <1>1, ClassesApart DEF Stuck
<1> QED BY <1>1, <1>5, <1>7, <1>15, <1>16, <1>17, <1>18 DEF Reading

(* The turns that read what is no lexeme.                                  *)
Skipping ==
    /\ tokens' = tokens /\ curr # Len(text) /\ curr' \in 0 .. Len(text) /\ ~Stuck
    /\ LexemesFrom[curr] = LexemesFrom[curr']

LEMMA SkipsBlank ==
    ASSUME Inv, IsText, LexBlank \/ LexNewline PROVE Skipping
<1>1. /\ Char(curr) \in Blanks \cup {Newline} /\ Char(curr) # NUL
      /\ tokens' = tokens /\ curr' = curr + 1
  BY DEF LexBlank, LexNewline, Reads
<1>2. TextFacts
  BY TextIs
<1>3. curr # Len(text) /\ curr + 1 \in 0 .. Len(text) /\ Blank(curr)
  BY <1>1, <1>2 DEF TextFacts, Blank
<1>4. ~Stuck
  BY <1>1, ClassesApart DEF Stuck
<1>5. LexemesFrom[curr] = LexemesFrom[curr + 1]
  BY <1>2, <1>3, WalkFacts DEF TextFacts
<1> QED BY <1>1, <1>3, <1>4, <1>5 DEF Skipping

LEMMA SkipsComment ==
    ASSUME Inv, IsText, LexComment
    PROVE  Skipping \/ (OpenComment /\ curr' = Len(text) /\ \E t : tokens' = Append(tokens, t))
<1> DEFINE end == RunEnd(curr + 2, LAMBDA c : c # NUL /\ c # Newline)
<1>1. /\ Reads("/") /\ Char(curr + 1) = "/"
      /\ curr' = After(end)
      /\ \/ Char(end) = NUL /\ \E t : tokens' = Append(tokens, t)
         \/ Char(end) # NUL /\ tokens' = tokens
  BY Zenon DEF LexComment
<1>2. TextFacts
  BY TextIs
<1>3. Char(curr + 1) # NUL /\ Char(curr) = "/" /\ Char(curr) # NUL
  BY <1>1 DEF NUL, Reads
<1>4. text \in Seq(STRING) /\ curr \in 0 .. Len(text) /\ curr + 2 \in 0 .. Len(text) /\ curr + 1 < Len(text)
  BY <1>2, <1>3 DEF TextFacts, Char
<1>5. CommentAt(curr) /\ curr # Len(text) /\ ~Blank(curr)
  <2>1. Char(curr) = text[curr + 1] /\ Char(curr + 1) = text[curr + 2]
    BY <1>4 DEF Char
  <2>2. text[curr + 1] = "/" /\ text[curr + 2] = "/" /\ "/" \notin Blanks \cup {Newline}
    BY <1>1, <1>3, <2>1 DEF Blanks, Newline
  <2> QED BY <1>4, <2>2 DEF CommentAt, Blank
<1>6. end = RunEnd(curr + 2, InComment)
  BY Zenon DEF InComment, RunEnd
<1> HIDE DEF end
<1>7. EndsRun(curr + 2, end, InComment)
  BY <1>4, <1>6, CommentRunEnds
<1>8. /\ end \in (curr + 2) .. Len(text)
      /\ \A k \in (curr + 2) .. (end - 1) : Char(k) # Newline
      /\ Char(end) = NUL \/ Char(end) = Newline
  BY <1>7 DEF EndsRun, InComment
<1>9. PICK e \in Nat : e = LineEnd(curr)
  BY <1>4, <1>5, LineEnds
<1>10. /\ e \in (curr + 2) .. Len(text)
       /\ e < Len(text) => text[e + 1] = Newline
       /\ \A k \in curr .. (e - 1) : text[k + 1] # Newline
  BY <1>4, <1>5, <1>9, LineEnds
<1>11. LexemesFrom[curr] = LexemesFrom[e]
  BY <1>4, <1>5, <1>9, WalkFacts
<1>12. e = end
  <2>1. ~(e < end)
    <3> SUFFICES ASSUME e < end PROVE FALSE
      OBVIOUS
    <3>1. e \in (curr + 2) .. (end - 1) /\ e < Len(text) /\ e \in 0 .. (Len(text) - 1)
      BY <1>4, <1>8, <1>10
    <3>2. Char(e) = Newline
      BY <1>2, <1>10, <3>1 DEF TextFacts
    <3> QED BY <1>8, <3>1, <3>2
  <2>2. ~(end < e)
    <3> SUFFICES ASSUME end < e PROVE FALSE
      OBVIOUS
    <3>1. end \in curr .. (e - 1) /\ end < Len(text) /\ end \in 0 .. (Len(text) - 1)
      BY <1>4, <1>8, <1>10
    <3>2. Char(end) # NUL /\ Char(end) = text[end + 1]
      BY <1>2, <3>1 DEF TextFacts
    <3> QED BY <1>8, <1>10, <3>1, <3>2
  <2> QED BY <1>8, <1>10, <2>1, <2>2
<1>13. CASE Char(end) = NUL
  <2>1. end = Len(text)
    BY <1>2, <1>4, <1>8, <1>13 DEF TextFacts
  <2>2. curr' = Len(text)
    BY <1>1, <2>1 DEF After
  <2>3. OpenComment
    BY <1>4, <1>5, <1>9, <1>12, <2>1 DEF OpenComment
  <2> QED BY <1>1, <1>13, <2>2, <2>3
<1>14. CASE Char(end) # NUL
  <2>1. end < Len(text) /\ end \in 0 .. Len(text)
    BY <1>2, <1>4, <1>8, <1>14 DEF TextFacts
  <2>2. curr' = end + 1 /\ end + 1 \in 0 .. Len(text)
    BY <1>1, <1>2, <2>1 DEF After, TextFacts
  <2>3. Blank(end)
    BY <1>10, <1>12, <2>1 DEF Blank
  <2>4. LexemesFrom[end] = LexemesFrom[end + 1]
    BY <1>4, <2>1, <2>3, WalkFacts
  <2>5. ~Stuck
    BY <1>3, Before
  <2> QED BY <1>1, <1>5, <1>11, <1>12, <1>14, <2>2, <2>4, <2>5 DEF Skipping
<1> QED BY <1>13, <1>14

(* A character the scanner does not know begins no lexeme.                 *)
LEMMA RejectsUnknown ==
    ASSUME Inv, IsText, LexUnexpected
    PROVE  /\ tokens' = tokens /\ curr' = curr + 1 /\ status' = "exit1"
           /\ ~Stuck /\ curr # Len(text) /\ LexemesFrom[curr] = <<Span(curr, curr)>>
<1>1. /\ Char(curr) # NUL
      /\ Char(curr) \notin Punctuation \cup LookAhead \cup Blanks \cup {Newline}
      /\ ~IsDigit(Char(curr)) /\ ~IsIdentStart(Char(curr))
      /\ tokens' = tokens /\ curr' = curr + 1 /\ status' = "exit1"
  BY DEF LexUnexpected, Reads
<1>2. TextFacts
  BY TextIs
<1>3. curr # Len(text) /\ ~Blank(curr) /\ ~CommentAt(curr)
  <2>1. Char(curr) # "/"
    BY <1>1 DEF LookAhead
  <2> QED BY <1>1, <1>2, <2>1, AtLexeme
<1>4. text \in Seq(STRING) /\ curr \in 0 .. Len(text)
  BY <1>2 DEF TextFacts
<1>5. LexemeEnds(curr) = {}
  <2> SUFFICES ASSUME NEW k \in (curr + 1) .. Len(text), IsLexeme(Slice(curr, k)) PROVE FALSE
    BY DEF LexemeEnds
  <2>1. Char(curr) \in Punctuation \cup LookAhead \/ \E p \in Pairs : p.first = Char(curr)
    BY <1>1, <1>4, LexemeStart
  <2> QED BY <1>1, <2>1, FixedFacts
<1>6. LexemesFrom[curr] = <<Span(curr, curr)>>
  BY <1>3, <1>4, <1>5, WalkFacts
<1>7. ~Stuck
  BY <1>1 DEF Stuck
<1> QED BY <1>1, <1>3, <1>6, <1>7

LEMMA TurnScans ==
    ASSUME Inv, IsText, Tokenize
    PROVE  /\ status = "running"
           /\ \/ status' = "running" /\ \E t : Reading(t)
              \/ status' = "running" /\ Skipping
              \/ /\ status' = "running" /\ OpenComment /\ curr' = Len(text)
                 /\ \E t : tokens' = Append(tokens, t)
              \/ status' = "aborted" /\ tokens' = tokens /\ curr' = curr
              \/ status' = "done" /\ tokens' = tokens /\ curr' = curr /\ curr = Len(text)
              \/ /\ status' = "exit1" /\ tokens' = tokens /\ curr' = curr + 1
                 /\ ~Stuck /\ curr # Len(text) /\ LexemesFrom[curr] = <<Span(curr, curr)>>
<1>1. CASE LexPunctuation \/ LexPair \/ LexShort \/ LexNumber \/ LexWord
  <2>1. status = "running" /\ status' = "running"
    BY <1>1 DEF LexPunctuation, LexPair, LexShort, LexNumber, LexWord, Push, Reads
  <2> QED BY <1>1, <2>1, ReadsPunctuation, ReadsPair, ReadsShort, ReadsNumber, ReadsWord
<1>2. CASE LexBlank \/ LexNewline
  <2>1. status = "running" /\ status' = "running"
    BY <1>2 DEF LexBlank, LexNewline, Reads
  <2> QED BY <1>2, <2>1, SkipsBlank
<1>3. CASE LexComment
  <2>1. status = "running" /\ status' = "running"
    BY <1>3, Zenon DEF LexComment, Reads
  <2> QED BY <1>3, <2>1, SkipsComment
<1>4. CASE LexNoMemory
  BY <1>4 DEF LexNoMemory
<1>5. CASE LexEnd
  <2>1. TextFacts
    BY TextIs
  <2>2. curr = Len(text)
    BY <1>5, <2>1 DEF LexEnd, TextFacts
  <2> QED BY <1>5, <2>2 DEF LexEnd, After
<1>6. CASE LexUnexpected
  <2>1. status = "running"
    BY <1>6 DEF LexUnexpected, Reads
  <2> QED BY <1>6, <2>1, RejectsUnknown
<1> QED BY <1>1, <1>2, <1>3, <1>4, <1>5, <1>6 DEF Tokenize

-----------------------------------------------------------------------------
(* The invariant: what was read and what is ahead are the lexemes.         *)

SpansOf(made) == [k \in DOMAIN made |-> Span(made[k].from, made[k].to)]

LEMMA SpansGrow ==
    ASSUME NEW made, IsList(made), NEW t
    PROVE  IsList(SpansOf(made)) /\ SpansOf(Append(made, t)) = Append(SpansOf(made), Span(t.from, t.to))
<1> DEFINE m == Len(made)
           a == SpansOf(made)
           b == SpansOf(Append(made, t))
           c == Append(a, Span(t.from, t.to))
<1>1. m \in Nat /\ DOMAIN made = 1 .. m
  BY ListFacts
<1>2. /\ DOMAIN Append(made, t) = 1 .. (m + 1) /\ Append(made, t)[m + 1] = t
      /\ \A k \in 1 .. m : Append(made, t)[k] = made[k]
  BY AppendFacts
<1>3. IsList(a) /\ Len(a) = m /\ \A k \in 1 .. m : a[k] = Span(made[k].from, made[k].to)
  <2>1. a = [k \in 1 .. m |-> a[k]]
    BY <1>1 DEF SpansOf
  <2>2. \A k \in 1 .. m : a[k] = Span(made[k].from, made[k].to)
    BY <1>1 DEF SpansOf
  <2> HIDE DEF a, m
  <2> QED BY <1>1, <2>1, <2>2, FunctionIsList
<1>4. /\ IsList(b) /\ Len(b) = m + 1 /\ b[m + 1] = Span(t.from, t.to)
      /\ \A k \in 1 .. m : b[k] = Span(made[k].from, made[k].to)
  <2>1. b = [k \in 1 .. (m + 1) |-> b[k]]
    BY <1>2 DEF SpansOf
  <2>2. \A k \in 1 .. (m + 1) : b[k] = Span(Append(made, t)[k].from, Append(made, t)[k].to)
    BY <1>2 DEF SpansOf
  <2> HIDE DEF b, m
  <2>3. m + 1 \in Nat /\ m + 1 \in 1 .. (m + 1) /\ \A k \in 1 .. m : k \in 1 .. (m + 1)
    BY <1>1
  <2>4. IsList(b) /\ Len(b) = m + 1
    BY <2>1, <2>3, FunctionIsList
  <2> QED BY <1>2, <2>2, <2>3, <2>4
<1> HIDE DEF a, b
<1>5. /\ IsList(c) /\ Len(c) = m + 1 /\ c[m + 1] = Span(t.from, t.to)
      /\ \A k \in 1 .. m : c[k] = a[k]
  BY <1>3, AppendFacts
<1> HIDE DEF c, m
<1>6. \A k \in 1 .. (m + 1) : k \in 1 .. m \/ k = m + 1
  BY <1>1
<1>7. b = c
  BY <1>3, <1>4, <1>5, <1>6, SameList
<1> QED BY <1>3, <1>7 DEF a, b, c

Loop == Stuck /\ Lexemes # <<>> /\ Last(Lexemes) = Span(curr, curr + 1)

ScanInv ==
    IsText =>
        \/ OpenComment /\ curr = Len(text)
        \/ status \in {"running", "aborted"} /\ (Spans \o LexemesFrom[curr] = Lexemes \/ Loop)
        \/ status = "done" /\ Spans = Lexemes
        \/ status = "exit1" /\ Append(Spans, Span(curr - 1, curr - 1)) = Lexemes

Spelt ==
    IsText /\ ~OpenComment =>
        \A k \in DOMAIN tokens : SpellsType(tokens[k].type, Slice(tokens[k].from, tokens[k].to))

LEMMA SameText ==
    ASSUME text' = text
    PROVE  /\ LexemesFrom' = LexemesFrom /\ Lexemes' = Lexemes
           /\ (OpenComment' <=> OpenComment) /\ (IsText' <=> IsText)
<1>1. /\ \A i : CommentAt(i)' <=> CommentAt(i)
      /\ \A i : LineEnd(i)' = LineEnd(i)
      /\ \A i : LexemeEnds(i)' = LexemeEnds(i)
  BY DEF CommentAt, LineEnd, LexemeEnds, Slice
<1>2. LexemesFrom' = LexemesFrom
  BY DEF LexemesFrom, IsWalk, CommentAt, LineEnd, LexemeEnds, Slice
<1>3. Lexemes' = Lexemes
  BY DEF Lexemes, CommentAt, LineEnd, LexemeEnds, Slice
<1>4. (OpenComment' <=> OpenComment) /\ (IsText' <=> IsText)
  BY DEF OpenComment, IsText, CommentAt, LineEnd
<1> QED BY <1>2, <1>3, <1>4

LEMMA TurnKeepsScan ==
    ASSUME Inv, Inv', ScanInv, Tokenize
    PROVE  ScanInv'
<1>1. text' = text
  BY TurnPushes
<1>2. /\ LexemesFrom' = LexemesFrom /\ Lexemes' = Lexemes
      /\ (OpenComment' <=> OpenComment) /\ (IsText' <=> IsText)
  BY <1>1, SameText
<1> SUFFICES ASSUME IsText
             PROVE  \/ OpenComment /\ curr' = Len(text)
                    \/ status' \in {"running", "aborted"} /\ (Spans' \o LexemesFrom[curr'] = Lexemes \/ Loop')
                    \/ status' = "done" /\ Spans' = Lexemes
                    \/ status' = "exit1" /\ Append(Spans', Span(curr' - 1, curr' - 1)) = Lexemes
  BY <1>1, <1>2 DEF ScanInv
<1>3. TextFacts
  BY TextIs
<1>4. IsList(tokens)
  BY DEF Inv, IsList
<1>5. Spans = SpansOf(tokens) /\ Spans' = SpansOf(tokens') /\ IsList(Spans)
  <2>1. Spans = SpansOf(tokens) /\ Spans' = SpansOf(tokens')
    BY DEF Spans, SpansOf
  <2> QED BY <1>4, <2>1, SpansGrow
<1>6. /\ status = "running"
      /\ (OpenComment /\ curr = Len(text)) \/ Spans \o LexemesFrom[curr] = Lexemes \/ Loop
  BY TurnScans DEF ScanInv
<1>7. Loop' <=> curr' + 1 = Len(text) /\ Char(curr') \in LookAhead
                /\ Lexemes # <<>> /\ Last(Lexemes) = Span(curr', curr' + 1)
  BY <1>1, <1>2 DEF Loop, Stuck, Char
<1>8. LexemesFrom[Len(text)] = <<>> /\ \A i \in 0 .. Len(text) : IsList(LexemesFrom[i])
  BY <1>3, WalkFacts DEF TextFacts
<1>9. Stuck => curr + 1 = Len(text) /\ Char(curr) \in LookAhead
  BY DEF Stuck
<1>10. CASE status' = "running" /\ \E t : Reading(t)
  <2>1. PICK t : Reading(t)
    BY <1>10
  <2>2. /\ tokens' = Append(tokens, t) /\ t.from = curr
        /\ t.to \in (curr + 1) .. Len(text)
        /\ LexemesFrom[curr] = <<Span(curr, t.to)>> \o LexemesFrom[t.to]
        /\ (curr' = t.to /\ ~Stuck) \/ (curr' = curr /\ Stuck /\ t.to = Len(text))
    BY <2>1 DEF Reading
  <2>3. Spans' = Append(Spans, Span(curr, t.to))
    BY <1>4, <1>5, <2>2, SpansGrow
  <2>4. curr # Len(text) /\ t.to \in 0 .. Len(text)
    BY <1>3, <2>2 DEF TextFacts
  <2>5. CASE Loop
    <3>1. curr' = curr
      BY <2>2, <2>5 DEF Loop
    <3>2. Loop'
      BY <1>7, <1>9, <2>5, <3>1 DEF Loop
    <3> QED BY <1>10, <3>2
  <2>6. CASE Spans \o LexemesFrom[curr] = Lexemes
    <3> DEFINE e == Span(curr, t.to)
               rest == LexemesFrom[t.to]
    <3>1. IsList(rest)
      BY <1>8, <2>4
    <3>2. /\ Append(Spans, e) \o rest = Spans \o (<<e>> \o rest)
          /\ Append(Spans, e) = Spans \o <<e>>
          /\ Spans \o <<e>> # <<>> /\ Last(Spans \o <<e>>) = e
      <4> HIDE DEF rest, e
      <4> QED BY <1>5, <3>1, OneMore
    <3>3. Spans' \o rest = Lexemes
      BY <2>2, <2>3, <2>6, <3>2
    <3>4. CASE curr' = t.to
      BY <1>10, <3>3, <3>4
    <3>5. CASE curr' = curr /\ Stuck /\ t.to = Len(text)
      <4>1. rest = <<>> /\ t.to = curr + 1
        BY <1>8, <1>9, <3>5
      <4>2. IsList(Append(Spans, e))
        BY <1>5, AppendFacts
      <4>3. Append(Spans, e) \o <<>> = Append(Spans, e)
        BY <4>2, OneMore
      <4>4. Lexemes = Spans \o <<e>>
        BY <2>3, <3>2, <3>3, <4>1, <4>3
      <4>5. Lexemes # <<>> /\ Last(Lexemes) = Span(curr, curr + 1)
        BY <3>2, <4>1, <4>4
      <4>6. Loop'
        BY <1>7, <1>9, <3>5, <4>5
      <4> QED BY <1>10, <4>6
    <3> QED BY <2>2, <3>4, <3>5
  <2> QED BY <1>6, <2>4, <2>5, <2>6
<1>11. CASE status' = "running" /\ Skipping
  <2>1. tokens' = tokens /\ ~Stuck /\ curr # Len(text) /\ LexemesFrom[curr] = LexemesFrom[curr']
    BY <1>11 DEF Skipping
  <2>2. Spans \o LexemesFrom[curr] = Lexemes
    BY <1>6, <2>1 DEF Loop
  <2> QED BY <1>5, <1>11, <2>1, <2>2
<1>12. CASE OpenComment /\ curr' = Len(text)
  BY <1>12
<1>13. CASE status' = "aborted" /\ tokens' = tokens /\ curr' = curr
  BY <1>5, <1>6, <1>7, <1>9, <1>13 DEF Loop
<1>14. CASE status' = "done" /\ tokens' = tokens /\ curr' = curr /\ curr = Len(text)
  <2>1. ~Loop
    BY <1>3, <1>9, <1>14 DEF Loop, TextFacts
  <2>2. CASE Spans \o LexemesFrom[curr] = Lexemes
    <3>1. Spans \o <<>> = Spans
      BY <1>5, OneMore
    <3> QED BY <1>5, <1>8, <1>14, <2>2, <3>1
  <2> QED BY <1>6, <1>14, <2>1, <2>2
<1>15. CASE /\ status' = "exit1" /\ tokens' = tokens /\ curr' = curr + 1
            /\ ~Stuck /\ curr # Len(text) /\ LexemesFrom[curr] = <<Span(curr, curr)>>
  <2>1. Spans \o <<Span(curr, curr)>> = Lexemes
    BY <1>6, <1>15 DEF Loop
  <2>2. Append(Spans, Span(curr, curr)) = Lexemes
    BY <1>5, <1>8, <2>1, OneMore
  <2>3. curr' - 1 = curr
    BY <1>3, <1>15 DEF TextFacts
  <2> QED BY <1>5, <1>15, <2>2, <2>3
<1> QED BY <1>10, <1>11, <1>12, <1>13, <1>14, <1>15, TurnScans

LEMMA TurnKeepsSpelt ==
    ASSUME Inv, Spelt, Tokenize
    PROVE  Spelt'
<1>1. text' = text
  BY TurnPushes
<1>2. (OpenComment' <=> OpenComment) /\ (IsText' <=> IsText)
  BY <1>1, SameText
<1>3. \A i, j : Slice(i, j)' = Slice(i, j)
  BY <1>1 DEF Slice
<1> DEFINE Right(t) == SpellsType(t.type, Slice(t.from, t.to))
<1> SUFFICES ASSUME IsText, ~OpenComment, NEW k \in DOMAIN tokens'
             PROVE  Right(tokens'[k])
  BY <1>1, <1>2 DEF Spelt, Slice
<1>4. \A i \in DOMAIN tokens : Right(tokens[i])
  BY DEF Spelt
<1>5. CASE tokens' = tokens
  BY <1>4, <1>5
<1>6. CASE tokens' # tokens
  <2>1. PICK t : Reading(t)
    BY <1>6, TurnScans DEF Skipping
  <2>2. tokens' = Append(tokens, t) /\ Right(t)
    BY <2>1 DEF Reading
  <2> HIDE DEF Right
  <2> QED BY <1>4, <2>2, OldOrNew
<1> QED BY <1>5, <1>6

LEMMA ScanHolds == Spec => [](ScanInv /\ Spelt)
<1>1. Init => ScanInv /\ Spelt
  <2> SUFFICES ASSUME Init PROVE ScanInv /\ Spelt
    OBVIOUS
  <2>1. tokens = <<>> /\ curr = 0 /\ status = "running" /\ text \in Seq(STRING)
    BY LexerAssumption DEF Init, Start
  <2>2. Spans = <<>>
    BY <2>1 DEF Spans
  <2>3. LexemesFrom[0] = Lexemes /\ IsList(LexemesFrom[0])
    BY <2>1, WalkHolds, WalkFacts
  <2>4. <<>> \o LexemesFrom[0] = LexemesFrom[0]
    BY <2>3 DEF IsList
  <2> QED BY <2>1, <2>2, <2>3, <2>4 DEF ScanInv, Spelt
<1>2. Inv /\ Inv' /\ ScanInv /\ Spelt /\ [Next]_vars => ScanInv' /\ Spelt'
  <2> SUFFICES ASSUME Inv, Inv', ScanInv, Spelt, [Next]_vars PROVE ScanInv' /\ Spelt'
    OBVIOUS
  <2>1. CASE UNCHANGED vars
    <3>1. /\ text' = text /\ curr' = curr /\ tokens' = tokens /\ status' = status
      BY <2>1 DEF vars
    <3>2. /\ LexemesFrom' = LexemesFrom /\ Lexemes' = Lexemes
          /\ (OpenComment' <=> OpenComment) /\ (IsText' <=> IsText)
      BY <3>1, SameText
    <3>3. Spans' = Spans /\ (Loop' <=> Loop)
      BY <3>1, <3>2 DEF Spans, Loop, Stuck, Char
    <3> QED BY <3>1, <3>2, <3>3 DEF ScanInv, Spelt, Slice
  <2>2. CASE Tokenize
    BY <2>2, TurnKeepsScan, TurnKeepsSpelt
  <2> QED BY <2>1, <2>2 DEF Next, Stopped
<1> QED BY <1>1, <1>2, InvHolds, PTL DEF Spec

(* The scan cuts every text where C cuts it and types what it cut, for     *)
(* every alphabet and every length, and rejects exactly at a character     *)
(* that begins no lexeme: that back() puts one character back, and the     *)
(* runs end one character late, changes no lexeme of a scan that ends.     *)
THEOREM CutsLikeC == Spec => []ScansLikeC
<1>1. Inv /\ ScanInv /\ Spelt => ScansLikeC
  BY DEF ScanInv, Spelt, ScansLikeC
<1> QED BY <1>1, InvHolds, ScanHolds, PTL

(* With room for as many tokens as a file has characters, new_region fails *)
(* for one kind of text only: the one whose last lexeme is an operator     *)
(* that looks ahead, which back() puts back without end.                   *)
THEOREM AbortsOnlyThere ==
    ASSUME \A t \in Texts : Len(t) <= Memory
    PROVE  Spec => []AbortsAtOperatorOnly
<1>1. Init => text \in Texts
  BY DEF Init, Start
<1>2. Inv /\ text \in Texts /\ [Next]_vars => (text \in Texts)'
  BY TurnPushes DEF Next, Stopped, vars
<1>3. ASSUME Inv, ScanInv, text \in Texts, IsText, status = "aborted" PROVE EndsInLookAhead
  <2>1. Len(text) <= Memory
    BY <1>3
  <2>2. Len(tokens) = Memory /\ Char(curr) # NUL
    BY <1>3 DEF Inv
  <2>3. Stuck
    BY <1>3, <2>1, <2>2, Before, LexerAssumption DEF Inv
  <2>4. TextFacts
    BY <1>3, TextIs
  <2>5. curr + 1 = Len(text) /\ Char(curr) \in LookAhead /\ Char(curr + 1) = NUL
        /\ curr # Len(text) /\ Len(text) - 1 = curr /\ text[Len(text)] = Char(curr)
    BY <1>3, <2>3, <2>4, Before DEF Stuck, TextFacts, Char
  <2>6. CASE Loop
    BY <2>5, <2>6 DEF Loop, EndsInLookAhead
  <2>7. CASE Spans \o LexemesFrom[curr] = Lexemes
    <3>1. /\ ~\E p \in Pairs : p.first = Char(curr) /\ p.second = Char(curr + 1)
          /\ Char(curr + 1) # "/"
      BY <2>5, ClassesApart DEF NUL
    <3>2. LexemesFrom[curr] = <<Span(curr, curr + 1)>> \o LexemesFrom[curr + 1]
      BY <2>4, <2>5, <3>1, ShortLexeme
    <3>3. LexemesFrom[curr + 1] = <<>>
      BY <2>4, <2>5, WalkFacts DEF TextFacts
    <3> DEFINE e == Span(curr, curr + 1)
    <3>4. <<e>> \o <<>> = <<e>>
      <4> HIDE DEF e
      <4> QED BY ShortLists, OneMore
    <3>5. IsList(Spans)
      <4>1. Spans = SpansOf(tokens) /\ IsList(tokens)
        BY <1>3 DEF Spans, SpansOf, Inv, IsList
      <4> QED BY <4>1, SpansGrow
    <3>6. Spans \o <<e>> # <<>> /\ Last(Spans \o <<e>>) = e
      <4> HIDE DEF e
      <4> QED BY <3>5, ShortLists, OneMore
    <3> QED BY <2>5, <2>7, <3>2, <3>3, <3>4, <3>6 DEF EndsInLookAhead
  <2> QED BY <1>3, <2>5, <2>6, <2>7 DEF ScanInv
<1>4. Inv /\ ScanInv /\ text \in Texts => AbortsAtOperatorOnly
  BY <1>3 DEF AbortsAtOperatorOnly
<1> QED BY <1>1, <1>2, <1>4, InvHolds, ScanHolds, PTL DEF Spec

=============================================================================
