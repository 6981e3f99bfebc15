------------------------------ MODULE LexerRef ------------------------------
(***************************************************************************)
(* What a scanner of this language must do, by a definition that has       *)
(* nothing of the one in src/lex.c: the lexical rules of C, for the tokens *)
(* of the language.  A text is blanks, comments and lexemes, and where a   *)
(* lexeme begins the longest one that begins there is the token.           *)
(***************************************************************************)
EXTENDS Lexer, FiniteSets

(* Lexemes of fixed spelling, as characters.                               *)
FixedLexemes ==
    {<<c>> : c \in Punctuation \cup LookAhead}
    \cup {<<"&", "&">>, <<"|", "|">>, <<"=", "=">>, <<"!", "=">>,
          <<"<", "<">>, <<"<", "=">>, <<">", ">">>, <<">", "=">>}

Drawn(lexeme, InSet(_)) == \A i \in DOMAIN lexeme : InSet(lexeme[i])

IsLexeme(s) ==
    \/ s \in FixedLexemes
    \/ s # <<>> /\ Drawn(s, IsDigit)
    \/ s # <<>> /\ Drawn(s, IsIdentChar) /\ ~IsDigit(s[1])

(* The ends of the lexemes that begin behind character i.                  *)
LexemeEnds(i) == {j \in (i + 1) .. Len(text) : IsLexeme(Slice(i, j))}

CommentAt(i) == i + 1 < Len(text) /\ text[i + 1] = "/" /\ text[i + 2] = "/"
LineEnd(i)   == IF \E j \in i .. (Len(text) - 1) : text[j + 1] = Newline
                THEN CHOOSE j \in i .. (Len(text) - 1) :
                        /\ text[j + 1] = Newline
                        /\ \A k \in i .. (j - 1) : text[k + 1] # Newline
                ELSE Len(text)

(* The lexemes of the text behind character i, as the characters they      *)
(* span; at one that begins no lexeme the list ends with that character    *)
(* spanning nothing.                                                       *)
Span(i, j) == [from |-> i, to |-> j]
Lexemes ==
    LET from[i \in 0 .. Len(text)] ==
            IF i = Len(text) THEN <<>>
            ELSE IF text[i + 1] \in Blanks \cup {Newline} THEN from[i + 1]
            ELSE IF CommentAt(i) THEN from[LineEnd(i)]
            ELSE IF LexemeEnds(i) = {} THEN <<Span(i, i)>>
            ELSE LET j == Max(LexemeEnds(i)) IN <<Span(i, j)>> \o from[j]
    IN  from[0]

Spans == [k \in DOMAIN tokens |-> Span(tokens[k].from, tokens[k].to)]

(* The type C gives a lexeme: its class, or its spelling.                  *)
SpellsType(type, lexeme) ==
    CASE type = "NUM"     -> Drawn(lexeme, IsDigit)
      [] type = "TYPE"    -> lexeme \in {SpelledInt, SpelledVoid}
      [] type = "IDENT"   -> /\ IsIdentStart(lexeme[1])
                             /\ lexeme \notin {Spelled(kw) : kw \in Keywords}
                             /\ lexeme \notin {SpelledInt, SpelledVoid}
      [] type \in Keywords -> lexeme = Spelled(type)
      [] OTHER -> /\ lexeme \in FixedLexemes
                  /\ (Len(lexeme) = 1) <=> (type = lexeme[1])
                  /\ Len(lexeme) = 2 => \E p \in Pairs : /\ p.type = type
                                                         /\ lexeme = <<p.first, p.second>>

-----------------------------------------------------------------------------
(* Files that are text, without a '\0' inside and with a comment closed    *)
(* before the end.                                                         *)
IsText == \A i \in DOMAIN text : text[i] # NUL
OpenComment == \E i \in 0 .. Len(text) : CommentAt(i) /\ LineEnd(i) = Len(text)

(* A text that ends in an operator that must look ahead.                   *)
EndsInLookAhead == /\ Lexemes # <<>>
                   /\ text[Len(text)] \in LookAhead
                   /\ Last(Lexemes) = Span(Len(text) - 1, Len(text))

(* The scan cuts the text where C cuts it, whatever stands next to what,   *)
(* and gives every lexeme its type: nothing is read twice by next() and    *)
(* back() and nothing is skipped but blanks and comments.  It ends with a  *)
(* message exactly at the first character that begins no lexeme.           *)
ScansLikeC ==
    IsText /\ ~OpenComment =>
        /\ status = "done" => Spans = Lexemes
        /\ status = "exit1" => Append(Spans, Span(curr - 1, curr - 1)) = Lexemes
        /\ status # "aborted" =>
               \A k \in DOMAIN tokens :
                   SpellsType(tokens[k].type, Slice(tokens[k].from, tokens[k].to))

(* A token carries the number of the line it is on, across comments and    *)
(* empty lines.                                                            *)
LinesRight ==
    IsText => \A k \in DOMAIN tokens :
        tokens[k].value # Unset =>
            tokens[k].line = 1 + Cardinality({i \in 1 .. tokens[k].from : text[i] = Newline})

(* The number a literal stands for, without a bound.                       *)
Value(digits) == FoldLeft(LAMBDA sum, c : sum * 10 + DigitValue(c), 0, digits)

(* Every literal an int can hold keeps its value on the way through        *)
(* tokenize_digit, which sums in an int, and int_to_str, which is given    *)
(* the length of the literal for a buffer: up to the largest int, leading  *)
(* zeros or not, next to whatever characters.                              *)
LiteralsKept ==
    \A k \in DOMAIN tokens : tokens[k].type = "NUM" /\ tokens[k].value # Unset =>
        LET literal == Value(Slice(tokens[k].from, tokens[k].to))
        IN  literal < IntLimit => tokens[k].number = literal

(* tokenize runs out of memory for one kind of text only: one whose last   *)
(* character is an operator that looks ahead.                              *)
AbortsAtOperatorOnly == IsText /\ status = "aborted" => EndsInLookAhead

(* Every scan ends.                                                        *)
Ends == <>(status # "running")

(* A comment makes no token.                                               *)
CommentsMakeNoToken ==
    \A k \in DOMAIN tokens : ~CommentAt(tokens[k].from)

=============================================================================
