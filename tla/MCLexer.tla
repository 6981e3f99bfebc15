------------------------------ MODULE MCLexer ------------------------------
(***************************************************************************)
(* The texts for the runs of the scanner: everything up to a length over   *)
(* small alphabets, each chosen around one of the cases of the switch.     *)
(***************************************************************************)
EXTENDS LexerRef

UpTo(n, chars) == UNION {[1 .. m -> chars] : m \in 0 .. n}

MCLetters == {"i", "f", "n", "t", "_", "v", "o", "d", "r", "e", "u", "l", "s", "m", "w", "h"}
All == Punctuation \cup LookAhead \cup Blanks \cup Range(Digits) \cup MCLetters
           \cup {Newline, NUL, "#"}

KeywordTexts ==
    LET words == {Spelled(kw) : kw \in Keywords} \cup {SpelledInt, SpelledVoid}
    IN  {w \o tail : w \in words, tail \in UpTo(1, {"i", "0", " ", "="})}
        \cup {<<"i">> \o w : w \in words} \cup {Front(w) : w \in words}

MCTexts ==
    UpTo(2, All)
    \cup UpTo(4, {"<", "=", "&", "i", "1", " "})     \* operators and neighbours
    \cup UpTo(5, {"/", Newline, NUL, "i"})           \* comments
    \cup UpTo(5, {"0", "1", "9", "-"})               \* literals
    \cup UpTo(4, {"i", "f", "1", "_"})               \* words
    \cup KeywordTexts

\* A comment that nothing follows.
TrailingComments == {<<"i", ";", "/", "/", "i">>, <<"i", ";", "/", "/", "i", Newline>>}

=============================================================================
