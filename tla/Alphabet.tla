------------------------------ MODULE Alphabet ------------------------------
(***************************************************************************)
(* The characters and the spellings src/lex.c knows.  A character is a     *)
(* one-letter string.                                                      *)
(***************************************************************************)
EXTENDS Integers, Sequences

NUL     == "NUL"          \* '\0': ends the loop wherever it comes from
Newline == "\n"
Blanks  == {" ", "\t"}
Digits  == <<"0", "1", "2", "3", "4", "5", "6", "7", "8", "9">>

IsDigit(c)      == \E i \in DOMAIN Digits : Digits[i] = c
DigitValue(c)   == (CHOOSE i \in DOMAIN Digits : Digits[i] = c) - 1

(* One character is the token, whatever follows it.                        *)
Punctuation == {"+", "-", "*", ";", "(", ")", "{", "}", "^", ","}

(* Operators of two characters, and those of one that must look ahead.     *)
Pair(c, d, type) == [first |-> c, second |-> d, type |-> type]
Pairs == {Pair("&", "&", "&&"), Pair("|", "|", "||"), Pair("=", "=", "=="),
          Pair("!", "=", "!="), Pair("<", "<", "<<"), Pair("<", "=", "<="),
          Pair(">", ">", ">>"), Pair(">", "=", ">=")}
LookAhead == {"/", "&", "|", "=", "!", "<", ">"}

Keywords == {"return", "if", "else", "enum", "while", "for"}
SpelledInt   == <<"i", "n", "t">>
SpelledVoid  == <<"v", "o", "i", "d">>
Spelled(kw) ==
    CASE kw = "return" -> <<"r", "e", "t", "u", "r", "n">>
      [] kw = "if"     -> <<"i", "f">>
      [] kw = "else"   -> <<"e", "l", "s", "e">>
      [] kw = "enum"   -> <<"e", "n", "u", "m">>
      [] kw = "while"  -> <<"w", "h", "i", "l", "e">>
      [] kw = "for"    -> <<"f", "o", "r">>

=============================================================================
