------------------------------ MODULE FrontEnd ------------------------------
(***************************************************************************)
(* The front half of my_lang() in src/main.c: the file is scanned, and the *)
(* vector of tokens is parsed.                                             *)
(***************************************************************************)
EXTENDS Grammar, Alphabet

CONSTANTS Letters, IntLimit, Memory, JunkTypes,  \* see Lexer
          Files   \* what is read: [text, origin], with [program, tokens] it
                  \* was written from in origin, which is empty if it was not

(* What Lexer assumes of its constants.                                    *)
ASSUME FrontEndAssumption ==
    /\ \A f \in Files : f.text \in Seq(STRING)
    /\ Letters \cap (Punctuation \cup LookAhead \cup Blanks \cup {Newline, NUL}) = {}
    /\ \A c \in Letters : ~IsDigit(c)
    /\ IntLimit \in Nat /\ IntLimit > 0
    /\ Memory \in Nat
    /\ JunkTypes \subseteq STRING /\ JunkTypes # {}

VARIABLES text, curr, line, pos, status,          \* see Lexer
          tokens,                                 \* the vector one hands the other
          current, todo, vals, prog, verdict,     \* see Parser
          origin                                  \* history: of the file read

lexVars   == <<text, curr, tokens, line, pos, status>>
parseVars == <<current, todo, vals, prog, verdict>>
vars      == <<lexVars, parseVars, origin>>

Lex == INSTANCE Lexer WITH Texts <- {f.text : f \in Files}
P   == INSTANCE Parser WITH Streams <- {}, NoValue <- Lex!Unset

-----------------------------------------------------------------------------

Init ==
    /\ \E f \in Files : Lex!Start(f.text) /\ origin = f.origin
    /\ current = 0
    /\ todo = <<P!Call("prog")>>
    /\ vals = <<>>
    /\ prog = [nodes |-> <<>>, funcs |-> <<>>]
    /\ verdict = "idle"

Tokenize == Lex!Tokenize /\ UNCHANGED <<parseVars, origin>>

(* parse() makes its token stream on what tokenize() returned.             *)
StartParse ==
    /\ status = "done"
    /\ verdict = "idle"
    /\ verdict' = "parsing"
    /\ UNCHANGED <<lexVars, current, todo, vals, prog, origin>>

Parse == P!Parse /\ UNCHANGED <<text, curr, line, pos, status, origin>>

Step == Tokenize \/ StartParse \/ Parse

(* The front end has returned, or the process has ended.                   *)
Over == status \notin {"running", "done"} \/ verdict \notin {"idle", "parsing"}
Stopped == Over /\ UNCHANGED vars

Next == Step \/ Stopped

Spec == Init /\ [][Next]_vars

(* One process that waits for nothing.                                     *)
FairSpec == Spec /\ WF_vars(Step)

-----------------------------------------------------------------------------
BareTokens == [k \in DOMAIN tokens |-> Bare(tokens[k])]

(* Reading a program back: whatever its layout and its comments, the text  *)
(* of a program is accepted and gives the tree it was written from, with   *)
(* every operator between the operands C gives it.                         *)
ReadsBack ==
    Over /\ origin # <<>> => verdict = "done" /\ prog = origin[1].program

(* A message is about the first token that cannot stand where it is: with  *)
(* it (and the two behind a type, which the parser looks at together) the  *)
(* file begins no program of the run.  So a file that merely stops short   *)
(* never gets the message of a wrong token.                                *)
Programs == {f.origin[1].tokens : f \in {g \in Files : g.origin # <<>>}}
UpTo(s, k) == SubSeq(s, 1, Min({k, Len(s)}))
Begins == {UpTo(w, k) : w \in Programs, k \in 0 .. Memory}
LookedAt == IF P!Type = "TYPE" THEN 3 ELSE 1
Blamed   == UpTo(BareTokens, current + LookedAt)
BlamesWrongToken ==
    verdict = "exit1" => Blamed \notin Begins

(* Every token of an accepted file is in the tree, in its order, and the   *)
(* tree has nothing of its own: where the file stops short the tree is the *)
(* one of the file with what is missing at its end.                        *)
Accepted == verdict = "done"
LosesNothing ==
    Accepted => IsPrefix(Skeleton(BareTokens), Skeleton(UnparseProgram(prog)))

(* The tree of an accepted file is one the semantic checker can walk (no   *)
(* null child, no child made after its parent, only operators that have a  *)
(* case), and the parser has used every result it computed.                *)
TreeOK == Accepted => ProgramOK(prog) /\ vals = <<>>

(* expect() "Returns current token in stream if TokenType matches 'expect' *)
(* errors otherwise": a file that stops short is not accepted.             *)
EndReported ==
    Accepted => Skeleton(BareTokens) = Skeleton(UnparseProgram(prog))

(* The scanner's types, and a parser that never pops more than was pushed. *)
TypeOK ==
    /\ Lex!TypeOK
    /\ P!TypeOK

(* Every file is read to the end or refused.                               *)
Ends == <>Over

=============================================================================
