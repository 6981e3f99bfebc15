------------------------------ MODULE SemaRef ------------------------------
(***************************************************************************)
(* The semantic checker against the scoping rules of C.                    *)
(***************************************************************************)
EXTENDS Sema, Scoping

(* sym_check puts parameters in the scope of the functions and a function  *)
(* over its own parameters: a parameter and a function of one name take    *)
(* each other's uses.  And the parser takes a declaration for a statement  *)
(* anywhere, if (a) enum {b}; too, which C does not.                       *)
LikeC == ParamsApart(prog) /\ ~Misplaced(prog)

-----------------------------------------------------------------------------

(* In an accepted program every use of a name that C resolves was bound to *)
(* the symbol of the declaration C resolves it to: cloning the parent's    *)
(* table and dropping the clone is lexical scoping.                        *)
ResolvesLikeC ==
    verdict = "accepted" /\ LikeC =>
        LET bind == Bindings(prog)
        IN  \A n \in DOMAIN bind : syms[symOf[n]].decl = bind[n]

(* A legal program of ints that uses no name twice passes the checks on    *)
(* symbols: nothing but reuse of a name makes the checker reject it.       *)
NoReuse == \A d, e \in Declared(prog) : NameOf(prog, d) = NameOf(prog, e) => d = e
AcceptsLegal ==
    verdict \in {"exit1", "crash"} /\ NoReuse /\ todo # <<>> => Illegal(prog)

(* The checker reads a wild pointer only for a program that is not C, or   *)
(* one in which a parameter has the name of a function: there it does so   *)
(* for legal programs too.                                                 *)
CrashesOnlyOnIllegal == verdict = "crash" /\ ParamsApart(prog) => Illegal(prog)

(* A return is bound to the function it stands in, whose frame the code    *)
(* generator will have it undo.  The function is looked up by name, and    *)
(* only an enum constant may take the name of a function again: then the   *)
(* return is bound to that constant where C sees it too, and nowhere else. *)
ReturnsOwnFrame ==
    \A n \in DOMAIN symOf :
        prog.nodes[n].type = "RET" =>
            LET f == FuncOf(prog)[n]
                s == syms[symOf[n]]
            IN  \/ s.decl = <<f, 0>>
                \/ /\ s.kind = "CONST"
                   /\ LikeC => s.decl = Visible(prog)[n][prog.nodes[f].value]

-----------------------------------------------------------------------------
(* What the documentation says and some run refutes.                       *)

(* A variable is a redefinition only in the scope of the first one.        *)
RejectsOnlyRedefinition == verdict = "exit1" /\ todo # <<>> => Illegal(prog)

=============================================================================
