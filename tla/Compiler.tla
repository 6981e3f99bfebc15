------------------------------ MODULE Compiler ------------------------------
(***************************************************************************)
(* The whole path of a program, src/main.c: sema_check, then gen_asm, then *)
(* the emitted file on the machine; and what it should compute, CRef.      *)
(***************************************************************************)
EXTENDS Ast, Integers, Sequences, FiniteSets

CONSTANTS Programs, JunkWords, NTemp, NArg, WordSize,
          WordBits, StackTop, Garbage, Fuel

ASSUME MachineAssumption == WordBits > 12 /\ StackTop < 2^(WordBits - 1)

VARIABLES prog, junk, todo, scopes, syms, symOf, frame, params, func, used, verdict,
          input, ctl, ret, free, argReg, counts, code, stage,
          pc, regs, mem, calls, run,
          clash   \* history: a call sequence stored over a slot in use

semaVars == <<prog, junk, todo, scopes, syms, symOf, frame, params, func, used, verdict>>
genVars  == <<input, ctl, ret, free, argReg, counts, code, stage>>
machine  == <<pc, regs, mem, calls, run>>
vars     == <<semaVars, genVars, machine, clash>>

S == INSTANCE Sema
G == INSTANCE CodeGen WITH Inputs <- {}, Lookalikes <- <<>>, WildSizes <- JunkWords
R == INSTANCE Rv32
C == INSTANCE CRef

Init == S!Init /\ G!Init /\ R!Off /\ clash = FALSE

SemaStep == S!Case /\ UNCHANGED <<genVars, machine, clash>>

Generate == verdict = "accepted" /\ G!GenAsm(S!Checked) /\ UNCHANGED <<semaVars, machine, clash>>

GenStep ==
    /\ G!GenNext
    /\ clash' = (clash \/ (G!CallStep /\ ~(G!SparesLocals /\ G!SparesPending /\ G!InsideFrame)))
    /\ UNCHANGED <<semaVars, machine>>

(* Assemble, link and start the emitted file.                              *)
Boot ==
    /\ stage = "done" /\ G!Assembles /\ G!ImmediatesFit
    /\ R!PowerOn
    /\ UNCHANGED <<semaVars, genVars, clash>>

Execute == R!Step /\ UNCHANGED <<semaVars, genVars, clash>>

Ended ==
    \/ verdict \in {"exit1", "crash"}
    \/ stage \in {"exit1", "crash"}
    \/ stage = "done" /\ ~(G!Assembles /\ G!ImmediatesFit)
    \/ run \in {"exited", "wild"}

Next == SemaStep \/ Generate \/ GenStep \/ Boot \/ Execute \/ (Ended /\ UNCHANGED vars)

Spec == Init /\ [][Next]_vars

-----------------------------------------------------------------------------
(* The constructs whose translation departs from C; the properties below   *)
(* are about programs without them.  FallsIntoElse is shown by a run.  The *)
(* area of a call (clash) is the subject of CodeGen!CallAreaApart, the     *)
(* return that finds no frame that of SemaRef!ReturnsOwnFrame.             *)

Nodes    == prog.nodes
NodeIds  == DOMAIN Nodes
IsType(n, ty) == Nodes[n].type = ty

(* Can control reach the end of the statement?  No jump but return exists. *)
RECURSIVE FallsThrough(_)
FallsThrough(n) ==
    CASE IsType(n, "RET") -> FALSE
      [] IsType(n, "COMP_STMT") ->
           \A i \in DOMAIN Nodes[n].stmts : FallsThrough(Nodes[n].stmts[i])
      [] IsType(n, "IF") ->
           Nodes[n].else_body = NULL \/ FallsThrough(Nodes[n].if_body)
                                     \/ FallsThrough(Nodes[n].else_body)
      [] OTHER -> TRUE

RECURSIVE HasEffect(_)
HasEffect(n) ==
    CASE Nodes[n].type \in {"VAR_ASGN", "FUNC_CALL"} -> TRUE
      [] IsType(n, "BIN_EXP")    -> HasEffect(Nodes[n].left) \/ HasEffect(Nodes[n].right)
      [] IsType(n, "UNARY_EXPR") -> HasEffect(Nodes[n].postfix_expr)
      [] OTHER -> FALSE

FallsIntoElse == \E n \in NodeIds : /\ IsType(n, "IF") /\ Nodes[n].else_body # NULL
                                    /\ FallsThrough(Nodes[n].if_body)
OpenEnded     == \E n \in NodeIds : /\ IsType(n, "FUNC_DEF") /\ Nodes[n].ctype # "void"
                                    /\ FallsThrough(Nodes[n].body)
IsParam(s)    == \E f \in DOMAIN params : \E i \in DOMAIN params[f] : params[f][i] = s
AssignsParam  == \E n \in NodeIds : IsType(n, "LVAL") /\ IsParam(symOf[Nodes[n].ident])
EffectAfterLogic == \E n \in NodeIds : /\ IsType(n, "BIN_EXP")
                                       /\ Nodes[n].op_type \in {"&&", "||"}
                                       /\ HasEffect(Nodes[n].right)
LosesFrame    == \E n \in NodeIds : IsType(n, "RET") /\ symOf[n] \notin DOMAIN frame
ParamIsFunc   == ~C!ParamsApart(prog)
TooManyArgs   == \E n \in NodeIds : IsType(n, "FUNC_DEF") /\ Len(Nodes[n].params) > NArg

Meaning == C!Meaning(prog)

-----------------------------------------------------------------------------
(* Properties.                                                             *)

(* An emitted program computes what the source means in C.                 *)
Translates ==
    run = "exited" /\ ~clash /\ ~FallsIntoElse /\ ~OpenEnded /\ ~AssignsParam
      /\ ~EffectAfterLogic /\ ~LosesFrame /\ ~TooManyArgs /\ ~ParamIsFunc /\ Meaning.defined
    => R!Status = Meaning.value

(* It ends through the exit system call, never by a jump out of the text.  *)
NeverWild ==
    run = "wild" => \/ clash \/ OpenEnded \/ LosesFrame \/ TooManyArgs \/ ParamIsFunc
                    \/ ~Meaning.defined

(* Every return restores the stack and frame pointer of the call and goes  *)
(* back behind it.                                                         *)
CallsBalanced ==
    \/ R!ReturnsToCaller
    \/ clash \/ OpenEnded \/ AssignsParam \/ LosesFrame \/ TooManyArgs \/ ParamIsFunc

-----------------------------------------------------------------------------
(* What the documentation says without those exceptions.                   *)

AgreesWithC == run = "exited" /\ Meaning.defined => R!Status = Meaning.value

=============================================================================
