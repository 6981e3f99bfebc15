------------------------------ MODULE CodeGen ------------------------------
(***************************************************************************)
(* The code generator, src/asm.c: a recursive walk over the checked tree   *)
(* that emits RV32 assembly, taking temporaries from a pool of NTemp       *)
(* registers and spilling the live ones to the stack frame around calls.   *)
(*                                                                         *)
(* The C recursion is explicit: ctl is the stack of C activations, the     *)
(* running one last.  An activation records the control point it is at,    *)
(* its AstNode, its loop index or label number k, the one temporary it     *)
(* holds in a local variable across a recursive call (reg), and, for       *)
(* eval_func_call, the temporaries it spilled (freed[]).  An evaluation    *)
(* leaves the register it returns in ret.  One step runs one activation    *)
(* from one recursive call to the next.                                    *)
(*                                                                         *)
(* An instruction is a tuple: the mnemonic and its operands in the order   *)
(* the assembler text has them ("lw rd, imm(rs)" is <<"lw", rd, imm, rs>>).*)
(* A "label" entry is a label definition.  A label is a tuple as well: the *)
(* kind it is made for, the number create_base_cond_label gave it and the  *)
(* ending extend_label gave it; or "func" and the name of a function.      *)
(*                                                                         *)
(* Nothing uses the definitions called Faulty...: each is the definition   *)
(* below it with a mistake in it, and with it in place one of the          *)
(* properties has to fail.                                                 *)
(***************************************************************************)
EXTENDS Ast, Integers, FiniteSets, FiniteSetsExt, SequencesExt

CONSTANTS
    NTemp,     \* temporaries: 7 in make_riscv
    NArg,      \* argument registers: 8 in make_riscv
    WordSize,  \* REGISTER_SIZE
    Lookalikes, \* names a function may have -> the generated label so spelled
    WildSizes, \* what a frame's size may read as through an unset pointer
    Inputs     \* the checked programs gen_asm may be called with

ASSUME SizesAssumption ==
    /\ NTemp \in Nat \ {0}
    /\ NArg \in Nat \ {0}
    /\ WordSize \in Nat \ {0}

(* The frame size is rounded up to whole words.                            *)
ASSUME WordsAssumption == 16 % WordSize = 0

LabelKinds == {"while", "for", "if", "else", "and", "or"}

ASSUME LookalikesAssumption ==
    /\ \A f \in DOMAIN Lookalikes : Lookalikes[f][1] \in LabelKinds
    /\ "_start" \notin DOMAIN Lookalikes

ASSUME WildAssumption == WildSizes \subseteq Nat

ASSUME InputsAssumption == \A i \in Inputs : InputOK(i)

VARIABLES
    input,   \* the program being translated
    ctl,     \* the C activations, outermost first
    ret,     \* the register the last evaluation returned, or NoReg
    free,    \* Register.free of the temporaries
    argReg,  \* symbol -> arg_reg, for the symbols with is_arg_loaded
    counts,  \* while_count, for_count, ... of struct RISCV
    code,    \* what has been written to asm.s
    stage    \* "idle", "running", "done", or how it died

vars == <<input, ctl, ret, free, argReg, counts, code, stage>>

Temps  == 0 .. (NTemp - 1)
NoReg  == -1
RegOrNone == Temps \cup {NoReg}

(* Control points: where an activation stands when it is on top.           *)
(* WaitPoints are resumed by the register an evaluation returned.          *)
EvalWaits  == {"notEnd", "binLeft", "binRight", "asgnL", "asgnR", "callArg"}
StmtWaits  == {"retMove", "ifTest", "varStore", "whileTest",
               "forInit", "forTest", "forEnd", "exprEnd"}
WaitPoints == EvalWaits \cup StmtWaits
EvalPoints == EvalWaits \cup {"eval", "callNext", "callMove"}
StmtPoints == StmtWaits \cup {"gen", "ifElse", "comp", "whileEnd", "forCond",
                              "forStep", "funcEnd", "prog"}
Points     == EvalPoints \cup StmtPoints

Frame == [at : Points, node : Nat, k : Nat, reg : RegOrNone, spilled : SUBSET Temps]

F(pt, n) == [at |-> pt, node |-> n, k |-> 0, reg |-> NoReg, spilled |-> {}]

Top   == ctl[Len(ctl)]
Below == SubSeq(ctl, 1, Len(ctl) - 1)
Node  == input.prog.nodes[Top.node]
Sym   == input.syms[input.symOf[Top.node]]

At(pt)          == stage = "running" /\ Top.at = pt
Evaluating(ty)  == At("eval") /\ Node.type = ty
Generating(ty)  == At("gen") /\ Node.type = ty

Return(r)       == ctl' = Below /\ ret' = r
Become(f)       == ctl' = Append(Below, f) /\ ret' = NoReg
Call(f, pt, n)  == ctl' = Append(Append(Below, f), F(pt, n)) /\ ret' = NoReg
Resume(pt)      == [Top EXCEPT !.at = pt]

Emit(instrs)    == code' = code \o instrs
EmitNothing     == UNCHANGED code

-----------------------------------------------------------------------------
(* Registers and the frame layout.                                         *)

T(i) == <<"t", i>>
A(i) == <<"a", i>>
FP   == <<"s", 0>>
SP   == <<"sp", 0>>
RA   == <<"ra", 0>>
ZERO == <<"zero", 0>>

(* The code writes the formula twice: gen_func_def and gen_ret.            *)
FaultyFrameSize(locals) ==
    LET size == WordSize * 2 + locals + WordSize * (NTemp + NArg * 2)
    IN  size + ((16 - (size % 16)) % 16)
FrameSize(locals) ==
    LET size == WordSize * 2 + locals + WordSize * (NTemp + NArg * 2)
    IN  size + (16 - (size % 16))
FaultyRetFrameSize(locals) ==
    LET size == WordSize * 2 + locals + WordSize * (NTemp + NArg)
    IN  size + (16 - (size % 16))
RetFrameSize(locals) ==
    LET size == WordSize * 2 + locals + WordSize * (NTemp + NArg * 2)
    IN  size + (16 - (size % 16))

LocalBase  == WordSize * (3 + NArg)
FaultyArgHome(i) == WordSize * (2 + i)
ArgHome(i) == WordSize * (3 + i)

LoadFp(r, off)  == <<"lw", r, -off, FP>>
StoreFp(r, off) == <<"sw", r, -off, FP>>
LoadImm(r, v)   == <<"addi", r, ZERO, v>>
Define(l)       == <<"label", l>>

RestoreFrame(size) ==
    << <<"lw", RA, size - WordSize, SP>>,
       <<"lw", FP, size - WordSize * 2, SP>>,
       <<"addi", SP, SP, size>> >>
JumpBack == << <<"jalr", RA>> >>

(* alloc_register takes the first free one, and perror + exit(1) if none.  *)
FreeTemps  == {r \in Temps : free[r]}
First      == Min(FreeTemps)
Second     == Min(FreeTemps \ {First})
FaultyTakeFirst == free
TakeFirst  == [free EXCEPT ![First] = FALSE]
Release(r) == [free EXCEPT ![r] = TRUE]

(* The registers the running activation allocates before it calls or       *)
(* returns.                                                                *)
Demand ==
    CASE Top.at = "eval" /\ Node.type \in {"INT_CONST", "IDENT", "LVAL", "UNARY_EXPR"} -> 1
      [] Top.at = "binRight" /\ Node.op_type \in OneRegOps -> 1
      [] Top.at = "binRight" /\ Node.op_type \in TwoRegOps -> 2
      [] Top.at = "callMove" -> 1
      [] OTHER -> 0
Supplied ==
    CASE Demand = 0 -> TRUE
      [] Demand = 1 -> FreeTemps # {}
      [] Demand = 2 -> \E r \in FreeTemps : FreeTemps \ {r} # {}

Label(kind, n, part) == <<kind, n, part>>
NameLabel(f) == IF f \in DOMAIN Lookalikes THEN Lookalikes[f] ELSE Label("func", f, "")
FaultyCount(kinds) == UNCHANGED counts
Count(kinds)   == counts' = [c \in LabelKinds |->
                               IF c \in kinds THEN counts[c] + 1 ELSE counts[c]]

-----------------------------------------------------------------------------
(* Expressions: eval_asm and what it dispatches to.                        *)

NoFreeRegister ==
    /\ stage = "running" /\ ~Supplied
    /\ stage' = "exit1"
    /\ UNCHANGED <<input, ctl, ret, free, argReg, counts, code>>

EvalIntConst ==
    /\ Evaluating("INT_CONST") /\ Supplied
    /\ Emit(<<LoadImm(T(First), Node.number)>>)
    /\ free' = TakeFirst
    /\ Return(First)
    /\ UNCHANGED <<input, argReg, counts, stage>>

(* A constant's value, an argument's home slot, or a local's slot.         *)
EvalIdent ==
    /\ Evaluating("IDENT") /\ Supplied
    /\ LET s == input.symOf[Top.node] IN
       Emit(<< IF Sym.kind = "CONST" THEN LoadImm(T(First), Sym.const)
               ELSE IF s \in DOMAIN argReg THEN LoadFp(T(First), ArgHome(argReg[s]))
               ELSE LoadFp(T(First), LocalBase + Sym.offset) >>)
    /\ free' = TakeFirst
    /\ Return(First)
    /\ UNCHANGED <<input, argReg, counts, stage>>

(* eval_lval reads the offset field of the symbol whatever the symbol is.  *)
EvalLval ==
    /\ Evaluating("LVAL") /\ Supplied
    /\ LET s == input.syms[input.symOf[Node.ident]] IN
       Emit(<<LoadImm(T(First), LocalBase + s.offset)>>)
    /\ free' = TakeFirst
    /\ Return(First)
    /\ UNCHANGED <<input, argReg, counts, stage>>

EvalUnary ==
    /\ Evaluating("UNARY_EXPR") /\ Supplied
    /\ free' = TakeFirst
    /\ Call([Resume("notEnd") EXCEPT !.reg = First], "eval", Node.postfix_expr)
    /\ EmitNothing
    /\ UNCHANGED <<input, argReg, counts, stage>>

UnaryEnd ==
    /\ At("notEnd")
    /\ Emit(<< <<"seqz", T(Top.reg), T(ret)>> >>)
    /\ free' = Release(ret)
    /\ Return(Top.reg)
    /\ UNCHANGED <<input, argReg, counts, stage>>

EvalBinExp ==
    /\ Evaluating("BIN_EXP")
    /\ Call(Resume("binLeft"), "eval", Node.left)
    /\ EmitNothing
    /\ UNCHANGED <<input, free, argReg, counts, stage>>

BinLeft ==
    /\ At("binLeft")
    /\ Call([Resume("binRight") EXCEPT !.reg = ret], "eval", Node.right)
    /\ EmitNothing
    /\ UNCHANGED <<input, free, argReg, counts, stage>>

(* + - * / leave the result in the left register and free the right one.   *)
BinInPlace ==
    /\ At("binRight") /\ Node.op_type \in InPlaceOps
    /\ LET op == CASE Node.op_type = "+" -> "add" [] Node.op_type = "-" -> "sub"
                   [] Node.op_type = "*" -> "mul" [] Node.op_type = "/" -> "div"
       IN  Emit(<< <<op, T(Top.reg), T(Top.reg), T(ret)>> >>)
    /\ free' = Release(ret)
    /\ Return(Top.reg)
    /\ UNCHANGED <<input, argReg, counts, stage>>

FaultyFreeBothKeep(rd) == [free EXCEPT ![rd] = FALSE, ![Top.reg] = TRUE]
FreeBothKeep(rd) == [free EXCEPT ![rd] = FALSE, ![Top.reg] = TRUE, ![ret] = TRUE]

OneRegCode(op, rd, l, r) ==
    CASE op = "==" -> << <<"sub", rd, r, l>>, <<"seqz", rd, rd>> >>
      [] op = "!=" -> << <<"sub", rd, r, l>>, <<"snez", rd, rd>> >>
      [] op = "<"  -> << <<"slt", rd, l, r>> >>
      [] op = ">"  -> << <<"slt", rd, r, l>> >>
      [] op = "<<" -> << <<"sll", rd, l, r>> >>
      [] op = ">>" -> << <<"sra", rd, l, r>> >>
      [] op = "&"  -> << <<"and", rd, l, r>> >>
      [] op = "|"  -> << <<"or",  rd, l, r>> >>
      [] op = "^"  -> << <<"xor", rd, l, r>> >>

BinOneReg ==
    /\ At("binRight") /\ Node.op_type \in OneRegOps \ {"&&", "||"} /\ Supplied
    /\ Emit(OneRegCode(Node.op_type, T(First), T(Top.reg), T(ret)))
    /\ free' = FreeBothKeep(First)
    /\ Return(First)
    /\ UNCHANGED <<input, argReg, counts, stage>>

(* Both operands have been evaluated by now: the branches only combine     *)
(* their values.                                                           *)
LogCode(kind, branch, onJump, rd, l, r) ==
    LET out == Label(kind, counts[kind], IF onJump = 0 THEN "false" ELSE "true")
        end == Label(kind, counts[kind], "end")
    IN  << <<branch, l, ZERO, out>>, <<branch, r, ZERO, out>>,
           LoadImm(rd, 1 - onJump), <<"j", end>>,
           Define(out), LoadImm(rd, onJump), Define(end) >>

BinLogical ==
    /\ At("binRight") /\ Node.op_type \in {"&&", "||"} /\ Supplied
    /\ IF Node.op_type = "&&"
       THEN Count({"and"}) /\ Emit(LogCode("and", "beq", 0, T(First), T(Top.reg), T(ret)))
       ELSE Count({"or"})  /\ Emit(LogCode("or", "bne", 1, T(First), T(Top.reg), T(ret)))
    /\ free' = FreeBothKeep(First)
    /\ Return(First)
    /\ UNCHANGED <<input, argReg, stage>>

(* <= and >= compute the strict opposite in a second register, flip it     *)
(* into the first and free the second.                                     *)
FaultyStrictOpposite(op, rd, l, r) == IF op = "<=" THEN <<"slt", rd, l, r>> ELSE <<"slt", rd, r, l>>
StrictOpposite(op, rd, l, r)  == IF op = "<=" THEN <<"slt", rd, r, l>> ELSE <<"slt", rd, l, r>>

BinTwoReg ==
    /\ At("binRight") /\ Node.op_type \in TwoRegOps /\ Supplied
    /\ Emit(<< StrictOpposite(Node.op_type, T(Second), T(Top.reg), T(ret)),
               <<"xori", T(First), T(Second), 1>> >>)
    /\ free' = [FreeBothKeep(First) EXCEPT ![Second] = TRUE]
    /\ Return(First)
    /\ UNCHANGED <<input, argReg, counts, stage>>

EvalVarAsgn ==
    /\ Evaluating("VAR_ASGN")
    /\ Call(Resume("asgnL"), "eval", Node.lval)
    /\ EmitNothing
    /\ UNCHANGED <<input, free, argReg, counts, stage>>

AsgnLeft ==
    /\ At("asgnL")
    /\ Call([Resume("asgnR") EXCEPT !.reg = ret], "eval", Node.rval)
    /\ EmitNothing
    /\ UNCHANGED <<input, free, argReg, counts, stage>>

(* The value of an assignment is the register of its right-hand side.      *)
AsgnRight ==
    /\ At("asgnR")
    /\ Emit(<< <<"sub", T(Top.reg), FP, T(Top.reg)>>,
               <<"sw", T(ret), 0, T(Top.reg)>> >>)
    /\ free' = Release(Top.reg)
    /\ Return(ret)
    /\ UNCHANGED <<input, argReg, counts, stage>>

(* eval_asm has no case for an empty expression.                           *)
EvalUnknown ==
    /\ Evaluating("EMPTY_EXPR")
    /\ stage' = "exit1"
    /\ UNCHANGED <<input, ctl, ret, free, argReg, counts, code>>

-----------------------------------------------------------------------------
(* Calls: eval_func_call.  The spill area starts at an offset computed     *)
(* from the frame size of the function being called.                       *)

(* The temporaries in use, and the pool once the saved ones are back.      *)
FaultyLiveOffByOne == (0 .. NTemp) \ FreeTemps
FaultyLiveInverted == FreeTemps
Live         == Temps \ FreeTemps
FaultyReclaim(saved) == free
Reclaim(saved)     == [r \in Temps |-> free[r] /\ r \notin saved]

SpillBase(n) == input.frame[input.symOf[n]] + LocalBase
Ascending(S) == [i \in 1 .. Cardinality(S) |->
                    CHOOSE r \in S : Cardinality({s \in S : s < r}) = i - 1]
SpillSlot(n, i)       == SpillBase(n) + WordSize * i
ArgSlot(n, saved, i)  == SpillSlot(n, Cardinality(saved) + i)

(* Every temporary in use goes to the spill area, and all become free.     *)
EvalFuncCall ==
    /\ Evaluating("FUNC_CALL")
    /\ LET order == Ascending(Live)
       IN  Emit([i \in 1 .. Cardinality(Live) |->
                    StoreFp(T(order[i]), SpillSlot(Top.node, i))])
    /\ Become([Resume("callNext") EXCEPT !.spilled = Live])
    /\ free' = [r \in Temps |-> TRUE]
    /\ UNCHANGED <<input, argReg, counts, stage>>

CallNextArg ==
    /\ At("callNext") /\ Top.k < Len(Node.args)
    /\ Call(Resume("callArg"), "eval", Node.args[Top.k + 1])
    /\ EmitNothing
    /\ UNCHANGED <<input, free, argReg, counts, stage>>

(* The evaluated argument waits in the area after the spilled temporaries. *)
CallStoreArg ==
    /\ At("callArg")
    /\ Emit(<<StoreFp(T(ret), ArgSlot(Top.node, Top.spilled, Top.k + 1))>>)
    /\ free' = Release(ret)
    /\ Become([Resume("callNext") EXCEPT !.k = Top.k + 1])
    /\ UNCHANGED <<input, argReg, counts, stage>>

(* The first NArg arguments are loaded, the call is made, and the spilled  *)
(* temporaries are reloaded, last one first.                               *)
CallJump ==
    /\ At("callNext") /\ Top.k = Len(Node.args)
    /\ LET loads   == [i \in 1 .. Min({NArg, Len(Node.args)}) |->
                         LoadFp(A(i - 1), ArgSlot(Top.node, Top.spilled, i))]
           n       == Cardinality(Top.spilled)
           order   == Ascending(Top.spilled)
           reloads == [i \in 1 .. n |-> LoadFp(T(order[n + 1 - i]), SpillSlot(Top.node, n + 1 - i))]
       IN  Emit(loads \o << <<"jal", NameLabel(Node.value)>> >> \o reloads)
    /\ free' = Reclaim(Top.spilled)
    /\ Become(Resume("callMove"))
    /\ UNCHANGED <<input, argReg, counts, stage>>

CallMove ==
    /\ At("callMove") /\ Supplied
    /\ Emit(<< <<"mv", T(First), A(0)>> >>)
    /\ free' = TakeFirst
    /\ Return(First)
    /\ UNCHANGED <<input, argReg, counts, stage>>

EvalNext ==
    \/ NoFreeRegister \/ EvalIntConst \/ EvalIdent \/ EvalLval
    \/ EvalUnary \/ UnaryEnd
    \/ EvalBinExp \/ BinLeft \/ BinInPlace \/ BinOneReg \/ BinLogical \/ BinTwoReg
    \/ EvalVarAsgn \/ AsgnLeft \/ AsgnRight
    \/ EvalFuncCall \/ CallNextArg \/ CallStoreArg \/ CallJump \/ CallMove
    \/ EvalUnknown

-----------------------------------------------------------------------------
(* Statements: _gen_asm and what it dispatches to.                         *)

(* Give the register of the evaluation that just returned back.            *)
FaultyFreeRet == UNCHANGED free
FreeRet == free' = Release(ret)
Done    == ctl' = Below /\ ret' = NoReg

(* An empty statement, a declaration and an enum emit nothing.             *)
GenNothing ==
    /\ At("gen")
    /\ Node.type \in {"ENUM", "VAR_DEC", "EMPTY_EXPR"}
    /\ Done /\ EmitNothing
    /\ UNCHANGED <<input, free, argReg, counts, stage>>

GenExprStmt ==
    /\ Generating("EXPR_STMT")
    /\ IF input.prog.nodes[Node.expr].type = "EMPTY_EXPR"
       THEN Done
       ELSE Call(Resume("exprEnd"), "eval", Node.expr)
    /\ EmitNothing
    /\ UNCHANGED <<input, free, argReg, counts, stage>>

ExprEnd ==
    /\ At("exprEnd")
    /\ Done /\ FreeRet /\ EmitNothing
    /\ UNCHANGED <<input, argReg, counts, stage>>

GenVarDef ==
    /\ Generating("VAR_DEF")
    /\ Call(Resume("varStore"), "eval", Node.expr)
    /\ EmitNothing
    /\ UNCHANGED <<input, free, argReg, counts, stage>>

VarStore ==
    /\ At("varStore")
    /\ Emit(<<StoreFp(T(ret), LocalBase + Sym.offset)>>)
    /\ Done /\ FreeRet
    /\ UNCHANGED <<input, argReg, counts, stage>>

(* ret->func is the symbol the name of the function resolved to at the     *)
(* return; when that is no function, its frame field was never set, and    *)
(* reading the size through it kills the compiler or finds any size.       *)
ReturnsFrame == input.symOf[Top.node] \in DOMAIN input.frame
RetSizes == IF ReturnsFrame THEN {input.frame[input.symOf[Top.node]]} ELSE WildSizes
Epilogue(locals) == RestoreFrame(RetFrameSize(locals)) \o JumpBack
ReturnsNothing == input.prog.nodes[Node.expr].type = "EMPTY_EXPR"

GenRetEmpty ==
    /\ Generating("RET") /\ ReturnsNothing
    /\ \E locals \in RetSizes : Emit(Epilogue(locals))
    /\ Done
    /\ UNCHANGED <<input, free, argReg, counts, stage>>

GenRet ==
    /\ Generating("RET") /\ ~ReturnsNothing
    /\ Call(Resume("retMove"), "eval", Node.expr)
    /\ EmitNothing
    /\ UNCHANGED <<input, free, argReg, counts, stage>>

RetMove ==
    /\ At("retMove")
    /\ \E locals \in RetSizes : Emit(<< <<"mv", A(0), T(ret)>> >> \o Epilogue(locals))
    /\ Done /\ FreeRet
    /\ UNCHANGED <<input, argReg, counts, stage>>

RetWild ==
    /\ (Generating("RET") /\ ReturnsNothing) \/ At("retMove")
    /\ ~ReturnsFrame
    /\ stage' = "crash"
    /\ UNCHANGED <<input, ctl, ret, free, argReg, counts, code>>

(* gen_if: k keeps the number of the else label.                           *)
GenIf ==
    /\ Generating("IF")
    /\ Count({"if", "else"})
    /\ Emit(<<Define(Label("if", counts["if"], ""))>>)
    /\ Call([Resume("ifTest") EXCEPT !.k = counts["else"]], "eval", Node.if_expr)
    /\ UNCHANGED <<input, free, argReg, stage>>

IfTest ==
    /\ At("ifTest")
    /\ Emit(<< <<"beq", T(ret), ZERO, Label("else", Top.k, "")>> >>)
    /\ FreeRet
    /\ Call(Resume("ifElse"), "gen", Node.if_body)
    /\ UNCHANGED <<input, argReg, counts, stage>>

(* Control falls from the end of the then branch into the else branch.     *)
IfElseBody ==
    /\ At("ifElse")
    /\ Emit(<<Define(Label("else", Top.k, ""))>>)
    /\ IF Node.else_body = NULL THEN Done ELSE Become(F("gen", Node.else_body))
    /\ UNCHANGED <<input, free, argReg, counts, stage>>

GenCompStmt ==
    /\ Generating("COMP_STMT")
    /\ Become(Resume("comp"))
    /\ EmitNothing
    /\ UNCHANGED <<input, free, argReg, counts, stage>>

FaultyCompNext ==
    /\ At("comp")
    /\ IF Top.k < Len(Node.stmts)
       THEN IF input.prog.nodes[Node.stmts[Top.k + 1]].type \in {"ENUM", "VAR_DEC"}
            THEN UNCHANGED <<ctl, ret>>
            ELSE Call([Top EXCEPT !.k = Top.k + 1], "gen", Node.stmts[Top.k + 1])
       ELSE Done
    /\ EmitNothing
    /\ UNCHANGED <<input, free, argReg, counts, stage>>

CompNext ==
    /\ At("comp")
    /\ IF Top.k < Len(Node.stmts)
       THEN Call([Top EXCEPT !.k = Top.k + 1], "gen", Node.stmts[Top.k + 1])
       ELSE Done
    /\ EmitNothing
    /\ UNCHANGED <<input, free, argReg, counts, stage>>

GenWhile ==
    /\ Generating("WHILE")
    /\ Count({"while"})
    /\ Emit(<<Define(Label("while", counts["while"], "start"))>>)
    /\ Call([Resume("whileTest") EXCEPT !.k = counts["while"]], "eval", Node.expr)
    /\ UNCHANGED <<input, free, argReg, stage>>

WhileTest ==
    /\ At("whileTest")
    /\ Emit(<< <<"beq", T(ret), ZERO, Label("while", Top.k, "end")>> >>)
    /\ FreeRet
    /\ Call(Resume("whileEnd"), "gen", Node.body)
    /\ UNCHANGED <<input, argReg, counts, stage>>

WhileEnd ==
    /\ At("whileEnd")
    /\ Emit(<< <<"j", Label("while", Top.k, "start")>>, Define(Label("while", Top.k, "end")) >>)
    /\ Done
    /\ UNCHANGED <<input, free, argReg, counts, stage>>

ForLabel(part) == Label("for", Top.k, part)

GenFor ==
    /\ Generating("FOR")
    /\ Count({"for"})
    /\ Emit(<<Define(Label("for", counts["for"], "init"))>>)
    /\ LET f == [Top EXCEPT !.k = counts["for"]] IN
       IF input.prog.nodes[Node.init].type \in {"VAR_DEC", "VAR_DEF", "EMPTY_EXPR"}
       THEN Call([f EXCEPT !.at = "forCond"], "gen", Node.init)
       ELSE Call([f EXCEPT !.at = "forInit"], "eval", Node.init)
    /\ UNCHANGED <<input, free, argReg, stage>>

ForInit ==
    /\ At("forInit")
    /\ FreeRet
    /\ Become(Resume("forCond")) /\ EmitNothing
    /\ UNCHANGED <<input, argReg, counts, stage>>

ForCond ==
    /\ At("forCond")
    /\ IF input.prog.nodes[Node.cond].type = "EMPTY_EXPR"
       THEN /\ Emit(<<Define(ForLabel("cond")), Define(ForLabel("body"))>>)
            /\ Call(Resume("forStep"), "gen", Node.body)
       ELSE /\ Emit(<<Define(ForLabel("cond"))>>)
            /\ Call(Resume("forTest"), "eval", Node.cond)
    /\ UNCHANGED <<input, free, argReg, counts, stage>>

ForTest ==
    /\ At("forTest")
    /\ Emit(<< <<"beq", T(ret), ZERO, ForLabel("end")>>, Define(ForLabel("body")) >>)
    /\ FreeRet
    /\ Call(Resume("forStep"), "gen", Node.body)
    /\ UNCHANGED <<input, argReg, counts, stage>>

LoopBack == << <<"j", ForLabel("cond")>>, Define(ForLabel("end")) >>

ForStep ==
    /\ At("forStep")
    /\ IF input.prog.nodes[Node.step].type = "EMPTY_EXPR"
       THEN Emit(<<Define(ForLabel("step"))>> \o LoopBack) /\ Done
       ELSE /\ Emit(<<Define(ForLabel("step"))>>)
            /\ Call(Resume("forEnd"), "eval", Node.step)
    /\ UNCHANGED <<input, free, argReg, counts, stage>>

ForEnd ==
    /\ At("forEnd")
    /\ Emit(LoopBack)
    /\ Done /\ FreeRet
    /\ UNCHANGED <<input, argReg, counts, stage>>

StmtNext ==
    \/ GenNothing \/ GenExprStmt \/ ExprEnd \/ GenVarDef \/ VarStore
    \/ GenRetEmpty \/ GenRet \/ RetMove \/ RetWild \/ GenIf \/ IfTest \/ IfElseBody
    \/ GenCompStmt \/ CompNext \/ GenWhile \/ WhileTest \/ WhileEnd
    \/ GenFor \/ ForInit \/ ForCond \/ ForTest \/ ForStep \/ ForEnd

-----------------------------------------------------------------------------
(* Functions and the program: gen_func_def, gen_asm.                       *)

FuncSize == FrameSize(input.frame[input.symOf[Top.node]])

ArgIndex(ps, s) == CHOOSE i \in 0 .. Len(ps) - 1 : ps[i + 1] = s

(* Its parameters become loadable arguments; the prologue builds the frame *)
(* and saves all argument registers in their home slots.                   *)
GenFuncDef ==
    /\ Generating("FUNC_DEF")
    /\ LET params == input.params[input.symOf[Top.node]]
           size   == FuncSize
       IN  /\ argReg' = [s \in DOMAIN argReg \cup Range(params) |->
                            IF s \in Range(params)
                            THEN ArgIndex(params, s) ELSE argReg[s]]
           /\ Emit(<< Define(NameLabel(Node.value)), <<"addi", SP, SP, -size>>,
                      <<"sw", RA, size - WordSize, SP>>,
                      <<"sw", FP, size - WordSize * 2, SP>>,
                      <<"addi", FP, SP, size>> >>
                   \o [i \in 1 .. NArg |-> StoreFp(A(i - 1), ArgHome(i - 1))])
    /\ Call(Resume("funcEnd"), "gen", Node.body)
    /\ UNCHANGED <<input, free, counts, stage>>

(* Only a void function restores the frame at its closing brace.           *)
FuncEnd ==
    /\ At("funcEnd")
    /\ Emit((IF Node.ctype = "void" THEN RestoreFrame(FuncSize) ELSE <<>>) \o JumpBack)
    /\ Done
    /\ UNCHANGED <<input, free, argReg, counts, stage>>

GenProg ==
    /\ At("prog")
    /\ IF Top.k < Len(input.prog.funcs)
       THEN /\ Call([Top EXCEPT !.k = Top.k + 1], "gen", input.prog.funcs[Top.k + 1])
            /\ UNCHANGED stage
       ELSE Done /\ stage' = "done"
    /\ EmitNothing
    /\ UNCHANGED <<input, free, argReg, counts>>

Startup == << Define(NameLabel("_start")), <<"call", NameLabel("main")>>,
              <<"li", A(7), 93>>, <<"ecall">> >>

(* gen_asm(i): make_riscv, the start-up code, then the functions in order. *)
GenAsm(i) ==
    /\ stage = "idle"
    /\ stage' = "running"
    /\ input' = i
    /\ code' = Startup
    /\ ctl' = <<F("prog", NULL)>>
    /\ UNCHANGED <<ret, free, argReg, counts>>

(* The process has ended.                                                  *)
Stopped == stage \in {"done", "exit1", "crash"} /\ UNCHANGED vars

Idle == [prog |-> [nodes |-> <<>>, funcs |-> <<>>], syms |-> <<>>,
         symOf |-> <<>>, frame |-> <<>>, params |-> <<>>]

Init ==
    /\ input = Idle
    /\ ctl = <<>>
    /\ ret = NoReg
    /\ free = [r \in Temps |-> TRUE]
    /\ argReg = <<>>
    /\ counts = [c \in LabelKinds |-> 0]
    /\ code = <<>>
    /\ stage = "idle"

GenNext == EvalNext \/ StmtNext \/ GenFuncDef \/ FuncEnd \/ GenProg

Next == (stage = "idle" /\ \E i \in Inputs : GenAsm(i)) \/ GenNext \/ Stopped

Spec == Init /\ [][Next]_vars

(* The compiler is one process that runs until it ends.                    *)
FairSpec == Spec /\ WF_vars(GenNext)

-----------------------------------------------------------------------------
(* Properties.                                                             *)

(* Every variable holds what its declaration says; in particular no step   *)
(* takes, returns or spills a register that the pool does not have.        *)
TypeOK ==
    /\ ctl \in Seq(Frame)
    /\ ret \in RegOrNone
    /\ free \in [Temps -> BOOLEAN]
    /\ counts \in [LabelKinds -> Nat]
    /\ \A s \in DOMAIN argReg : argReg[s] \in Nat
    /\ stage \in {"idle", "running", "done", "exit1", "crash"}
    /\ stage = "running" => ctl # <<>>

(* eval_func_call frees every temporary while it evaluates the arguments,  *)
(* so an activation's register is in the pool's accounting only up to the  *)
(* next pending call.  HeldBelow(c, j): the registers held by the          *)
(* activations of the stack c below position j that no pending call        *)
(* separates from it.                                                      *)
Open(f)           == f.at \in {"callNext", "callArg"}
SameCall(c, i, j) == \A k \in (i + 1) .. (j - 1) : ~Open(c[k])
HeldBelow(c, j)   == {c[i].reg : i \in {h \in 1 .. (j - 1) : SameCall(c, h, j)}} \ {NoReg}
Held              == HeldBelow(ctl, Len(ctl) + 1)

(* A temporary is marked in use exactly when a computation that has not    *)
(* finished needs its value: no leak and no register given out twice.      *)
PoolIsExact ==
    stage = "running" => /\ Temps \ FreeTemps = Held \cup ({ret} \ {NoReg})
                         /\ ret \notin Held

(* No two unfinished computations hold the same temporary.                 *)
OneHolder == \A j \in DOMAIN ctl : ctl[j].reg \notin HeldBelow(ctl, j)

(* A pending call has spilled exactly the registers that its callers in    *)
(* the same expression hold.                                               *)
SpilledIsHeld ==
    \A j \in DOMAIN ctl : Open(ctl[j]) => ctl[j].spilled = HeldBelow(ctl, j)

(* Every statement starts with the whole pool free, so the number of       *)
(* registers a function needs is that of its largest expression.           *)
StatementsStartFree ==
    stage = "running" /\ Top.at \in StmtPoints \ StmtWaits => FreeTemps = Temps

NewCode == SubSeq(code', Len(code) + 1, Len(code'))
Writers == {"addi", "add", "sub", "mul", "div", "slt", "sll", "sra", "and", "or",
            "xor", "xori", "seqz", "snez", "lw", "mv"}

(* No instruction overwrites a temporary whose value an enclosing          *)
(* computation is still to use, the reloads after a call excepted.         *)
PendingValuesKept ==
    [][ At("callNext") \/ \A i \in DOMAIN NewCode :
          NewCode[i][1] \in Writers =>
             \A r \in HeldBelow(ctl, Len(ctl)) : NewCode[i][2] # T(r) ]_vars

(* What the assembler and the linker need of a finished file: each label   *)
(* is defined once, and every branch goes to a defined label.              *)
Labels   == {i \in DOMAIN code : code[i][1] = "label"}
Branches == {"beq", "bne", "j", "jal", "call"}
Target(ins) == ins[Len(ins)]
Assembles ==
    /\ \A i, j \in Labels : code[i][2] = code[j][2] => i = j
    /\ \A i \in DOMAIN code : code[i][1] \in Branches
          => \E l \in Labels : code[l][2] = Target(code[i])

(* The names of functions are labels too.  Nothing in the compiler asks    *)
(* for a main, or for a name that is no label it makes up itself.          *)
Linkable(p) == /\ "main" \in FuncNames(p)
               /\ FuncNames(p) \cap (DOMAIN Lookalikes \cup {"_start"}) = {}

(* The output of a program that has a main and whose functions have names  *)
(* of their own can be assembled and linked: a construct whose body held   *)
(* others of its kind still ends at its own labels, a call has a callee.   *)
LabelsResolve == stage = "done" /\ Linkable(input.prog) => Assembles

(* Immediates are 12 bits wide.                                            *)
Immediate(ins) == CASE ins[1] \in {"addi", "xori"} -> ins[4]
                    [] ins[1] \in {"lw", "sw"}     -> ins[3]
                    [] OTHER -> 0
ImmediatesFit == \A i \in DOMAIN code : Immediate(code[i]) \in -2048 .. 2047

(* The area a pending call uses: its spilled temporaries, then the         *)
(* arguments stored so far.  Offsets are below the frame pointer.          *)
PendingSlots(f) == {SpillSlot(f.node, i) : i \in 1 .. Cardinality(f.spilled) + f.k}
FpStores  == {-NewCode[i][3] : i \in {h \in DOMAIN NewCode :
                                  NewCode[h][1] = "sw" /\ NewCode[h][4] = FP}}
CallStep  == Evaluating("FUNC_CALL") \/ At("callArg")
CurLocals == input.frame[input.symOf[ctl[2].node]]
SparesLocals  == \A o \in FpStores : o >= LocalBase + CurLocals
SparesPending == \A o \in FpStores, j \in DOMAIN ctl :
                    Open(ctl[j]) => o \notin PendingSlots(ctl[j])
InsideFrame   == \A o \in FpStores : o <= FrameSize(CurLocals)

(* The area of a call is placed by the frame of the function called and    *)
(* starts over in a nested call.  Even so: it meets no local of the caller *)
(* if the callee has as many locals; it ends inside the caller's frame,    *)
(* with every temporary spilled and every argument register used, if the   *)
(* callee has no more locals; and it meets no area in use if no call       *)
(* around it waits with something stored.  So a call of a function with as *)
(* many locals, like a recursive one, disturbs nothing.                    *)
CalleeLocals == input.frame[input.symOf[Top.node]]
NothingWaits == \A j \in 1 .. Len(ctl) - 1 : Open(ctl[j]) => PendingSlots(ctl[j]) = {}
CallAreaApart ==
    [][ CallStep =>
          /\ CalleeLocals >= CurLocals => SparesLocals
          /\ /\ CalleeLocals <= CurLocals /\ CurLocals % WordSize = 0
             /\ Len(Node.args) <= NArg
             => InsideFrame
          /\ NothingWaits => SparesPending ]_vars

(* Code generation ends, for every program.                                *)
Termination == stage = "running" ~> stage \in {"done", "exit1", "crash"}

=============================================================================
