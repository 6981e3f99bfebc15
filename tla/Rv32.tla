-------------------------------- MODULE Rv32 --------------------------------
(***************************************************************************)
(* The machine the emitted assembly runs on: the assembler, the linker and *)
(* qemu-riscv32 of run_test.sh, which are not part of the repository.      *)
(* What is modelled is the RV32 meaning of the instructions asm.c emits,   *)
(* on words of WordBits bits.                                              *)
(*                                                                         *)
(* A code address is a position in code.  calls is history: for every call *)
(* that has not returned, where it has to return to and the stack and      *)
(* frame pointers it was made with.                                        *)
(***************************************************************************)
EXTENDS Integers, Sequences, SequencesExt
LOCAL INSTANCE Bitwise

CONSTANTS NTemp, NArg, WordSize,
          WordBits,   \* 32 on the machine; smaller here
          StackTop,   \* the initial sp
          Garbage     \* what memory never written reads as

VARIABLES
    code,    \* the program text
    pc, regs, mem,
    calls,   \* the calls in progress
    run      \* "off", "running", "exited", "wild"

machine == <<pc, regs, mem, calls, run>>

Registers == {<<"t", i>> : i \in 0 .. NTemp - 1} \cup {<<"a", i>> : i \in 0 .. NArg - 1}
               \cup {<<"s", 0>>, <<"sp", 0>>, <<"ra", 0>>, <<"a", 7>>}
FP == <<"s", 0>>
SP == <<"sp", 0>>
RA == <<"ra", 0>>

Ins     == code[pc]
Op      == Ins[1]
Val(r)  == IF r = <<"zero", 0>> THEN 0 ELSE regs[r]
Wrap(x) == ((x + 2^(WordBits - 1)) % 2^WordBits) - 2^(WordBits - 1)
Unsign(x) == x % 2^WordBits
Address(label) == CHOOSE i \in DOMAIN code : code[i] = <<"label", label>>

Flag(b) == IF b THEN 1 ELSE 0
Magnitude(x) == IF x < 0 THEN -x ELSE x
Div(l, r) == IF r = 0 THEN -1
             ELSE IF (l < 0) = (r < 0) THEN Magnitude(l) \div Magnitude(r)
             ELSE -(Magnitude(l) \div Magnitude(r))

(* The value an arithmetic instruction gives its first operand.            *)
Result ==
    LET l == Val(Ins[3])
        r == Val(Ins[4])
        shift == Unsign(r) % WordBits
    IN CASE Op = "addi" -> l + Ins[4]
         [] Op = "li"   -> Ins[3]
         [] Op = "mv"   -> l
         [] Op = "add"  -> l + r
         [] Op = "sub"  -> l - r
         [] Op = "mul"  -> l * r
         [] Op = "div"  -> Div(l, r)
         [] Op = "slt"  -> Flag(l < r)
         [] Op = "seqz" -> Flag(l = 0)
         [] Op = "snez" -> Flag(l # 0)
         [] Op = "xori" -> Unsign(l) ^^ Unsign(Ins[4])
         [] Op = "sll"  -> (Unsign(l) % 2^(WordBits - shift)) * 2^shift
         [] Op = "sra"  -> l \div 2^shift
         [] Op = "and"  -> Unsign(l) & Unsign(r)
         [] Op = "or"   -> Unsign(l) | Unsign(r)
         [] Op = "xor"  -> Unsign(l) ^^ Unsign(r)

At(ops) == run = "running" /\ Op \in ops
Goto(target) ==
    /\ pc' = target
    /\ run' = IF target \in DOMAIN code THEN "running" ELSE "wild"

Arith ==
    /\ At({"addi", "li", "mv", "add", "sub", "mul", "div", "slt", "seqz", "snez",
           "xori", "sll", "sra", "and", "or", "xor"})
    /\ regs' = [regs EXCEPT ![Ins[2]] = Wrap(Result)]
    /\ Goto(pc + 1)
    /\ UNCHANGED <<mem, calls>>

(* lw rd, imm(rs) and sw rs2, imm(rs1).                                    *)
Load ==
    /\ At({"lw"})
    /\ LET a == Wrap(Val(Ins[4]) + Ins[3]) IN
       regs' = [regs EXCEPT ![Ins[2]] = IF a \in DOMAIN mem THEN mem[a] ELSE Garbage]
    /\ Goto(pc + 1)
    /\ UNCHANGED <<mem, calls>>

Store ==
    /\ At({"sw"})
    /\ LET a == Wrap(Val(Ins[4]) + Ins[3]) IN
       mem' = [x \in DOMAIN mem \cup {a} |-> IF x = a THEN Val(Ins[2]) ELSE mem[x]]
    /\ Goto(pc + 1)
    /\ UNCHANGED <<regs, calls>>

Branch ==
    /\ At({"beq", "bne"})
    /\ Goto(IF (Val(Ins[2]) = Val(Ins[3])) = (Op = "beq") THEN Address(Ins[4]) ELSE pc + 1)
    /\ UNCHANGED <<regs, mem, calls>>

Jump ==
    /\ At({"j"})
    /\ Goto(Address(Ins[2]))
    /\ UNCHANGED <<regs, mem, calls>>

(* A label takes no space.                                                 *)
Pass ==
    /\ At({"label"})
    /\ Goto(pc + 1)
    /\ UNCHANGED <<regs, mem, calls>>

CallTo ==
    /\ At({"jal", "call"})
    /\ regs' = [regs EXCEPT ![RA] = pc + 1]
    /\ calls' = Append(calls, [back |-> pc + 1, sp |-> regs[SP], fp |-> regs[FP]])
    /\ Goto(Address(Ins[2]))
    /\ UNCHANGED mem

(* jalr ra links as well as jumps.                                         *)
JumpBack ==
    /\ At({"jalr"})
    /\ regs' = [regs EXCEPT ![RA] = pc + 1]
    /\ calls' = IF calls = <<>> THEN <<>> ELSE Front(calls)
    /\ Goto(regs[RA])
    /\ UNCHANGED mem

(* ecall with a7 = 93: exit with status a0.                                *)
Exit ==
    /\ At({"ecall"}) /\ regs[<<"a", 7>>] = 93
    /\ run' = "exited"
    /\ UNCHANGED <<pc, regs, mem, calls>>

Step == Arith \/ Load \/ Store \/ Branch \/ Jump \/ Pass \/ CallTo \/ JumpBack \/ Exit

Off ==
    /\ pc = 1
    /\ regs = [r \in Registers |-> IF r = SP THEN StackTop ELSE 0]
    /\ mem = <<>>
    /\ calls = <<>>
    /\ run = "off"

PowerOn == run = "off" /\ run' = "running" /\ UNCHANGED <<pc, regs, mem, calls>>

Status == regs[<<"a", 0>>]

(* The calling convention: a return goes back behind its call with the     *)
(* stack and frame pointers of the call.                                   *)
ReturnsToCaller ==
    At({"jalr"}) => /\ calls # <<>>
                    /\ LET c == calls[Len(calls)]
                       IN  regs[RA] = c.back /\ regs[SP] = c.sp /\ regs[FP] = c.fp

=============================================================================
