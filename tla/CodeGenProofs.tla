--------------------------- MODULE CodeGenProofs ---------------------------
(***************************************************************************)
(* Proofs about the code generator, for every number of temporaries and    *)
(* argument registers, every word size and every set of checked programs.  *)
(*                                                                         *)
(* None of the properties is inductive by itself: that the pool is exact   *)
(* after a step needs to know which activations hold a register, and that  *)
(* a statement finds the pool free needs every activation below it to hold *)
(* none.  Inv says that, activation by activation (FrameOK); it is         *)
(* preserved because a step only touches the top of the stack: one lemma   *)
(* each for a return (PopKeepsInv), a change of the top (BecomeKeepsInv)   *)
(* and a recursive call (CallKeepsInv), and from these one case per action *)
(* (EvalKeepsInv, StmtKeepsInv, FuncKeepsInv, GenAsmKeepsInv).             *)
(*                                                                         *)
(* The third part proves that the emitted code keeps the values that are   *)
(* still needed (PendingValuesKept).  By Inv an activation of eval_asm     *)
(* emits only writes to registers it has just taken from the pool, which   *)
(* nobody holds, or to the one it holds itself, which is not held below    *)
(* it; nothing is held below a statement.  What a step emits is the tail   *)
(* of the file (NewCode), which needs the file to be a list of             *)
(* instructions: CodeOK.                                                   *)
(*                                                                         *)
(* The fourth part proves that a finished output defines every label it    *)
(* branches to, once (LabelsResolve).  A step emits part of an activation's*)
(* code and leaves the rest to later steps, so the file in between does    *)
(* not have the property.  What is missing is a debt: the labels an        *)
(* activation is still to define (Owes).  LabelInv says that every label   *)
(* that is branched to is defined or owed by an activation, none is both   *)
(* or owed twice, and those an activation will jump back to (Laid) are     *)
(* defined; a step defines what it no longer owes or passes it on (the     *)
(* lemmas ending in Settles), and an empty stack owes nothing.             *)
(*                                                                         *)
(* The last part proves where calls store (CallAreaApart).  The arithmetic *)
(* of the slots (SlotPlaces) needs to know that an argument waited for is  *)
(* one the call has, and that the second activation of the stack works on  *)
(* a function, whose frame has a size: AreaInv.                            *)
(***************************************************************************)
EXTENDS CodeGen, WellFoundedInduction, SequenceTheorems, FiniteSetTheorems, TLAPS

(* A nonempty set of natural numbers has a least element.                  *)
LEMMA LeastElement ==
    ASSUME NEW S \in SUBSET Nat, S # {}
    PROVE  Min(S) \in S
<1> DEFINE Less == {p \in Nat \X Nat : p[1] < p[2]}
<1>1. IsWellFoundedOn(Less, Nat)
  BY NatLessThanWellFounded, Zenon DEF OpToRel
<1>2. PICK x \in S : \A y \in S : ~(<<y, x>> \in Less)
  <2> HIDE DEF Less
  <2> QED BY <1>1, WFMin
<1>3. ASSUME NEW y \in S PROVE x =< y
  <2>1. y < x => <<y, x>> \in Less
    OBVIOUS
  <2> QED BY <1>2, <2>1
<1> QED
  BY <1>3 DEF Min

-----------------------------------------------------------------------------
(* Registers held below a position of a stack.                             *)

(* What the activations up to and including f hold, H being what those     *)
(* below it hold.                                                          *)
Through(f, H) == (IF Open(f) THEN {} ELSE H) \cup ({f.reg} \ {NoReg})

(* One position up, the held registers are those below it plus its own, and*)
(* an open call separates what is below it.                                *)
LEMMA HeldStep ==
    ASSUME NEW c \in Seq(Frame), NEW j \in DOMAIN c
    PROVE  HeldBelow(c, j + 1) = Through(c[j], HeldBelow(c, j))
<1> DEFINE Near(i) == {h \in 1 .. (i - 1) : SameCall(c, h, i)}
<1>1. j \in Nat \ {0} /\ (j + 1) - 1 = j
  OBVIOUS
<1>2. \A h \in 1 .. j : SameCall(c, h, j + 1) <=> h = j \/ (~Open(c[j]) /\ SameCall(c, h, j))
  BY <1>1, SMTT(20) DEF SameCall
<1>3. Near(j + 1) = (IF Open(c[j]) THEN {} ELSE Near(j)) \cup {j}
  BY <1>1, <1>2
<1>4. HeldBelow(c, j + 1) = {c[i].reg : i \in Near(j + 1)} \ {NoReg}
  BY DEF HeldBelow
<1>5. HeldBelow(c, j) = {c[i].reg : i \in Near(j)} \ {NoReg}
  BY DEF HeldBelow
<1> HIDE DEF Near
<1> QED BY <1>3, <1>4, <1>5 DEF Through

(* What is held below a position depends on the stack below it only.       *)
LEMMA HeldPrefix ==
    ASSUME NEW c \in Seq(Frame), NEW d \in Seq(Frame), NEW j \in Nat,
           \A i \in 1 .. (j - 1) : c[i] = d[i]
    PROVE  HeldBelow(c, j) = HeldBelow(d, j)
<1>1. \A h \in 1 .. (j - 1) : SameCall(c, h, j) <=> SameCall(d, h, j)
  BY SMTT(30) DEF SameCall
<1>2. {h \in 1 .. (j - 1) : SameCall(c, h, j)} = {h \in 1 .. (j - 1) : SameCall(d, h, j)}
  BY <1>1
<1> QED BY <1>2 DEF HeldBelow

(* Nothing is held below the outermost activation.                         *)
LEMMA HeldFirst == \A c : HeldBelow(c, 1) = {}
  BY DEF HeldBelow

-----------------------------------------------------------------------------
(* The inductive invariant.                                                *)

Pop(c) == SubSeq(c, 1, Len(c) - 1)

HoldPoints == {"notEnd", "binRight", "asgnR"}

(* What the activation at position j of the stack c relies on: it holds a  *)
(* register exactly at the points between its two operands, its register   *)
(* is not one held below, a call has spilled what was held below it,       *)
(* nothing is held below a statement, and the activation below it waits    *)
(* for a register exactly if it evaluates an expression.                   *)
FrameOK(c, j) ==
    /\ c[j].reg # NoReg <=> c[j].at \in HoldPoints
    /\ c[j].reg \notin HeldBelow(c, j)
    /\ Open(c[j]) => c[j].spilled = HeldBelow(c, j)
    /\ c[j].at \in StmtPoints => HeldBelow(c, j) = {}
    /\ c[j].at = "prog" <=> j = 1
    /\ j > 1 => (c[j - 1].at \in WaitPoints <=> c[j].at \in EvalPoints)

StackOK(c) == \A j \in DOMAIN c : FrameOK(c, j)

(* The type of the node an activation at control point pt works on.        *)
Serves(pt, ty) ==
    /\ pt = "notEnd" => ty = "UNARY_EXPR"
    /\ pt \in {"binLeft", "binRight"} => ty = "BIN_EXP"
    /\ pt \in {"asgnL", "asgnR"} => ty = "VAR_ASGN"
    /\ pt \in {"callNext", "callArg", "callMove"} => ty = "FUNC_CALL"
    /\ pt = "exprEnd" => ty = "EXPR_STMT"
    /\ pt = "varStore" => ty = "VAR_DEF"
    /\ pt = "retMove" => ty = "RET"
    /\ pt \in {"ifTest", "ifElse"} => ty = "IF"
    /\ pt = "comp" => ty = "COMP_STMT"
    /\ pt \in {"whileTest", "whileEnd"} => ty = "WHILE"
    /\ pt \in {"forInit", "forCond", "forTest", "forStep", "forEnd"} => ty = "FOR"
    /\ pt = "funcEnd" => ty = "FUNC_DEF"

Fits(f) ==
    f.at # "prog" => /\ f.node \in DOMAIN input.prog.nodes
                     /\ Serves(f.at, input.prog.nodes[f.node].type)

Using == Temps \ FreeTemps

Inv ==
    /\ TypeOK
    /\ StackOK(ctl)
    /\ stage = "running" => /\ input \in Inputs
                            /\ \A j \in DOMAIN ctl : Fits(ctl[j])
                            /\ ret # NoReg <=> Top.at \in WaitPoints
    /\ stage = "idle" => free = [r \in Temps |-> TRUE] /\ ret = NoReg
    /\ PoolIsExact

-----------------------------------------------------------------------------
(* Operations on a stack.                                                  *)

LEMMA PopFacts ==
    ASSUME NEW c \in Seq(Frame), c # <<>>
    PROVE  /\ Pop(c) \in Seq(Frame)
           /\ Len(Pop(c)) = Len(c) - 1
           /\ \A i \in 1 .. (Len(c) - 1) : Pop(c)[i] = c[i]
           /\ HeldBelow(Pop(c), Len(c)) = HeldBelow(c, Len(c))
<1> DEFINE n == Len(c) - 1
<1>1. n \in Nat /\ \A i \in 1 .. n : c[i] \in Frame
  OBVIOUS
<1>2. /\ SubSeq(c, 1, n) \in Seq(Frame)
      /\ Len(SubSeq(c, 1, n)) = IF 1 <= n THEN n - 1 + 1 ELSE 0
      /\ \A i \in 1 .. n - 1 + 1 : SubSeq(c, 1, n)[i] = c[1 + i - 1]
  <2> HIDE DEF n
  <2> QED BY <1>1, SubSeqProperties
<1>3. /\ Pop(c) \in Seq(Frame)
      /\ Len(Pop(c)) = n
      /\ \A i \in 1 .. n : Pop(c)[i] = c[i]
  <2>1. Pop(c) = SubSeq(c, 1, n)
    BY DEF Pop
  <2> HIDE DEF n
  <2>2. n - 1 + 1 = n /\ (1 <= n \/ n = 0) /\ \A i \in 1 .. n : 1 + i - 1 = i
    BY <1>1
  <2>3. Len(SubSeq(c, 1, n)) = n
    BY <1>2, <2>2
  <2>4. \A i \in 1 .. n : SubSeq(c, 1, n)[i] = c[i]
    BY <1>2, <2>2
  <2> QED BY <1>2, <2>1, <2>3, <2>4
<1>4. n + 1 = Len(c) /\ (n + 1) - 1 = n
  BY <1>1
<1> QED BY <1>1, <1>3, <1>4, HeldPrefix

(* FrameOK of a position depends on the stack up to it only.               *)
LEMMA FrameOKPrefix ==
    ASSUME NEW c \in Seq(Frame), NEW d \in Seq(Frame),
           NEW j \in DOMAIN c, \A i \in 1 .. j : c[i] = d[i], FrameOK(c, j)
    PROVE  FrameOK(d, j)
<1>1. HeldBelow(c, j) = HeldBelow(d, j)
  BY HeldPrefix
<1>2. c[j] = d[j] /\ (j > 1 => c[j - 1] = d[j - 1])
  OBVIOUS
<1> QED BY <1>1, <1>2 DEF FrameOK

(* A stack that is in order stays in order when its top returns.           *)
LEMMA PopOK ==
    ASSUME NEW c \in Seq(Frame), c # <<>>, StackOK(c)
    PROVE  StackOK(Pop(c))
<1> SUFFICES ASSUME NEW j \in DOMAIN Pop(c) PROVE FrameOK(Pop(c), j)
  BY DEF StackOK
<1>1. j \in DOMAIN c /\ \A i \in 1 .. j : c[i] = Pop(c)[i]
  BY PopFacts
<1> QED BY <1>1, PopFacts, FrameOKPrefix DEF StackOK

(* Pushing an activation that fits on a stack.                             *)
LEMMA AppendOK ==
    ASSUME NEW c \in Seq(Frame), StackOK(c), NEW f \in Frame,
           NEW H, H = HeldBelow(c, Len(c) + 1),
           f.reg # NoReg <=> f.at \in HoldPoints,
           f.reg \notin H,
           Open(f) => f.spilled = H,
           f.at \in StmtPoints => H = {},
           f.at = "prog" <=> c = <<>>,
           c # <<>> => (c[Len(c)].at \in WaitPoints <=> f.at \in EvalPoints)
    PROVE  /\ Append(c, f) \in Seq(Frame)
           /\ Len(Append(c, f)) = Len(c) + 1
           /\ StackOK(Append(c, f))
           /\ HeldBelow(Append(c, f), Len(c) + 1) = H
           /\ HeldBelow(Append(c, f), Len(c) + 2) = Through(f, H)
<1> DEFINE d == Append(c, f)
<1>1. /\ d \in Seq(Frame) /\ Len(d) = Len(c) + 1 /\ Len(c) \in Nat
      /\ \A i \in 1 .. Len(c) : d[i] = c[i]
      /\ d[Len(c) + 1] = f
  OBVIOUS
<1> HIDE DEF d
<1>2. HeldBelow(d, Len(c) + 1) = H
  BY <1>1, HeldPrefix
<1>3. HeldBelow(d, Len(c) + 2) = Through(f, H)
  <2>1. Len(c) + 1 \in DOMAIN d /\ (Len(c) + 1) + 1 = Len(c) + 2
    BY <1>1
  <2> QED BY <1>1, <1>2, <2>1, HeldStep
<1>4. ASSUME NEW j \in DOMAIN d PROVE FrameOK(d, j)
  <2>1. CASE j \in 1 .. Len(c)
    BY <1>1, <2>1, FrameOKPrefix DEF StackOK
  <2>2. CASE j = Len(c) + 1
    <3>1. j - 1 = Len(c) /\ (j > 1 <=> c # <<>>) /\ (j > 1 => d[j - 1] = c[Len(c)])
      BY <1>1, <2>2
    <3> QED BY <1>1, <1>2, <2>2, <3>1 DEF FrameOK
  <2> QED BY <1>1, <2>1, <2>2
<1> QED BY <1>1, <1>2, <1>3, <1>4 DEF StackOK, d

-----------------------------------------------------------------------------
(* The four ways a step changes the stack.                                 *)

HeldUnder == HeldBelow(ctl, Len(ctl))

(* The control points fall into classes that do not overlap.               *)
LEMMA PointFacts ==
    /\ "prog" \in StmtPoints /\ "prog" \notin WaitPoints
    /\ \A pt \in Points : pt \in EvalPoints <=> pt \notin StmtPoints
    /\ WaitPoints \subseteq Points /\ HoldPoints \subseteq EvalPoints
    /\ {"eval", "gen"} \subseteq Points \ (WaitPoints \cup HoldPoints)
    /\ "eval" \in EvalPoints /\ "gen" \in StmtPoints
    /\ \A f : Open(f) => f.at \in EvalPoints /\ f.at # "eval"
  BY DEF Points, StmtPoints, EvalPoints, WaitPoints, StmtWaits, EvalWaits, HoldPoints, Open

(* What the invariant says of the running activation.                      *)
LEMMA TopFacts ==
    ASSUME Inv, stage = "running"
    PROVE  /\ Len(ctl) \in Nat \ {0} /\ ctl # <<>> /\ ctl \in Seq(Frame)
           /\ Top \in Frame /\ FrameOK(ctl, Len(ctl)) /\ Fits(Top)
           /\ Using = Through(Top, HeldUnder) \cup ({ret} \ {NoReg})
           /\ ret \notin Through(Top, HeldUnder)
           /\ HeldUnder \subseteq Temps
           /\ Below = Pop(ctl)
           /\ input \in Inputs /\ InputOK(input)
<1>1. ctl \in Seq(Frame) /\ ctl # <<>>
  BY DEF Inv, TypeOK
<1>2. Len(ctl) \in Nat \ {0} /\ Len(ctl) \in DOMAIN ctl /\ Top \in Frame
  BY <1>1 DEF Top
<1>3. Held = Through(Top, HeldUnder)
  BY <1>1, <1>2, HeldStep DEF Held, HeldUnder, Top
<1>4. HeldUnder \subseteq RegOrNone \ {NoReg}
  <2>1. \A i \in 1 .. (Len(ctl) - 1) : ctl[i] \in Frame
    BY <1>1, <1>2
  <2>2. \A f \in Frame : f.reg \in RegOrNone
    BY DEF Frame
  <2> QED BY <2>1, <2>2 DEF HeldUnder, HeldBelow
<1>5. HeldUnder \subseteq Temps
  BY <1>4 DEF RegOrNone
<1>6. FrameOK(ctl, Len(ctl)) /\ Fits(Top)
  BY <1>2 DEF Inv, StackOK, Top
<1>7. input \in Inputs /\ InputOK(input)
  BY InputsAssumption DEF Inv
<1> QED BY <1>1, <1>2, <1>3, <1>5, <1>6, <1>7 DEF Inv, PoolIsExact, Using, Below, Pop

(* The variables no stack operation touches.                               *)
Steady ==
    /\ stage = "running" /\ stage' = stage /\ input' = input
    /\ free' \in [Temps -> BOOLEAN]
    /\ counts' \in [LabelKinds -> Nat]
    /\ \A s \in DOMAIN argReg' : argReg'[s] \in Nat

(* A step that returns keeps the invariant if the pool loses exactly what  *)
(* the activation held and gains the register returned.                    *)
LEMMA PopKeepsInv ==
    ASSUME Inv, Steady, ctl' = Below, ret' \in RegOrNone,
           Top.at # "prog",
           ret' # NoReg <=> Top.at \in EvalPoints,
           ret' \notin HeldUnder,
           Using' = HeldUnder \cup ({ret'} \ {NoReg})
    PROVE  Inv'
<1> DEFINE n == Len(ctl)
<1> stage = "running"
  BY DEF Steady
<1>1. /\ n \in Nat \ {0} /\ n # 1 /\ ctl \in Seq(Frame) /\ ctl # <<>>
      /\ ctl[n - 1].at \in WaitPoints <=> Top.at \in EvalPoints
  <2>1. n \in Nat \ {0} /\ ctl \in Seq(Frame) /\ ctl # <<>> /\ FrameOK(ctl, n)
    BY TopFacts
  <2>2. n # 1
    BY <2>1 DEF FrameOK, Top
  <2>3. n > 1
    <3> HIDE DEF n
    <3>1. n \in Nat /\ n # 0
      BY <2>1
    <3> QED BY <3>1, <2>2
  <2> QED BY <2>1, <2>2, <2>3 DEF FrameOK, Top
<1>2. /\ ctl' \in Seq(Frame) /\ Len(ctl') = n - 1
      /\ \A i \in 1 .. (n - 1) : ctl'[i] = ctl[i]
      /\ HeldBelow(ctl', n) = HeldUnder
      /\ StackOK(ctl')
  BY <1>1, PopFacts, PopOK, TopFacts DEF HeldUnder, Inv
<1>3. ctl' # <<>> /\ Top' = ctl[n - 1]
  BY <1>1, <1>2 DEF Top
<1>4. TypeOK'
  BY <1>2, <1>3 DEF Steady, Inv, TypeOK
<1>5. \A j \in DOMAIN ctl' : Fits(ctl[j]) /\ ctl'[j] = ctl[j]
  BY <1>1, <1>2 DEF Inv
<1>6. \A j \in DOMAIN ctl' : Fits(ctl[j])'
  BY <1>5 DEF Fits, Steady
<1>7. PoolIsExact'
  <2>1. Held' = HeldUnder
    BY <1>1, <1>2 DEF Held
  <2> QED BY <2>1 DEF PoolIsExact, Using
<1> QED BY <1>1, <1>2, <1>3, <1>4, <1>6, <1>7 DEF Inv, Steady

(* The running activation goes on as g.                                    *)
LEMMA BecomeKeepsInv ==
    ASSUME Inv, Steady, NEW g \in Frame, Become(g), Fits(g),
           Top.at # "prog", g.at # "prog",
           g.at \in EvalPoints <=> Top.at \in EvalPoints,
           g.at \notin WaitPoints, g.at \notin HoldPoints, g.reg = NoReg,
           Open(g) => g.spilled = HeldUnder,
           Using' = Through(g, HeldUnder)
    PROVE  Inv'
<1> DEFINE n == Len(ctl)
           b == Below
<1> stage = "running"
  BY DEF Steady
<1>1. /\ n \in Nat \ {0} /\ n # 1 /\ ctl \in Seq(Frame) /\ ctl # <<>>
      /\ b = Pop(ctl) /\ FrameOK(ctl, n) /\ Top \in Frame
  BY TopFacts DEF FrameOK, Top
<1>2. /\ b \in Seq(Frame) /\ Len(b) = n - 1 /\ b # <<>>
      /\ \A i \in 1 .. (n - 1) : b[i] = ctl[i]
      /\ HeldBelow(b, n) = HeldUnder
      /\ StackOK(b)
  <2>1. /\ b \in Seq(Frame) /\ Len(b) = n - 1
        /\ \A i \in 1 .. (n - 1) : b[i] = ctl[i]
        /\ HeldBelow(b, n) = HeldUnder
    BY <1>1, PopFacts DEF HeldUnder
  <2>2. StackOK(b)
    BY <1>1, PopOK DEF Inv
  <2>3. b # <<>>
    BY <1>1, <2>1
  <2> QED BY <2>1, <2>2, <2>3
<1>3. ctl' = Append(b, g) /\ ret' = NoReg
  BY DEF Become
<1> HIDE DEF b
<1>4. g.at \in StmtPoints => HeldUnder = {}
  BY <1>1, PointFacts DEF FrameOK, HeldUnder, Top, Frame
<1>5. b[Len(b)].at \in WaitPoints <=> g.at \in EvalPoints
  BY <1>1, <1>2 DEF FrameOK, Top
<1>6. Len(b) + 1 = n /\ Len(b) + 2 = n + 1 /\ NoReg \notin HeldUnder
  BY <1>1, <1>2 DEF HeldUnder, HeldBelow
<1>7. /\ ctl' \in Seq(Frame) /\ Len(ctl') = n /\ StackOK(ctl')
      /\ HeldBelow(ctl', n + 1) = Through(g, HeldUnder)
  BY <1>2, <1>3, <1>4, <1>5, <1>6, AppendOK
<1>8. Top' = g /\ ctl' # <<>> /\ \A i \in 1 .. (n - 1) : ctl'[i] = ctl[i]
  BY <1>1, <1>2, <1>3, <1>7 DEF Top
<1>9. TypeOK'
  BY <1>3, <1>7, <1>8 DEF Steady, Inv, TypeOK, RegOrNone
<1>10. \A j \in DOMAIN ctl' : Fits(ctl'[j])
  BY <1>1, <1>7, <1>8 DEF Inv, Top
<1>11. \A j \in DOMAIN ctl' : Fits(ctl[j])'
  BY <1>10 DEF Fits, Steady
<1>12. PoolIsExact'
  <2>1. Held' = Through(g, HeldUnder)
    BY <1>7 DEF Held
  <2>2. NoReg \notin Through(g, HeldUnder)
    BY <1>6 DEF Through
  <2> QED BY <1>3, <2>1, <2>2 DEF PoolIsExact, Using
<1> QED BY <1>3, <1>7, <1>8, <1>9, <1>11, <1>12 DEF Inv, Steady

(* The running activation waits as g while it evaluates, or generates code *)
(* for, the node m.                                                        *)
LEMMA CallKeepsInv ==
    ASSUME Inv, Steady, NEW g \in Frame, NEW pt \in {"eval", "gen"},
           NEW m \in Nat, m \in DOMAIN input.prog.nodes,
           Call(g, pt, m), Fits(g),
           g.at = "prog" <=> Top.at = "prog",
           g.at \in EvalPoints <=> Top.at \in EvalPoints,
           g.at \in WaitPoints <=> pt = "eval",
           pt = "gen" => g.at \in StmtPoints,
           g.reg # NoReg <=> g.at \in HoldPoints,
           g.reg \notin HeldUnder,
           Open(g) => g.spilled = HeldUnder,
           Using' = Through(g, HeldUnder)
    PROVE  Inv'
<1> DEFINE n == Len(ctl)
           b == Below
           e == F(pt, m)
           d == Append(b, g)
<1> stage = "running"
  BY DEF Steady
<1>1. /\ n \in Nat \ {0} /\ ctl \in Seq(Frame) /\ ctl # <<>>
      /\ b = Pop(ctl) /\ FrameOK(ctl, n) /\ Top \in Frame
  BY TopFacts
<1>2. /\ b \in Seq(Frame) /\ Len(b) = n - 1 /\ (b = <<>> <=> n = 1)
      /\ \A i \in 1 .. (n - 1) : b[i] = ctl[i]
      /\ HeldBelow(b, n) = HeldUnder
      /\ StackOK(b)
  <2>1. /\ b \in Seq(Frame) /\ Len(b) = n - 1
        /\ \A i \in 1 .. (n - 1) : b[i] = ctl[i]
        /\ HeldBelow(b, n) = HeldUnder
    BY <1>1, PopFacts DEF HeldUnder
  <2>2. StackOK(b)
    BY <1>1, PopOK DEF Inv
  <2>3. b = <<>> <=> n = 1
    BY <1>1, <2>1
  <2> QED BY <2>1, <2>2, <2>3
<1>3. ctl' = Append(d, e) /\ ret' = NoReg
  BY DEF Call
<1>4. /\ e \in Frame /\ e.at = pt /\ e.reg = NoReg /\ e.node = m /\ ~Open(e)
      /\ e.at \notin HoldPoints /\ e.at \notin WaitPoints /\ e.at # "prog"
      /\ e.at \in StmtPoints <=> pt = "gen"
      /\ e.at \in EvalPoints <=> pt = "eval"
  <2>1. pt \in Points /\ NoReg \in RegOrNone
    BY PointFacts DEF RegOrNone
  <2>2. e \in Frame /\ e.at = pt /\ e.reg = NoReg /\ e.node = m
    BY <2>1 DEF F, Frame
  <2> HIDE DEF e
  <2> QED BY <2>2, PointFacts DEF Open
<1> HIDE DEF b, d, e
<1>5. g.at \in StmtPoints => HeldUnder = {}
  BY <1>1, PointFacts DEF FrameOK, HeldUnder, Top, Frame
<1>6. b # <<>> => (b[Len(b)].at \in WaitPoints <=> g.at \in EvalPoints)
  <2> SUFFICES ASSUME n # 1 PROVE b[Len(b)].at \in WaitPoints <=> g.at \in EvalPoints
    BY <1>2
  <2>1. n > 1 /\ b[Len(b)] = ctl[n - 1]
    <3> HIDE DEF n
    <3>1. n \in Nat /\ n # 0
      BY <1>1
    <3> QED BY <1>2, <3>1
  <2> QED BY <1>1, <2>1 DEF FrameOK, Top
<1>7. Len(b) + 1 = n /\ Len(b) + 2 = n + 1 /\ NoReg \notin HeldUnder
  BY <1>1, <1>2 DEF HeldUnder, HeldBelow
<1>8. g.at = "prog" <=> b = <<>>
  BY <1>1, <1>2 DEF FrameOK, Top
<1>9. /\ d \in Seq(Frame) /\ Len(d) = n /\ StackOK(d)
      /\ HeldBelow(d, n + 1) = Through(g, HeldUnder)
  BY <1>2, <1>5, <1>6, <1>7, <1>8, AppendOK DEF d
<1>10. d # <<>> /\ d[Len(d)] = g /\ \A i \in 1 .. (n - 1) : d[i] = ctl[i]
  <2>1. /\ d # <<>> /\ d[Len(b) + 1] = g
        /\ \A i \in 1 .. Len(b) : d[i] = b[i]
    BY <1>2, AppendProperties DEF d
  <2>2. 1 .. Len(b) = 1 .. (n - 1)
    BY <1>2
  <2> QED BY <1>2, <1>7, <1>9, <2>1, <2>2
<1>11. NoReg \notin Through(g, HeldUnder) /\ Through(e, Through(g, HeldUnder)) = Through(g, HeldUnder)
  BY <1>4, <1>7 DEF Through
<1>12. g.at \in StmtPoints => Through(g, HeldUnder) = {}
  BY <1>5, PointFacts DEF Through, Frame
<1>13. /\ ctl' \in Seq(Frame) /\ Len(ctl') = n + 1 /\ StackOK(ctl')
       /\ HeldBelow(ctl', n + 2) = Through(g, HeldUnder)
  <2>1. Len(d) + 1 = n + 1 /\ Len(d) + 2 = n + 2
    BY <1>9
  <2>2. e.at \in StmtPoints => Through(g, HeldUnder) = {}
    BY <1>4, <1>12
  <2>3. d[Len(d)].at \in WaitPoints <=> e.at \in EvalPoints
    BY <1>4, <1>10
  <2> QED BY <1>3, <1>4, <1>9, <1>10, <1>11, <2>1, <2>2, <2>3, AppendOK
<1>14. /\ Top' = e /\ ctl' # <<>>
       /\ ctl'[n] = g
       /\ \A i \in 1 .. (n - 1) : ctl'[i] = ctl[i]
  BY <1>1, <1>3, <1>9, <1>10, <1>13 DEF Top
<1>15. TypeOK'
  BY <1>3, <1>13, <1>14 DEF Steady, Inv, TypeOK, RegOrNone
<1>16. Fits(e)
  BY <1>4 DEF Fits, Serves
<1>17. \A j \in DOMAIN ctl' : Fits(ctl'[j])
  <2> SUFFICES ASSUME NEW j \in DOMAIN ctl' PROVE Fits(ctl'[j])
    OBVIOUS
  <2>1. j \in 1 .. (n - 1) \/ j = n \/ j = n + 1
    BY <1>1, <1>13
  <2>2. ctl'[n + 1] = e
    BY <1>13, <1>14 DEF Top
  <2> QED BY <1>1, <1>14, <1>16, <2>1, <2>2 DEF Inv
<1>18. \A j \in DOMAIN ctl' : Fits(ctl[j])'
  BY <1>17 DEF Fits, Steady
<1>19. PoolIsExact'
  <2>1. Held' = Through(g, HeldUnder)
    BY <1>13 DEF Held
  <2> QED BY <1>3, <1>11, <2>1 DEF PoolIsExact, Using
<1> QED BY <1>3, <1>4, <1>13, <1>14, <1>15, <1>18, <1>19 DEF Inv, Steady

-----------------------------------------------------------------------------
(* Facts the actions share.                                                *)

Child(m) == m \in Nat /\ m \in DOMAIN input.prog.nodes

(* The nodes of a checked program are numbered.                            *)
LEMMA ProgramFacts ==
    ASSUME ProgramOK(input.prog)
    PROVE  /\ \A n \in DOMAIN input.prog.nodes :
                 /\ NodeOK(input.prog.nodes, n)
                 /\ n \in Nat /\ 1 .. (n - 1) \subseteq DOMAIN input.prog.nodes
           /\ input.prog.funcs \in Seq({n \in DOMAIN input.prog.nodes :
                                          input.prog.nodes[n].type = "FUNC_DEF"})
<1>1. DOMAIN input.prog.nodes = 1 .. Len(input.prog.nodes) /\ Len(input.prog.nodes) \in Nat
  BY DEF ProgramOK, HeapOK, IsVector
<1>2. \A n \in DOMAIN input.prog.nodes :
          n \in Nat /\ 1 .. (n - 1) \subseteq DOMAIN input.prog.nodes
  BY <1>1
<1> QED BY <1>2 DEF ProgramOK, HeapOK

(* Every child the code generator descends into is a node of the tree.     *)
LEMMA NodeFacts ==
    ASSUME Inv, stage = "running", Top.at # "prog"
    PROVE  /\ Serves(Top.at, Node.type)
           /\ Node.type = "UNARY_EXPR" => Child(Node.postfix_expr)
           /\ Node.type = "BIN_EXP" => Child(Node.left) /\ Child(Node.right)
           /\ Node.type = "FUNC_CALL" => /\ Len(Node.args) \in Nat
                                         /\ \A i \in 1 .. Len(Node.args) : Child(Node.args[i])
           /\ Node.type = "VAR_ASGN" => Child(Node.lval) /\ Child(Node.rval)
           /\ Node.type = "COMP_STMT" => /\ Len(Node.stmts) \in Nat
                                         /\ \A i \in 1 .. Len(Node.stmts) : Child(Node.stmts[i])
           /\ Node.type \in {"EXPR_STMT", "RET", "VAR_DEF"} => Child(Node.expr)
           /\ Node.type = "IF" => /\ Child(Node.if_expr) /\ Child(Node.if_body)
                                  /\ Node.else_body # NULL => Child(Node.else_body)
           /\ Node.type = "WHILE" => Child(Node.expr) /\ Child(Node.body)
           /\ Node.type = "FOR" => /\ Child(Node.init) /\ Child(Node.cond)
                                   /\ Child(Node.step) /\ Child(Node.body)
           /\ Node.type = "FUNC_DEF" => Child(Node.body)
<1> DEFINE Kids == {k \in 1 .. (Top.node - 1) : input.prog.nodes[k].type # "FUNC_DEF"}
<1>1. Top.node \in DOMAIN input.prog.nodes /\ Serves(Top.at, Node.type) /\ Top \in Frame
  BY TopFacts DEF Fits, Node
<1>2. ProgramOK(input.prog)
  BY TopFacts DEF InputOK
<1>3. NodeOK(input.prog.nodes, Top.node) /\ Kids \subseteq DOMAIN input.prog.nodes
  BY <1>1, <1>2, ProgramFacts
<1>4. \A m \in Kids : Child(m)
  <2>1. Top.node \in Nat
    BY <1>1 DEF Frame
  <2> QED BY <1>3, <2>1 DEF Child
<1>5. /\ Node.type = "UNARY_EXPR" => Node.postfix_expr \in Kids
      /\ Node.type = "BIN_EXP" => Node.left \in Kids /\ Node.right \in Kids
      /\ Node.type = "FUNC_CALL" => Node.args \in Seq(Kids)
      /\ Node.type = "VAR_ASGN" => Node.lval \in Kids /\ Node.rval \in Kids
      /\ Node.type = "COMP_STMT" => Node.stmts \in Seq(Kids)
      /\ Node.type \in {"EXPR_STMT", "RET", "VAR_DEF"} => Node.expr \in Kids
      /\ Node.type = "IF" => /\ Node.if_expr \in Kids /\ Node.if_body \in Kids
                             /\ Node.else_body \in Kids \cup {NULL}
      /\ Node.type = "WHILE" => Node.expr \in Kids /\ Node.body \in Kids
      /\ Node.type = "FOR" => /\ Node.init \in Kids /\ Node.cond \in Kids
                              /\ Node.step \in Kids /\ Node.body \in Kids
      /\ Node.type = "FUNC_DEF" => Node.body \in Kids
  BY <1>3 DEF NodeOK, Node
<1> HIDE DEF Kids
<1>6. \A q \in Seq(Kids) : Len(q) \in Nat /\ \A i \in 1 .. Len(q) : Child(q[i])
  BY <1>4
<1> QED BY <1>1, <1>4, <1>5, <1>6

(* An activation that goes on at another control point.                    *)
LEMMA FrameFacts ==
    ASSUME NEW f \in Frame, NEW pt \in Points, NEW g, g = [f EXCEPT !.at = pt]
    PROVE  /\ g \in Frame /\ g.at = pt /\ g.node = f.node
           /\ g.k = f.k /\ g.reg = f.reg /\ g.spilled = f.spilled
  BY DEF Frame

(* The effect on the pool of giving a register back and of taking one.     *)
LEMMA ReleaseFacts ==
    ASSUME TypeOK, NEW r \in Temps, free' = Release(r)
    PROVE  free' \in [Temps -> BOOLEAN] /\ Using' = Using \ {r}
  BY DEF TypeOK, Release, Using, FreeTemps, Temps

(* The register alloc_register takes is a free one of the pool.            *)
LEMMA FirstFacts ==
    ASSUME FreeTemps # {}
    PROVE  First \in Temps /\ First \notin Using /\ free[First]
<1>1. FreeTemps \in SUBSET Nat
  BY DEF FreeTemps, Temps
<1>2. First \in FreeTemps
  BY <1>1, LeastElement DEF First
<1> QED BY <1>2 DEF FreeTemps, Using

(* Taking it leaves the other registers as they are.                       *)
LEMMA TakeFacts ==
    ASSUME TypeOK, FreeTemps # {}, free' = TakeFirst
    PROVE  free' \in [Temps -> BOOLEAN] /\ Using' = Using \cup {First}
<1> DEFINE r == First
<1>1. r \in Temps
  BY FirstFacts
<1>2. free' = [free EXCEPT ![r] = FALSE]
  BY DEF TakeFirst
<1> HIDE DEF r
<1>3. free' \in [Temps -> BOOLEAN] /\ Using' = Using \cup {r}
  BY <1>1, <1>2 DEF TypeOK, Using, FreeTemps, Temps
<1> QED BY <1>3 DEF r

(* The numbers of the labels a step makes are used up, no others.          *)
LEMMA CountsGrow ==
    ASSUME counts \in [LabelKinds -> Nat], NEW kinds, Count(kinds)
    PROVE  /\ counts' \in [LabelKinds -> Nat]
           /\ \A c \in LabelKinds : /\ counts[c] <= counts'[c]
                                    /\ c \in kinds => counts[c] < counts'[c]
  BY DEF Count

(* A step that is supplied finds as many free registers as it asks for.    *)
LEMMA SuppliedFacts ==
    ASSUME Supplied
    PROVE  /\ Top.at = "eval" /\ Node.type \in {"INT_CONST", "IDENT", "LVAL", "UNARY_EXPR"}
                => FreeTemps # {}
           /\ Top.at = "binRight" /\ Node.op_type \in OneRegOps => FreeTemps # {}
           /\ Top.at = "binRight" /\ Node.op_type \in TwoRegOps
                => FreeTemps # {} /\ FreeTemps \ {First} # {}
           /\ Top.at = "callMove" => FreeTemps # {}
<1>1. CASE Top.at = "eval" /\ Node.type \in {"INT_CONST", "IDENT", "LVAL", "UNARY_EXPR"}
  BY <1>1 DEF Supplied, Demand
<1>2. CASE Top.at = "binRight" /\ Node.op_type \in OneRegOps
  <2>1. Node.op_type \notin TwoRegOps
    BY <1>2 DEF OneRegOps, TwoRegOps
  <2>2. Demand = 1
    BY <1>2, <2>1 DEF Demand
  <2> QED BY <1>2, <2>1, <2>2 DEF Supplied
<1>3. CASE Top.at = "binRight" /\ Node.op_type \in TwoRegOps
  <2>1. Node.op_type \notin OneRegOps
    BY <1>3 DEF OneRegOps, TwoRegOps
  <2>2. Demand = 2
    BY <1>3, <2>1 DEF Demand
  <2> QED BY <1>3, <2>1, <2>2 DEF Supplied
<1>4. CASE Top.at = "callMove"
  BY <1>4 DEF Supplied, Demand
<1> QED BY <1>1, <1>2, <1>3, <1>4

-----------------------------------------------------------------------------
(* Expressions.                                                            *)

(* The pool and the stack at the control points of expressions.            *)
LEMMA EvalPointFacts ==
    ASSUME Inv, stage = "running"
    PROVE  /\ Top.at \in {"eval", "callMove"}
                => Using = HeldUnder /\ ret = NoReg /\ Top.reg = NoReg
           /\ Top.at \in {"binLeft", "asgnL"}
                => /\ ret \in Temps /\ ret \notin HeldUnder
                   /\ Using = HeldUnder \cup {ret} /\ Top.reg = NoReg
           /\ Top.at \in {"notEnd", "binRight", "asgnR"}
                => /\ ret \in Temps /\ Top.reg \in Temps /\ ret # Top.reg
                   /\ ret \notin HeldUnder /\ Top.reg \notin HeldUnder
                   /\ Using = HeldUnder \cup {ret, Top.reg}
           /\ Top.at = "callArg"
                => /\ ret \in Temps /\ Using = {ret} /\ Top.reg = NoReg
                   /\ Top.spilled = HeldUnder
           /\ Top.at = "callNext"
                => Using = {} /\ Top.reg = NoReg /\ Top.spilled = HeldUnder
<1>1. /\ FrameOK(ctl, Len(ctl)) /\ Top \in Frame
      /\ Using = Through(Top, HeldUnder) \cup ({ret} \ {NoReg})
      /\ ret \notin Through(Top, HeldUnder)
  BY TopFacts
<1>2. /\ Top.reg # NoReg <=> Top.at \in HoldPoints
      /\ Top.reg \notin HeldUnder
      /\ Open(Top) => Top.spilled = HeldUnder
  BY <1>1 DEF FrameOK, Top, HeldUnder
<1>3. /\ ret # NoReg <=> Top.at \in WaitPoints
      /\ ret \in RegOrNone /\ Top.reg \in RegOrNone
  BY <1>1 DEF Inv, TypeOK, Frame
<1>4. /\ ret = NoReg \/ ret \in Temps
      /\ Top.reg = NoReg \/ Top.reg \in Temps
  BY <1>3 DEF RegOrNone
<1>5. Through(Top, HeldUnder) = (IF Open(Top) THEN {} ELSE HeldUnder) \cup ({Top.reg} \ {NoReg})
  BY DEF Through
<1>6. CASE Top.at \in {"eval", "callMove"}
  BY <1>1, <1>2, <1>3, <1>5, <1>6 DEF Open, HoldPoints, WaitPoints, EvalWaits, StmtWaits
<1>7. CASE Top.at \in {"binLeft", "asgnL"}
  BY <1>1, <1>2, <1>3, <1>4, <1>5, <1>7 DEF Open, HoldPoints, WaitPoints, EvalWaits, StmtWaits
<1>8. CASE Top.at \in {"notEnd", "binRight", "asgnR"}
  BY <1>1, <1>2, <1>3, <1>4, <1>5, <1>8 DEF Open, HoldPoints, WaitPoints, EvalWaits, StmtWaits
<1>9. CASE Top.at \in {"callArg", "callNext"}
  BY <1>1, <1>2, <1>3, <1>4, <1>5, <1>9 DEF Open, HoldPoints, WaitPoints, EvalWaits, StmtWaits
<1> QED BY <1>6, <1>7, <1>8, <1>9

(* An evaluation that takes one register and returns it.                   *)
LEMMA LeafKeepsInv ==
    ASSUME Inv, stage = "running", Top.at \in {"eval", "callMove"}, FreeTemps # {},
           free' = TakeFirst, Return(First), UNCHANGED <<input, argReg, counts, stage>>
    PROVE  Inv'
<1>1. Using = HeldUnder
  BY EvalPointFacts
<1>2. First \in Temps /\ First \notin Using /\ First # NoReg
  BY FirstFacts DEF Temps, NoReg
<1>3. Using' = HeldUnder \cup {First} /\ free' \in [Temps -> BOOLEAN]
  BY <1>1, TakeFacts DEF Inv
<1>4. ctl' = Below /\ ret' = First
  BY DEF Return
<1>5. Steady
  BY <1>3 DEF Steady, Inv, TypeOK
<1>6. Top.at # "prog" /\ Top.at \in EvalPoints
  BY DEF EvalPoints
<1>7. ret' \in RegOrNone
  BY <1>2, <1>4 DEF RegOrNone
<1>8. Using' = HeldUnder \cup ({ret'} \ {NoReg})
  BY <1>2, <1>3, <1>4
<1> QED BY <1>1, <1>2, <1>4, <1>5, <1>6, <1>7, <1>8, PopKeepsInv

(* An operation that turns the registers of its two operands into one.     *)
LEMMA BinaryKeepsInv ==
    ASSUME Inv, stage = "running", Top.at \in {"notEnd", "binRight", "asgnR"},
           ctl' = Below, ret' \in Temps, ret' \notin HeldUnder,
           free' \in [Temps -> BOOLEAN], Using' = HeldUnder \cup {ret'},
           counts' \in [LabelKinds -> Nat], UNCHANGED <<input, argReg, stage>>
    PROVE  Inv'
<1>1. Steady
  BY DEF Steady, Inv, TypeOK
<1>2. Top.at # "prog" /\ Top.at \in EvalPoints
  BY DEF EvalPoints, EvalWaits
<1>3. ret' \in RegOrNone /\ ret' # NoReg
  BY DEF RegOrNone, NoReg, Temps
<1>4. Using' = HeldUnder \cup ({ret'} \ {NoReg})
  BY <1>3
<1> QED BY <1>1, <1>2, <1>3, <1>4, PopKeepsInv

(* The comparison, shift and bitwise operators: a new register takes the   *)
(* result and both operands are given back.                                *)
LEMMA FreeBothFacts ==
    ASSUME Inv, stage = "running", Top.at = "binRight", FreeTemps # {},
           NEW S, S \cap Using = {},
           \A r \in Temps : free'[r] <=> /\ r # First
                                         /\ r \in S \/ r \in {Top.reg, ret} \/ free[r]
    PROVE  Using' = HeldUnder \cup {First} /\ First \notin HeldUnder
<1>1. /\ First \in Temps /\ First \notin Using
      /\ ret \in Temps /\ Top.reg \in Temps
      /\ ret \notin HeldUnder /\ Top.reg \notin HeldUnder
      /\ Using = HeldUnder \cup {ret, Top.reg}
  BY FirstFacts, EvalPointFacts
<1>2. \A r \in Temps : r \in Using <=> ~free[r]
  BY DEF Using, FreeTemps
<1>3. HeldUnder \subseteq Temps
  BY <1>1 DEF Using
<1>4. ASSUME NEW r \in Temps PROVE ~free'[r] <=> r \in HeldUnder \cup {First}
  BY <1>1, <1>2, <1>3
<1>5. Using' = {r \in Temps : ~free'[r]}
  BY DEF Using, FreeTemps, Temps
<1> QED BY <1>1, <1>3, <1>4, <1>5

(* Every step of eval_asm and of what it dispatches to keeps the invariant.*)
LEMMA EvalKeepsInv ==
    ASSUME Inv, EvalNext
    PROVE  Inv'
<1>1. CASE NoFreeRegister
  BY <1>1 DEF NoFreeRegister, Inv, TypeOK, PoolIsExact
<1>2. CASE EvalIntConst
  BY <1>2, SuppliedFacts, LeafKeepsInv DEF EvalIntConst, Evaluating, At
<1>3. CASE EvalIdent
  BY <1>3, SuppliedFacts, LeafKeepsInv DEF EvalIdent, Evaluating, At
<1>4. CASE EvalLval
  BY <1>4, SuppliedFacts, LeafKeepsInv DEF EvalLval, Evaluating, At
<1>5. CASE CallMove
  BY <1>5, SuppliedFacts, LeafKeepsInv DEF CallMove, At
<1>6. CASE EvalUnary
  <2> DEFINE g == [Resume("notEnd") EXCEPT !.reg = First]
  <2>1. /\ stage = "running" /\ Top.at = "eval" /\ Node.type = "UNARY_EXPR" /\ FreeTemps # {}
        /\ free' = TakeFirst /\ Call(g, "eval", Node.postfix_expr)
        /\ UNCHANGED <<input, argReg, counts, stage>>
    BY <1>6, SuppliedFacts DEF EvalUnary, Evaluating, At
  <2>2. /\ Using = HeldUnder /\ First \in Temps /\ First \notin HeldUnder
        /\ Using' = HeldUnder \cup {First} /\ free' \in [Temps -> BOOLEAN]
    BY <2>1, EvalPointFacts, FirstFacts, TakeFacts DEF Inv
  <2>3. Steady
    BY <2>1, <2>2 DEF Steady, Inv, TypeOK
  <2>4. /\ g \in Frame /\ g.at = "notEnd" /\ g.node = Top.node /\ g.reg = First
    <3>1. Top \in Frame /\ "notEnd" \in Points /\ First \in RegOrNone
      BY <2>1, <2>2, TopFacts DEF Points, EvalPoints, EvalWaits, RegOrNone
    <3> QED BY <3>1 DEF Resume, Frame
  <2> HIDE DEF g
  <2>5. Child(Node.postfix_expr) /\ Fits(g)
    BY <2>1, <2>4, NodeFacts, TopFacts DEF Fits, Serves, Node
  <2>6. First # NoReg /\ Using' = Through(g, HeldUnder)
    BY <2>2, <2>4 DEF Through, Open, NoReg, Temps
  <2> QED
    BY <2>1, <2>2, <2>3, <2>4, <2>5, <2>6, CallKeepsInv
       DEF Child, EvalPoints, EvalWaits, WaitPoints, HoldPoints, Open
<1>7. CASE UnaryEnd
  <2>1. /\ stage = "running" /\ Top.at = "notEnd"
        /\ ctl' = Below /\ ret' = Top.reg /\ free' = Release(ret)
        /\ UNCHANGED <<input, argReg, counts, stage>>
    BY <1>7 DEF UnaryEnd, At, Return
  <2>2. /\ ret \in Temps /\ Top.reg \in Temps /\ ret # Top.reg
        /\ ret \notin HeldUnder /\ Top.reg \notin HeldUnder
        /\ Using = HeldUnder \cup {ret, Top.reg}
    BY <2>1, EvalPointFacts
  <2>3. free' \in [Temps -> BOOLEAN] /\ Using' = HeldUnder \cup {Top.reg}
    BY <2>1, <2>2, ReleaseFacts DEF Inv
  <2> QED BY <2>1, <2>2, <2>3, BinaryKeepsInv DEF Inv, TypeOK
<1>8. CASE EvalBinExp
  <2> DEFINE g == Resume("binLeft")
  <2>1. /\ stage = "running" /\ Top.at = "eval" /\ Node.type = "BIN_EXP"
        /\ Call(g, "eval", Node.left) /\ UNCHANGED <<input, free, argReg, counts, stage>>
    BY <1>8 DEF EvalBinExp, Evaluating, At
  <2>2. Using' = HeldUnder /\ Top.reg = NoReg
    BY <2>1, EvalPointFacts DEF Using, FreeTemps
  <2>3. Steady
    BY <2>1 DEF Steady, Inv, TypeOK
  <2>4. g \in Frame /\ g.at = "binLeft" /\ g.node = Top.node /\ g.reg = NoReg
    <3>1. Top \in Frame /\ "binLeft" \in Points
      BY <2>1, TopFacts DEF Points, EvalPoints, EvalWaits
    <3> QED BY <2>2, <3>1, FrameFacts DEF Resume
  <2> HIDE DEF g
  <2>5. Child(Node.left) /\ Fits(g)
    BY <2>1, <2>4, NodeFacts, TopFacts DEF Fits, Serves, Node
  <2>6. Using' = Through(g, HeldUnder) /\ NoReg \notin HeldUnder
    BY <2>2, <2>4 DEF Through, Open, HeldUnder, HeldBelow
  <2> QED
    BY <2>1, <2>3, <2>4, <2>5, <2>6, CallKeepsInv
       DEF Child, EvalPoints, EvalWaits, WaitPoints, HoldPoints, Open
<1>9. CASE BinLeft
  <2> DEFINE g == [Resume("binRight") EXCEPT !.reg = ret]
  <2>1. /\ stage = "running" /\ Top.at = "binLeft"
        /\ Call(g, "eval", Node.right) /\ UNCHANGED <<input, free, argReg, counts, stage>>
    BY <1>9 DEF BinLeft, At
  <2>2. /\ Using' = HeldUnder \cup {ret} /\ ret \in Temps /\ ret \notin HeldUnder
    BY <2>1, EvalPointFacts DEF Using, FreeTemps
  <2>3. Steady
    BY <2>1 DEF Steady, Inv, TypeOK
  <2>4. g \in Frame /\ g.at = "binRight" /\ g.node = Top.node /\ g.reg = ret
    <3>1. Top \in Frame /\ "binRight" \in Points /\ ret \in RegOrNone
      BY <2>1, <2>2, TopFacts DEF Points, EvalPoints, EvalWaits, RegOrNone
    <3> QED BY <3>1 DEF Resume, Frame
  <2> HIDE DEF g
  <2>5. Child(Node.right) /\ Fits(g)
    BY <2>1, <2>4, NodeFacts, TopFacts DEF Fits, Serves, Node
  <2>6. ret # NoReg /\ Using' = Through(g, HeldUnder)
    BY <2>2, <2>4 DEF Through, Open, NoReg, Temps
  <2> QED
    BY <2>1, <2>2, <2>3, <2>4, <2>5, <2>6, CallKeepsInv
       DEF Child, EvalPoints, EvalWaits, WaitPoints, HoldPoints, Open
<1>10. CASE BinInPlace
  <2>1. /\ stage = "running" /\ Top.at = "binRight"
        /\ ctl' = Below /\ ret' = Top.reg /\ free' = Release(ret)
        /\ UNCHANGED <<input, argReg, counts, stage>>
    BY <1>10 DEF BinInPlace, At, Return
  <2>2. /\ ret \in Temps /\ Top.reg \in Temps /\ ret # Top.reg
        /\ ret \notin HeldUnder /\ Top.reg \notin HeldUnder
        /\ Using = HeldUnder \cup {ret, Top.reg}
    BY <2>1, EvalPointFacts
  <2>3. free' \in [Temps -> BOOLEAN] /\ Using' = HeldUnder \cup {Top.reg}
    BY <2>1, <2>2, ReleaseFacts DEF Inv
  <2> QED BY <2>1, <2>2, <2>3, BinaryKeepsInv DEF Inv, TypeOK
<1>11. CASE BinOneReg \/ BinLogical
  <2>1. /\ stage = "running" /\ Top.at = "binRight" /\ FreeTemps # {}
        /\ ctl' = Below /\ ret' = First /\ free' = FreeBothKeep(First)
        /\ UNCHANGED <<input, argReg, stage>>
    BY <1>11, SuppliedFacts DEF BinOneReg, BinLogical, At, Return, OneRegOps
  <2>2. counts' \in [LabelKinds -> Nat]
    BY <1>11 DEF BinOneReg, BinLogical, Count, Inv, TypeOK
  <2>3. /\ First \in Temps /\ First # ret /\ First # Top.reg
        /\ ret \in Temps /\ Top.reg \in Temps
    BY <2>1, FirstFacts, EvalPointFacts
  <2>4. /\ free' \in [Temps -> BOOLEAN]
        /\ \A r \in Temps : free'[r] <=> /\ r # First
                                         /\ r \in {} \/ r \in {Top.reg, ret} \/ free[r]
    BY <2>1, <2>3 DEF FreeBothKeep, Inv, TypeOK
  <2>5. Using' = HeldUnder \cup {First} /\ First \notin HeldUnder
    <3>1. {} \cap Using = {}
      OBVIOUS
    <3> QED BY <2>1, <2>4, <3>1, FreeBothFacts
  <2> QED BY <2>1, <2>2, <2>3, <2>4, <2>5, BinaryKeepsInv
<1>12. CASE BinTwoReg
  <2>1. /\ stage = "running" /\ Top.at = "binRight"
        /\ FreeTemps # {} /\ FreeTemps \ {First} # {}
        /\ ctl' = Below /\ ret' = First
        /\ free' = [FreeBothKeep(First) EXCEPT ![Second] = TRUE]
        /\ UNCHANGED <<input, argReg, counts, stage>>
    BY <1>12, SuppliedFacts DEF BinTwoReg, At, Return
  <2>2. counts' \in [LabelKinds -> Nat]
    BY <2>1 DEF Inv, TypeOK
  <2>3. /\ First \in Temps /\ First # ret /\ First # Top.reg
        /\ ret \in Temps /\ Top.reg \in Temps
    BY <2>1, FirstFacts, EvalPointFacts
  <2>4. Second \in Temps /\ Second \notin Using /\ Second # First
    <3>1. FreeTemps \ {First} \in SUBSET Nat
      BY DEF FreeTemps, Temps
    <3>2. Second \in FreeTemps \ {First}
      BY <2>1, <3>1, LeastElement DEF Second
    <3> QED BY <3>2 DEF FreeTemps, Using
  <2>5. /\ free' \in [Temps -> BOOLEAN]
        /\ \A r \in Temps : free'[r] <=> /\ r # First
                                         /\ r \in {Second} \/ r \in {Top.reg, ret} \/ free[r]
    BY <2>1, <2>3, <2>4 DEF FreeBothKeep, Inv, TypeOK
  <2>6. Using' = HeldUnder \cup {First} /\ First \notin HeldUnder
    <3>1. {Second} \cap Using = {}
      BY <2>4
    <3> QED BY <2>1, <2>5, <3>1, FreeBothFacts
  <2> QED BY <2>1, <2>2, <2>3, <2>5, <2>6, BinaryKeepsInv
<1>13. CASE EvalVarAsgn
  <2> DEFINE g == Resume("asgnL")
  <2>1. /\ stage = "running" /\ Top.at = "eval" /\ Node.type = "VAR_ASGN"
        /\ Call(g, "eval", Node.lval) /\ UNCHANGED <<input, free, argReg, counts, stage>>
    BY <1>13 DEF EvalVarAsgn, Evaluating, At
  <2>2. Using' = HeldUnder /\ Top.reg = NoReg
    BY <2>1, EvalPointFacts DEF Using, FreeTemps
  <2>3. Steady
    BY <2>1 DEF Steady, Inv, TypeOK
  <2>4. g \in Frame /\ g.at = "asgnL" /\ g.node = Top.node /\ g.reg = NoReg
    <3>1. Top \in Frame /\ "asgnL" \in Points
      BY <2>1, TopFacts DEF Points, EvalPoints, EvalWaits
    <3> QED BY <2>2, <3>1, FrameFacts DEF Resume
  <2> HIDE DEF g
  <2>5. Child(Node.lval) /\ Fits(g)
    BY <2>1, <2>4, NodeFacts, TopFacts DEF Fits, Serves, Node
  <2>6. Using' = Through(g, HeldUnder) /\ NoReg \notin HeldUnder
    BY <2>2, <2>4 DEF Through, Open, HeldUnder, HeldBelow
  <2> QED
    BY <2>1, <2>3, <2>4, <2>5, <2>6, CallKeepsInv
       DEF Child, EvalPoints, EvalWaits, WaitPoints, HoldPoints, Open
<1>14. CASE AsgnLeft
  <2> DEFINE g == [Resume("asgnR") EXCEPT !.reg = ret]
  <2>1. /\ stage = "running" /\ Top.at = "asgnL"
        /\ Call(g, "eval", Node.rval) /\ UNCHANGED <<input, free, argReg, counts, stage>>
    BY <1>14 DEF AsgnLeft, At
  <2>2. Using' = HeldUnder \cup {ret} /\ ret \in Temps /\ ret \notin HeldUnder
    BY <2>1, EvalPointFacts DEF Using, FreeTemps
  <2>3. Steady
    BY <2>1 DEF Steady, Inv, TypeOK
  <2>4. g \in Frame /\ g.at = "asgnR" /\ g.node = Top.node /\ g.reg = ret
    <3>1. Top \in Frame /\ "asgnR" \in Points /\ ret \in RegOrNone
      BY <2>1, <2>2, TopFacts DEF Points, EvalPoints, EvalWaits, RegOrNone
    <3> QED BY <3>1 DEF Resume, Frame
  <2> HIDE DEF g
  <2>5. Child(Node.rval) /\ Fits(g)
    BY <2>1, <2>4, NodeFacts, TopFacts DEF Fits, Serves, Node
  <2>6. ret # NoReg /\ Using' = Through(g, HeldUnder)
    BY <2>2, <2>4 DEF Through, Open, NoReg, Temps
  <2> QED
    BY <2>1, <2>2, <2>3, <2>4, <2>5, <2>6, CallKeepsInv
       DEF Child, EvalPoints, EvalWaits, WaitPoints, HoldPoints, Open
<1>15. CASE AsgnRight
  <2>1. /\ stage = "running" /\ Top.at = "asgnR"
        /\ ctl' = Below /\ ret' = ret /\ free' = Release(Top.reg)
        /\ UNCHANGED <<input, argReg, counts, stage>>
    BY <1>15 DEF AsgnRight, At, Return
  <2>2. /\ ret \in Temps /\ Top.reg \in Temps /\ ret # Top.reg
        /\ ret \notin HeldUnder /\ Top.reg \notin HeldUnder
        /\ Using = HeldUnder \cup {ret, Top.reg}
    BY <2>1, EvalPointFacts
  <2>3. free' \in [Temps -> BOOLEAN] /\ Using' = HeldUnder \cup {ret}
    BY <2>1, <2>2, ReleaseFacts DEF Inv
  <2> QED BY <2>1, <2>2, <2>3, BinaryKeepsInv DEF Inv, TypeOK
<1>16. CASE EvalUnknown
  BY <1>16 DEF EvalUnknown, Inv, TypeOK, PoolIsExact
<1>17. CASE EvalFuncCall
  <2> DEFINE g == [Resume("callNext") EXCEPT !.spilled = Using]
  <2>1. /\ stage = "running" /\ Top.at = "eval" /\ Node.type = "FUNC_CALL"
        /\ Become(g) /\ free' = [r \in Temps |-> TRUE]
        /\ UNCHANGED <<input, argReg, counts, stage>>
    BY <1>17 DEF EvalFuncCall, Evaluating, At, Using, Live
  <2>2. Using = HeldUnder /\ Top.reg = NoReg /\ Using \in SUBSET Temps
    BY <2>1, EvalPointFacts DEF Using
  <2>3. free' \in [Temps -> BOOLEAN] /\ Using' = {}
    BY <2>1 DEF Using, FreeTemps, Temps
  <2>4. Steady
    BY <2>1, <2>3 DEF Steady, Inv, TypeOK
  <2>5. /\ g \in Frame /\ g.at = "callNext" /\ g.node = Top.node
        /\ g.reg = NoReg /\ g.spilled = HeldUnder
    <3>1. Top \in Frame /\ "callNext" \in Points
      BY <2>1, TopFacts DEF Points, EvalPoints
    <3> QED BY <2>2, <3>1 DEF Resume, Frame
  <2> HIDE DEF g
  <2>6. Fits(g) /\ Using' = Through(g, HeldUnder)
    BY <2>1, <2>3, <2>5, TopFacts DEF Fits, Serves, Node, Through, Open
  <2> QED
    BY <2>1, <2>4, <2>5, <2>6, BecomeKeepsInv
       DEF EvalPoints, EvalWaits, StmtWaits, WaitPoints, HoldPoints
<1>18. CASE CallNextArg
  <2> DEFINE g == Resume("callArg")
             m == Node.args[Top.k + 1]
  <2>1. /\ stage = "running" /\ Top.at = "callNext" /\ Top.k < Len(Node.args)
        /\ Call(g, "eval", m) /\ UNCHANGED <<input, free, argReg, counts, stage>>
    BY <1>18 DEF CallNextArg, At
  <2>2. Using' = {} /\ Top.reg = NoReg /\ Top.spilled = HeldUnder
    BY <2>1, EvalPointFacts DEF Using, FreeTemps
  <2>3. Steady
    BY <2>1 DEF Steady, Inv, TypeOK
  <2>4. /\ g \in Frame /\ g.at = "callArg" /\ g.node = Top.node
        /\ g.reg = NoReg /\ g.spilled = HeldUnder
    <3>1. Top \in Frame /\ "callArg" \in Points
      BY <2>1, TopFacts DEF Points, EvalPoints, EvalWaits
    <3> QED BY <2>2, <3>1, FrameFacts DEF Resume
  <2>5. Child(m)
    <3>1. Top.at # "prog" /\ Top.k \in Nat
      BY <2>1, TopFacts DEF Frame
    <3>2. /\ Len(Node.args) \in Nat
          /\ \A i \in 1 .. Len(Node.args) : Child(Node.args[i])
      BY <2>1, <3>1, NodeFacts DEF Serves
    <3>3. Top.k + 1 \in 1 .. Len(Node.args)
      BY <2>1, <3>1, <3>2
    <3> QED BY <3>2, <3>3
  <2> HIDE DEF g, m
  <2>6. Fits(g) /\ Using' = Through(g, HeldUnder) /\ NoReg \notin HeldUnder
    BY <2>1, <2>2, <2>4, TopFacts DEF Fits, Serves, Node, Through, Open, HeldUnder, HeldBelow
  <2> QED
    BY <2>1, <2>3, <2>4, <2>5, <2>6, CallKeepsInv
       DEF Child, EvalPoints, EvalWaits, WaitPoints, HoldPoints
<1>19. CASE CallStoreArg
  <2> DEFINE g == [Resume("callNext") EXCEPT !.k = Top.k + 1]
  <2>1. /\ stage = "running" /\ Top.at = "callArg"
        /\ Become(g) /\ free' = Release(ret)
        /\ UNCHANGED <<input, argReg, counts, stage>>
    BY <1>19 DEF CallStoreArg, At
  <2>2. ret \in Temps /\ Using = {ret} /\ Top.reg = NoReg /\ Top.spilled = HeldUnder
    BY <2>1, EvalPointFacts
  <2>3. free' \in [Temps -> BOOLEAN] /\ Using' = {}
    BY <2>1, <2>2, ReleaseFacts DEF Inv
  <2>4. Steady
    BY <2>1, <2>3 DEF Steady, Inv, TypeOK
  <2>5. /\ g \in Frame /\ g.at = "callNext" /\ g.node = Top.node
        /\ g.reg = NoReg /\ g.spilled = HeldUnder
    <3>1. Top \in Frame /\ "callNext" \in Points
      BY <2>1, TopFacts DEF Points, EvalPoints
    <3>2. Top.k + 1 \in Nat
      BY <3>1 DEF Frame
    <3>3. Resume("callNext") \in Frame /\ Resume("callNext").at = "callNext"
          /\ Resume("callNext").node = Top.node /\ Resume("callNext").reg = NoReg
          /\ Resume("callNext").spilled = HeldUnder
      BY <2>2, <3>1, FrameFacts DEF Resume
    <3> QED BY <3>2, <3>3 DEF Frame
  <2> HIDE DEF g
  <2>6. Fits(g) /\ Using' = Through(g, HeldUnder)
    BY <2>1, <2>3, <2>5, TopFacts DEF Fits, Serves, Node, Through, Open
  <2> QED
    BY <2>1, <2>4, <2>5, <2>6, BecomeKeepsInv
       DEF EvalPoints, EvalWaits, StmtWaits, WaitPoints, HoldPoints
<1>20. CASE CallJump
  <2> DEFINE g == Resume("callMove")
  <2>1. /\ stage = "running" /\ Top.at = "callNext" /\ Become(g)
        /\ free' = [r \in Temps |-> free[r] /\ r \notin Top.spilled]
        /\ UNCHANGED <<input, argReg, counts, stage>>
    BY <1>20 DEF CallJump, At, Reclaim
  <2>2. Using = {} /\ Top.reg = NoReg /\ Top.spilled = HeldUnder /\ HeldUnder \subseteq Temps
    BY <2>1, EvalPointFacts, TopFacts
  <2>3. free' \in [Temps -> BOOLEAN] /\ Using' = HeldUnder
    <3>1. \A r \in Temps : free[r] \in BOOLEAN /\ free[r]
      BY <2>2 DEF Using, FreeTemps, Inv, TypeOK
    <3>2. \A r \in Temps : free'[r] <=> r \notin HeldUnder
      BY <2>1, <2>2, <3>1
    <3> QED BY <2>1, <2>2, <3>2 DEF Using, FreeTemps, Temps
  <2>4. Steady
    BY <2>1, <2>3 DEF Steady, Inv, TypeOK
  <2>5. g \in Frame /\ g.at = "callMove" /\ g.node = Top.node /\ g.reg = NoReg
    <3>1. Top \in Frame /\ "callMove" \in Points
      BY <2>1, TopFacts DEF Points, EvalPoints
    <3> QED BY <2>2, <3>1, FrameFacts DEF Resume
  <2> HIDE DEF g
  <2>6. Fits(g) /\ Using' = Through(g, HeldUnder)
    BY <2>1, <2>3, <2>5, TopFacts DEF Fits, Serves, Node, Through, Open
  <2>7. ~Open(g)
    BY <2>5 DEF Open
  <2> QED
    BY <2>1, <2>4, <2>5, <2>6, <2>7, BecomeKeepsInv
       DEF EvalPoints, EvalWaits, StmtWaits, WaitPoints, HoldPoints
<1> QED
  BY <1>1, <1>2, <1>3, <1>4, <1>5, <1>6, <1>7, <1>8, <1>9, <1>10, <1>11, <1>12,
     <1>13, <1>14, <1>15, <1>16, <1>17, <1>18, <1>19, <1>20 DEF EvalNext

-----------------------------------------------------------------------------
(* Statements: nothing is held at their control points but the register    *)
(* that a statement waited for.                                            *)

LEMMA StmtPointFacts ==
    ASSUME Inv, stage = "running", Top.at \in StmtPoints
    PROVE  /\ HeldUnder = {} /\ Top.reg = NoReg
           /\ Top.at \notin StmtWaits => Using = {}
           /\ Top.at \in StmtWaits => ret \in Temps /\ Using = {ret}
<1>1. /\ FrameOK(ctl, Len(ctl)) /\ Top \in Frame
      /\ Using = Through(Top, HeldUnder) \cup ({ret} \ {NoReg})
  BY TopFacts
<1>2. HeldUnder = {} /\ Top.reg = NoReg
  BY <1>1, PointFacts DEF FrameOK, Top, HeldUnder, Frame
<1>3. Using = {ret} \ {NoReg}
  BY <1>1, <1>2 DEF Through
<1>4. Top.at \in WaitPoints <=> Top.at \in StmtWaits
  BY DEF WaitPoints, EvalWaits, StmtPoints, StmtWaits
<1>5. (ret # NoReg <=> Top.at \in StmtWaits) /\ (ret = NoReg \/ ret \in Temps)
  BY <1>4 DEF Inv, TypeOK, RegOrNone
<1> QED BY <1>2, <1>3, <1>5

(* Between two statements the whole pool is free.                          *)
LEMMA StmtPoolFacts ==
    ASSUME Inv, stage = "running", Top.at \in StmtPoints,
           Top.at \in StmtWaits => FreeRet,
           Top.at \notin StmtWaits => UNCHANGED free,
           UNCHANGED <<input, stage>>, counts' \in [LabelKinds -> Nat],
           \A s \in DOMAIN argReg' : argReg'[s] \in Nat
    PROVE  Steady /\ Using' = {}
<1>1. CASE Top.at \in StmtWaits
  <2>1. ret \in Temps /\ Using = {ret} /\ free' = Release(ret)
    BY <1>1, StmtPointFacts DEF FreeRet
  <2>2. free' \in [Temps -> BOOLEAN] /\ Using' = {}
    BY <2>1, ReleaseFacts DEF Inv
  <2> QED BY <2>2 DEF Steady
<1>2. CASE Top.at \notin StmtWaits
  <2>1. Using = {} /\ free' = free
    BY <1>2, StmtPointFacts
  <2>2. free' \in [Temps -> BOOLEAN] /\ Using' = {}
    BY <2>1 DEF Inv, TypeOK, Using, FreeTemps
  <2> QED BY <2>2 DEF Steady
<1> QED BY <1>1, <1>2

(* A statement that ends with the pool free keeps the invariant.           *)
LEMMA StmtDoneKeepsInv ==
    ASSUME Inv, Steady, Using' = {}, Top.at \in StmtPoints \ {"prog"}, Done
    PROVE  Inv'
<1>1. stage = "running" /\ ctl' = Below /\ ret' = NoReg
  BY DEF Steady, Done
<1>2. HeldUnder = {} /\ Top.at \notin EvalPoints
  BY <1>1, StmtPointFacts, TopFacts, PointFacts DEF Frame
<1>3. ret' \in RegOrNone
  BY <1>1 DEF RegOrNone
<1> QED BY <1>1, <1>2, <1>3, PopKeepsInv

(* g is the running activation, moved to the control point pt.             *)
Moved(g, pt) == g \in Frame /\ g.at = pt /\ g.node = Top.node /\ g.reg = Top.reg

(* A statement that goes on to another point keeps the invariant.          *)
LEMMA StmtBecomeKeepsInv ==
    ASSUME Inv, Steady, Using' = {}, Top.at \in StmtPoints \ {"prog"},
           NEW g \in Frame, Become(g), Fits(g), g.reg = NoReg,
           g.at \in StmtPoints \ (StmtWaits \cup {"prog"})
    PROVE  Inv'
<1>1. stage = "running"
  BY DEF Steady
<1>2. HeldUnder = {} /\ Top.at \notin EvalPoints
  BY <1>1, StmtPointFacts, TopFacts, PointFacts DEF Frame
<1>3. g.at \notin EvalPoints /\ g.at \notin HoldPoints /\ ~Open(g) /\ g.at \notin WaitPoints
  BY PointFacts DEF Frame, WaitPoints, EvalWaits, StmtPoints, StmtWaits
<1>4. Using' = Through(g, HeldUnder)
  BY <1>2 DEF Through
<1> QED BY <1>2, <1>3, <1>4, BecomeKeepsInv

(* A statement that calls an evaluation or another statement keeps it.     *)
LEMMA StmtCallKeepsInv ==
    ASSUME Inv, Steady, Using' = {}, Top.at \in StmtPoints,
           NEW pt \in {"eval", "gen"}, NEW at \in StmtPoints, NEW g, Moved(g, at),
           NEW m, Child(m), Call(g, pt, m),
           at = "prog" <=> Top.at = "prog",
           at # "prog" => Serves(at, Node.type),
           at \in StmtWaits <=> pt = "eval"
    PROVE  Inv'
<1>1. stage = "running"
  BY DEF Steady
<1>2. HeldUnder = {} /\ Top.reg = NoReg /\ Top.at \notin EvalPoints
  BY <1>1, StmtPointFacts, TopFacts, PointFacts DEF Frame
<1>3. g \in Frame /\ g.at = at /\ g.node = Top.node /\ g.reg = NoReg
  BY <1>2 DEF Moved
<1>4. /\ g.at \notin EvalPoints /\ g.at \notin HoldPoints /\ ~Open(g)
      /\ g.at \in WaitPoints <=> pt = "eval"
  BY <1>3, PointFacts DEF Frame, WaitPoints, EvalWaits, StmtPoints, StmtWaits
<1>5. Using' = Through(g, HeldUnder)
  BY <1>2, <1>3 DEF Through
<1>6. Fits(g)
  BY <1>1, <1>3, TopFacts DEF Fits, Node
<1> QED BY <1>2, <1>3, <1>4, <1>5, <1>6, CallKeepsInv DEF Child

(* A running statement, moved on, is still an activation on its node.      *)
LEMMA MovedFacts ==
    ASSUME Inv, stage = "running"
    PROVE  /\ \A pt \in StmtPoints : Moved(Resume(pt), pt)
           /\ \A pt \in StmtPoints, k \in Nat : Moved([Resume(pt) EXCEPT !.k = k], pt)
           /\ \A pt \in StmtPoints, k \in Nat : Moved([[Top EXCEPT !.k = k] EXCEPT !.at = pt], pt)
           /\ \A k \in Nat : Moved([Top EXCEPT !.k = k], Top.at)
<1>1. Top \in Frame /\ StmtPoints \subseteq Points
  BY TopFacts DEF Points
<1>2. \A pt \in StmtPoints : Moved(Resume(pt), pt)
  BY <1>1 DEF Moved, Resume, Frame
<1>3. \A k \in Nat : Moved([Top EXCEPT !.k = k], Top.at)
  BY <1>1 DEF Moved, Frame
<1>4. ASSUME NEW pt \in StmtPoints, NEW k \in Nat
      PROVE  Moved([Resume(pt) EXCEPT !.k = k], pt)
  BY <1>1 DEF Moved, Resume, Frame
<1>5. ASSUME NEW pt \in StmtPoints, NEW k \in Nat
      PROVE  Moved([[Top EXCEPT !.k = k] EXCEPT !.at = pt], pt)
  BY <1>1 DEF Moved, Frame
<1> QED BY <1>2, <1>3, <1>4, <1>5

(* Every step of a statement's translation keeps the invariant.            *)
LEMMA StmtKeepsInv ==
    ASSUME Inv, StmtNext
    PROVE  Inv'
<1>1. ASSUME stage = "running", Top.at \in StmtPoints, UNCHANGED <<input, argReg, stage>>,
             Top.at \in StmtWaits => FreeRet,
             Top.at \notin StmtWaits => UNCHANGED free,
             counts' \in [LabelKinds -> Nat]
      PROVE  Steady /\ Using' = {}
  BY <1>1, StmtPoolFacts DEF Inv, TypeOK
<1>2. counts \in [LabelKinds -> Nat]
  BY DEF Inv, TypeOK
<1>3. CASE GenNothing \/ GenRetEmpty
  <2>1. /\ stage = "running" /\ Top.at = "gen" /\ Done
        /\ UNCHANGED <<input, free, argReg, counts, stage>>
    BY <1>3 DEF GenNothing, GenRetEmpty, Generating, At
  <2> QED BY <1>1, <1>2, <2>1, StmtDoneKeepsInv DEF StmtPoints, StmtWaits
<1>4. CASE GenExprStmt \/ GenVarDef \/ GenRet
  <2>1. /\ stage = "running" /\ Top.at = "gen"
        /\ Node.type \in {"EXPR_STMT", "VAR_DEF", "RET"}
        /\ UNCHANGED <<input, free, argReg, counts, stage>>
    BY <1>4 DEF GenExprStmt, GenVarDef, GenRet, Generating, At
  <2>2. \/ Done
        \/ Node.type = "EXPR_STMT" /\ Call(Resume("exprEnd"), "eval", Node.expr)
        \/ Node.type = "VAR_DEF" /\ Call(Resume("varStore"), "eval", Node.expr)
        \/ Node.type = "RET" /\ Call(Resume("retMove"), "eval", Node.expr)
    BY <1>4 DEF GenExprStmt, GenVarDef, GenRet, Generating
  <2>3. Steady /\ Using' = {}
    BY <1>1, <1>2, <2>1 DEF StmtPoints, StmtWaits
  <2>4. Child(Node.expr)
    BY <2>1, NodeFacts
  <2>5. CASE Done
    BY <2>1, <2>3, <2>5, StmtDoneKeepsInv DEF StmtPoints, StmtWaits
  <2>6. ASSUME NEW at \in {"exprEnd", "varStore", "retMove"},
               Serves(at, Node.type), Call(Resume(at), "eval", Node.expr)
        PROVE  Inv'
    <3>1. Moved(Resume(at), at) /\ at \in StmtPoints /\ at \in StmtWaits
      BY <2>1, MovedFacts DEF StmtPoints, StmtWaits
    <3> QED BY <2>1, <2>3, <2>4, <2>6, <3>1, StmtCallKeepsInv DEF StmtPoints, StmtWaits
  <2> QED BY <2>2, <2>5, <2>6 DEF Serves
<1>5. CASE ExprEnd \/ VarStore \/ RetMove \/ ForEnd
  <2>1. /\ stage = "running" /\ Top.at \in {"exprEnd", "varStore", "retMove", "forEnd"}
        /\ Done /\ FreeRet /\ UNCHANGED <<input, argReg, counts, stage>>
    BY <1>5 DEF ExprEnd, VarStore, RetMove, ForEnd, At
  <2> QED BY <1>1, <1>2, <2>1, StmtDoneKeepsInv DEF StmtPoints, StmtWaits
<1>6. CASE RetWild
  BY <1>6 DEF RetWild, Inv, TypeOK, PoolIsExact
<1>7. CASE GenIf \/ GenWhile
  <2>1. /\ stage = "running" /\ Top.at = "gen" /\ Node.type \in {"IF", "WHILE"}
        /\ UNCHANGED <<input, free, argReg, stage>>
    BY <1>7 DEF GenIf, GenWhile, Generating, At
  <2>2. \E k \in Nat :
           \/ Node.type = "IF" /\ Call([Resume("ifTest") EXCEPT !.k = k], "eval", Node.if_expr)
           \/ Node.type = "WHILE" /\ Call([Resume("whileTest") EXCEPT !.k = k], "eval", Node.expr)
    BY <1>2, <1>7 DEF GenIf, GenWhile, Generating, LabelKinds
  <2>3. counts' \in [LabelKinds -> Nat]
    BY <1>2, <1>7, CountsGrow DEF GenIf, GenWhile
  <2>4. Steady /\ Using' = {}
    BY <1>1, <2>1, <2>3 DEF StmtPoints, StmtWaits
  <2>5. /\ Node.type = "IF" => Child(Node.if_expr)
        /\ Node.type = "WHILE" => Child(Node.expr)
    BY <2>1, NodeFacts
  <2>6. ASSUME NEW at \in {"ifTest", "whileTest"}, NEW k \in Nat, NEW m, Child(m),
               Serves(at, Node.type), Call([Resume(at) EXCEPT !.k = k], "eval", m)
        PROVE  Inv'
    <3>1. Moved([Resume(at) EXCEPT !.k = k], at) /\ at \in StmtPoints /\ at \in StmtWaits
      BY <2>1, MovedFacts DEF StmtPoints, StmtWaits
    <3> QED BY <2>1, <2>4, <2>6, <3>1, StmtCallKeepsInv DEF StmtPoints, StmtWaits
  <2> QED BY <2>2, <2>5, <2>6 DEF Serves
<1>8. CASE IfTest \/ WhileTest \/ ForTest
  <2>1. /\ stage = "running" /\ Top.at \in {"ifTest", "whileTest", "forTest"} /\ FreeRet
        /\ UNCHANGED <<input, argReg, counts, stage>>
    BY <1>8 DEF IfTest, WhileTest, ForTest, At
  <2>2. Steady /\ Using' = {}
    BY <1>1, <1>2, <2>1 DEF StmtPoints, StmtWaits
  <2>3. \/ Top.at = "ifTest" /\ Call(Resume("ifElse"), "gen", Node.if_body)
        \/ Top.at = "whileTest" /\ Call(Resume("whileEnd"), "gen", Node.body)
        \/ Top.at = "forTest" /\ Call(Resume("forStep"), "gen", Node.body)
    BY <1>8 DEF IfTest, WhileTest, ForTest, At
  <2>4. /\ Top.at = "ifTest" => Node.type = "IF" /\ Child(Node.if_body)
        /\ Top.at = "whileTest" => Node.type = "WHILE" /\ Child(Node.body)
        /\ Top.at = "forTest" => Node.type = "FOR" /\ Child(Node.body)
    BY <2>1, NodeFacts DEF Serves
  <2>5. ASSUME NEW at \in {"ifElse", "whileEnd", "forStep"}, NEW m, Child(m),
               Serves(at, Node.type), Call(Resume(at), "gen", m)
        PROVE  Inv'
    <3>1. Moved(Resume(at), at) /\ at \in StmtPoints /\ at \notin StmtWaits
      BY <2>1, MovedFacts DEF StmtPoints, StmtWaits
    <3> QED BY <2>1, <2>2, <2>5, <3>1, StmtCallKeepsInv DEF StmtPoints, StmtWaits
  <2> QED BY <2>3, <2>4, <2>5 DEF Serves
<1>9. CASE IfElseBody
  <2>1. /\ stage = "running" /\ Top.at = "ifElse"
        /\ UNCHANGED <<input, free, argReg, counts, stage>>
        /\ IF Node.else_body = NULL THEN Done ELSE Become(F("gen", Node.else_body))
    BY <1>9 DEF IfElseBody, At
  <2>2. Steady /\ Using' = {}
    BY <1>1, <1>2, <2>1 DEF StmtPoints, StmtWaits
  <2>3. CASE Node.else_body = NULL
    BY <2>1, <2>2, <2>3, StmtDoneKeepsInv DEF StmtPoints, StmtWaits
  <2>4. CASE Node.else_body # NULL
    <3> DEFINE g == F("gen", Node.else_body)
    <3>1. Child(Node.else_body)
      BY <2>1, <2>4, NodeFacts DEF Serves
    <3>2. g \in Frame /\ g.at = "gen" /\ g.node = Node.else_body /\ g.reg = NoReg
      BY <3>1, PointFacts DEF F, Frame, Child, RegOrNone
    <3> HIDE DEF g
    <3>3. Fits(g)
      BY <3>1, <3>2 DEF Fits, Serves, Child
    <3>4. Become(g)
      BY <2>1, <2>4 DEF g
    <3> QED BY <2>1, <2>2, <3>2, <3>3, <3>4, StmtBecomeKeepsInv DEF StmtPoints, StmtWaits
  <2> QED BY <2>3, <2>4
<1>10. CASE GenCompStmt \/ ForInit
  <2>1. /\ stage = "running" /\ UNCHANGED <<input, argReg, counts, stage>>
        /\ \/ Top.at = "gen" /\ UNCHANGED free
           \/ Top.at = "forInit" /\ FreeRet
    BY <1>10 DEF GenCompStmt, ForInit, Generating, At
  <2>2. Steady /\ Using' = {}
    BY <1>1, <1>2, <2>1 DEF StmtPoints, StmtWaits
  <2>3. PICK pt \in {"comp", "forCond"} : Become(Resume(pt)) /\ Serves(pt, Node.type)
    <3>1. CASE GenCompStmt
      BY <3>1 DEF GenCompStmt, Generating, Serves
    <3>2. CASE ForInit
      <4>1. Node.type = "FOR"
        BY <2>1, <3>2, NodeFacts DEF ForInit, At, Serves
      <4> QED BY <3>2, <4>1 DEF ForInit, Serves
    <3> QED BY <1>10, <3>1, <3>2
  <2> DEFINE g == Resume(pt)
  <2>4. /\ g \in Frame /\ g.at = pt /\ g.node = Top.node /\ g.reg = NoReg
    BY <2>1, MovedFacts, StmtPointFacts DEF Moved, StmtPoints, StmtWaits
  <2> HIDE DEF g
  <2>5. Fits(g)
    BY <2>1, <2>3, <2>4, TopFacts DEF Fits, Node
  <2>6. Become(g)
    BY <2>3 DEF g
  <2> QED BY <2>1, <2>2, <2>4, <2>5, <2>6, StmtBecomeKeepsInv DEF StmtPoints, StmtWaits
<1>11. CASE CompNext
  <2>1. /\ stage = "running" /\ Top.at = "comp"
        /\ UNCHANGED <<input, free, argReg, counts, stage>>
        /\ IF Top.k < Len(Node.stmts)
           THEN Call([Top EXCEPT !.k = Top.k + 1], "gen", Node.stmts[Top.k + 1])
           ELSE Done
    BY <1>11 DEF CompNext, At
  <2>2. Steady /\ Using' = {}
    BY <1>1, <1>2, <2>1 DEF StmtPoints, StmtWaits
  <2>3. CASE Top.k < Len(Node.stmts)
    <3>1. Top.k \in Nat /\ Top.k + 1 \in Nat
      BY <2>1, TopFacts DEF Frame
    <3>2. /\ Node.type = "COMP_STMT" /\ Len(Node.stmts) \in Nat
          /\ \A i \in 1 .. Len(Node.stmts) : Child(Node.stmts[i])
      BY <2>1, NodeFacts DEF Serves
    <3>3. Child(Node.stmts[Top.k + 1])
      <4>1. Top.k + 1 \in 1 .. Len(Node.stmts)
        BY <2>3, <3>1, <3>2
      <4> QED BY <3>2, <4>1
    <3>4. Moved([Top EXCEPT !.k = Top.k + 1], "comp")
      BY <2>1, <3>1, MovedFacts
    <3> QED
      BY <2>1, <2>2, <2>3, <3>2, <3>3, <3>4, StmtCallKeepsInv DEF StmtPoints, StmtWaits, Serves
  <2>4. CASE ~(Top.k < Len(Node.stmts))
    BY <2>1, <2>2, <2>4, StmtDoneKeepsInv DEF StmtPoints, StmtWaits
  <2> QED BY <2>3, <2>4
<1>12. CASE WhileEnd
  <2>1. /\ stage = "running" /\ Top.at = "whileEnd" /\ Done
        /\ UNCHANGED <<input, free, argReg, counts, stage>>
    BY <1>12 DEF WhileEnd, At
  <2> QED BY <1>1, <1>2, <2>1, StmtDoneKeepsInv DEF StmtPoints, StmtWaits
<1>13. CASE GenFor
  <2>1. /\ stage = "running" /\ Top.at = "gen" /\ Node.type = "FOR"
        /\ UNCHANGED <<input, free, argReg, stage>>
    BY <1>13 DEF GenFor, Generating, At
  <2>2. PICK k \in Nat :
           \/ Call([[Top EXCEPT !.k = k] EXCEPT !.at = "forCond"], "gen", Node.init)
           \/ Call([[Top EXCEPT !.k = k] EXCEPT !.at = "forInit"], "eval", Node.init)
    <3>1. counts["for"] \in Nat
      BY <1>2 DEF LabelKinds
    <3> QED BY <1>13, <3>1 DEF GenFor
  <2>3. counts' \in [LabelKinds -> Nat]
    BY <1>2, <1>13, CountsGrow DEF GenFor
  <2>4. Steady /\ Using' = {}
    BY <1>1, <2>1, <2>3 DEF StmtPoints, StmtWaits
  <2>5. Child(Node.init)
    BY <2>1, NodeFacts
  <2>6. /\ Moved([[Top EXCEPT !.k = k] EXCEPT !.at = "forCond"], "forCond")
        /\ Moved([[Top EXCEPT !.k = k] EXCEPT !.at = "forInit"], "forInit")
    BY <2>1, MovedFacts DEF StmtPoints, StmtWaits
  <2>7. CASE Call([[Top EXCEPT !.k = k] EXCEPT !.at = "forCond"], "gen", Node.init)
    BY <2>1, <2>4, <2>5, <2>6, <2>7, StmtCallKeepsInv DEF StmtPoints, StmtWaits, Serves
  <2>8. CASE Call([[Top EXCEPT !.k = k] EXCEPT !.at = "forInit"], "eval", Node.init)
    BY <2>1, <2>4, <2>5, <2>6, <2>8, StmtCallKeepsInv DEF StmtPoints, StmtWaits, Serves
  <2> QED BY <2>2, <2>7, <2>8
<1>14. CASE ForCond \/ ForStep
  <2>1. /\ stage = "running" /\ Top.at \in {"forCond", "forStep"}
        /\ UNCHANGED <<input, free, argReg, counts, stage>>
    BY <1>14 DEF ForCond, ForStep, At
  <2>2. Steady /\ Using' = {}
    BY <1>1, <1>2, <2>1 DEF StmtPoints, StmtWaits
  <2>3. /\ Node.type = "FOR"
        /\ Child(Node.body) /\ Child(Node.cond) /\ Child(Node.step)
    BY <2>1, NodeFacts DEF Serves
  <2>4. \/ Done
        \/ Call(Resume("forStep"), "gen", Node.body)
        \/ Call(Resume("forTest"), "eval", Node.cond)
        \/ Call(Resume("forEnd"), "eval", Node.step)
    BY <1>14 DEF ForCond, ForStep
  <2>5. CASE Done
    BY <2>1, <2>2, <2>5, StmtDoneKeepsInv DEF StmtPoints, StmtWaits
  <2>6. ASSUME NEW at \in {"forStep", "forTest", "forEnd"}, NEW pt \in {"eval", "gen"},
               NEW m, Child(m), Call(Resume(at), pt, m), pt = "gen" <=> at = "forStep"
        PROVE  Inv'
    <3>1. Moved(Resume(at), at) /\ at \in StmtPoints /\ (at \in StmtWaits <=> pt = "eval")
      BY <2>1, <2>6, MovedFacts DEF StmtPoints, StmtWaits
    <3>2. Serves(at, Node.type) /\ at # "prog" /\ Top.at # "prog" /\ Top.at \in StmtPoints
      BY <2>1, <2>3 DEF Serves, StmtPoints
    <3> QED BY <2>2, <2>6, <3>1, <3>2, StmtCallKeepsInv
  <2> QED BY <2>3, <2>4, <2>5, <2>6
<1> QED
  BY <1>3, <1>4, <1>5, <1>6, <1>7, <1>8, <1>9, <1>10, <1>11, <1>12, <1>13, <1>14 DEF StmtNext

-----------------------------------------------------------------------------
(* Functions and the program.                                              *)

LEMMA FuncKeepsInv ==
    ASSUME Inv, GenFuncDef \/ FuncEnd \/ GenProg
    PROVE  Inv'
<1>1. counts \in [LabelKinds -> Nat] /\ \A s \in DOMAIN argReg : argReg[s] \in Nat
  BY DEF Inv, TypeOK
<1>2. CASE GenFuncDef
  <2> DEFINE params == input.params[input.symOf[Top.node]]
             Here(s) == {i \in 0 .. Len(params) - 1 : params[i + 1] = s}
  <2>1. /\ stage = "running" /\ Top.at = "gen" /\ Node.type = "FUNC_DEF"
        /\ UNCHANGED <<input, free, counts, stage>>
        /\ Call(Resume("funcEnd"), "gen", Node.body)
        /\ argReg' = [s \in DOMAIN argReg \cup Range(params) |->
                        IF s \in Range(params)
                        THEN CHOOSE i \in 0 .. Len(params) - 1 : params[i + 1] = s
                        ELSE argReg[s]]
    BY <1>2 DEF GenFuncDef, Generating, At, ArgIndex
  <2>2. params \in Seq(DOMAIN input.syms)
    <3>1. InputOK(input) /\ Top.node \in DOMAIN input.prog.nodes
      BY <2>1, TopFacts DEF Fits
    <3>2. input.symOf[Top.node] \in DOMAIN input.frame
      BY <2>1, <3>1 DEF InputOK, Node
    <3> QED BY <3>1, <3>2 DEF InputOK
  <2>3. ASSUME NEW s \in Range(params)
        PROVE  (CHOOSE i \in 0 .. Len(params) - 1 : params[i + 1] = s) \in Nat
    <3> HIDE DEF params
    <3>1. PICK j \in DOMAIN params : params[j] = s
      BY DEF Range
    <3>2. Len(params) \in Nat /\ DOMAIN params = 1 .. Len(params)
      BY <2>2
    <3>3. j - 1 \in 0 .. Len(params) - 1 /\ params[(j - 1) + 1] = s
      BY <3>1, <3>2
    <3>4. \E i \in 0 .. Len(params) - 1 : params[i + 1] = s
      BY <3>3
    <3>5. (CHOOSE i \in 0 .. Len(params) - 1 : params[i + 1] = s) \in 0 .. Len(params) - 1
      BY <3>4
    <3> QED BY <3>2, <3>5
  <2>4. \A s \in DOMAIN argReg' : argReg'[s] \in Nat
    <3> HIDE DEF params
    <3> QED BY <1>1, <2>1, <2>3
  <2>5. Steady /\ Using' = {}
    BY <1>1, <2>1, <2>4, StmtPoolFacts DEF StmtPoints, StmtWaits
  <2>6. Child(Node.body) /\ Moved(Resume("funcEnd"), "funcEnd")
    BY <2>1, NodeFacts, MovedFacts DEF StmtPoints
  <2>7. /\ "gen" \in StmtPoints /\ "funcEnd" \in StmtPoints /\ "funcEnd" \notin StmtWaits
        /\ "gen" # "eval"
    BY DEF StmtPoints, StmtWaits
  <2>8. Top.at # "prog" /\ Serves("funcEnd", Node.type)
    BY <2>1 DEF Serves
  <2>9. Call(Resume("funcEnd"), "gen", Node.body) /\ Top.at \in StmtPoints
    BY <2>1, <2>7
  <2> DEFINE g == Resume("funcEnd")
             body == Node.body
  <2>10. Child(body) /\ Moved(g, "funcEnd") /\ Call(g, "gen", body)
    BY <2>6, <2>9
  <2> HIDE DEF g, body
  <2> QED BY ONLY Inv, <2>5, <2>7, <2>8, <2>9, <2>10, StmtCallKeepsInv
<1>3. CASE FuncEnd
  <2>1. /\ stage = "running" /\ Top.at = "funcEnd" /\ Done
        /\ UNCHANGED <<input, free, argReg, counts, stage>>
    BY <1>3 DEF FuncEnd, At
  <2>2. Steady /\ Using' = {}
    BY <1>1, <2>1, StmtPoolFacts DEF StmtPoints, StmtWaits
  <2> QED BY <2>1, <2>2, StmtDoneKeepsInv DEF StmtPoints
<1>4. CASE GenProg
  <2>1. /\ stage = "running" /\ Top.at = "prog"
        /\ UNCHANGED <<input, free, argReg, counts>>
        /\ IF Top.k < Len(input.prog.funcs)
           THEN /\ Call([Top EXCEPT !.k = Top.k + 1], "gen", input.prog.funcs[Top.k + 1])
                /\ UNCHANGED stage
           ELSE Done /\ stage' = "done"
    BY <1>4 DEF GenProg, At
  <2>2. CASE Top.k < Len(input.prog.funcs)
    <3>1. Steady /\ Using' = {}
      BY <1>1, <2>1, <2>2, StmtPoolFacts DEF StmtPoints, StmtWaits
    <3>2. Top.k \in Nat /\ Top.k + 1 \in Nat
      BY <2>1, TopFacts DEF Frame
    <3>3. Child(input.prog.funcs[Top.k + 1])
      <4>1. ProgramOK(input.prog)
        BY <2>1, TopFacts DEF InputOK
      <4>2. input.prog.funcs \in Seq({n \in DOMAIN input.prog.nodes :
                                       input.prog.nodes[n].type = "FUNC_DEF"})
        BY <4>1, ProgramFacts
      <4>3. Top.k + 1 \in 1 .. Len(input.prog.funcs)
        BY <2>2, <3>2, <4>2
      <4>4. input.prog.funcs[Top.k + 1] \in DOMAIN input.prog.nodes
        BY <4>2, <4>3
      <4> QED BY <4>1, <4>4, ProgramFacts DEF Child
    <3>4. Moved([Top EXCEPT !.k = Top.k + 1], "prog")
      BY <2>1, <3>2, MovedFacts
    <3> QED
      BY <2>1, <2>2, <3>1, <3>3, <3>4, StmtCallKeepsInv DEF StmtPoints, StmtWaits
  <2>3. CASE ~(Top.k < Len(input.prog.funcs))
    <3>1. /\ stage' = "done" /\ ctl' = Pop(ctl) /\ ret' = NoReg
          /\ UNCHANGED <<input, free, argReg, counts>>
      BY <2>1, <2>3, TopFacts DEF Done
    <3>2. ctl' \in Seq(Frame) /\ StackOK(ctl')
      BY <2>1, <3>1, TopFacts, PopFacts, PopOK DEF Inv
    <3> QED BY <3>1, <3>2 DEF Inv, TypeOK, PoolIsExact, RegOrNone
  <2> QED BY <2>2, <2>3
<1> QED BY <1>2, <1>3, <1>4

-----------------------------------------------------------------------------
(* The invariant holds in every behaviour.                                 *)

LEMMA InitInv == Init => Inv
<1> SUFFICES ASSUME Init PROVE Inv
  OBVIOUS
<1>1. ctl = <<>> /\ stage = "idle"
  BY DEF Init
<1>2. TypeOK
  BY DEF Init, TypeOK, RegOrNone
<1> QED BY <1>1, <1>2 DEF Init, Inv, StackOK, PoolIsExact

(* The call of gen_asm makes the invariant hold of a running generator.    *)
LEMMA GenAsmKeepsInv ==
    ASSUME Inv, stage = "idle", NEW i \in Inputs, GenAsm(i)
    PROVE  Inv'
<1> DEFINE f == F("prog", NULL)
<1>1. /\ stage' = "running" /\ input' = i /\ ctl' = <<f>>
      /\ UNCHANGED <<ret, free, argReg, counts>>
      /\ free = [r \in Temps |-> TRUE] /\ ret = NoReg
  BY DEF GenAsm, Inv
<1>2. f \in Frame /\ f.at = "prog" /\ f.reg = NoReg
  BY PointFacts DEF F, Frame, Points, StmtPoints, RegOrNone, NULL
<1> HIDE DEF f
<1>3. ctl' \in Seq(Frame) /\ Len(ctl') = 1 /\ ctl'[1] = f /\ Top' = f
  BY <1>1, <1>2 DEF Top
<1>4. f.at \notin HoldPoints /\ f.at \notin WaitPoints /\ ~Open(f)
  BY <1>2 DEF HoldPoints, WaitPoints, EvalWaits, StmtWaits, Open
<1>5. StackOK(ctl')
  <2> SUFFICES ASSUME NEW j \in DOMAIN ctl' PROVE FrameOK(ctl', j)
    BY DEF StackOK
  <2>1. j = 1 /\ HeldBelow(ctl', 1) = {}
    BY <1>3, HeldFirst
  <2> QED BY <1>2, <1>3, <1>4, <2>1 DEF FrameOK
<1>6. TypeOK'
  BY <1>1, <1>3 DEF Inv, TypeOK
<1>7. PoolIsExact'
  <2>1. 1 \in DOMAIN ctl' /\ HeldBelow(ctl', 1) = {}
    BY <1>3, HeldFirst
  <2>2. HeldBelow(ctl', 1 + 1) = Through(f, {})
    BY <1>3, <2>1, HeldStep
  <2>3. Held' = {}
    BY <1>2, <1>3, <2>2 DEF Held, Through
  <2>4. FreeTemps' = Temps
    BY <1>1 DEF FreeTemps, Temps
  <2> QED BY <1>1, <2>3, <2>4 DEF PoolIsExact, Temps
<1>8. \A j \in DOMAIN ctl' : Fits(ctl[j])'
  BY <1>2, <1>3 DEF Fits
<1> QED BY <1>1, <1>2, <1>3, <1>4, <1>5, <1>6, <1>7, <1>8 DEF Inv

(* The invariant is inductive.                                             *)
LEMMA NextKeepsInv == Inv /\ [Next]_vars => Inv'
<1> SUFFICES ASSUME Inv, [Next]_vars PROVE Inv'
  OBVIOUS
<1>1. CASE stage = "idle" /\ \E i \in Inputs : GenAsm(i)
  BY <1>1, GenAsmKeepsInv
<1>2. CASE EvalNext
  BY <1>2, EvalKeepsInv
<1>3. CASE StmtNext
  BY <1>3, StmtKeepsInv
<1>4. CASE GenFuncDef \/ FuncEnd \/ GenProg
  BY <1>4, FuncKeepsInv
<1>5. CASE Stopped \/ UNCHANGED vars
  <2>1. UNCHANGED <<input, ctl, ret, free, argReg, counts, stage>>
    BY <1>5 DEF Stopped, vars
  <2>2. TypeOK' /\ PoolIsExact' /\ Top' = Top
    BY <2>1 DEF Inv, TypeOK, PoolIsExact, Held, FreeTemps, Top
  <2>3. StackOK(ctl')
    BY <2>1 DEF Inv
  <2>4. stage = "running" => \A j \in DOMAIN ctl' : Fits(ctl[j])'
    BY <2>1 DEF Inv, Fits
  <2> QED BY <2>1, <2>2, <2>3, <2>4 DEF Inv
<1> QED BY <1>1, <1>2, <1>3, <1>4, <1>5 DEF Next, GenNext

(* In every behaviour of the code generator the invariant holds.           *)
THEOREM Invariance == Spec => []Inv
  BY InitInv, NextKeepsInv, PTL DEF Spec

(* Whatever checked program is translated, and however many temporaries    *)
(* the machine has, the variables keep their types: no evaluation returns, *)
(* and no activation holds, anything but a register of the pool.           *)
THEOREM TypeCorrect == Spec => []TypeOK
<1>1. Inv => TypeOK
  BY DEF Inv
<1> QED BY <1>1, Invariance, PTL

(* alloc_register and free_register are balanced on every path: a          *)
(* temporary is in use exactly when an unfinished computation needs it.    *)
THEOREM PoolExact == Spec => []PoolIsExact
<1>1. Inv => PoolIsExact
  BY DEF Inv
<1> QED BY <1>1, Invariance, PTL

(* No register is given to two unfinished computations of one expression.  *)
THEOREM HoldersApart == Spec => []OneHolder
<1>1. Inv => OneHolder
  BY DEF Inv, StackOK, FrameOK, OneHolder
<1> QED BY <1>1, Invariance, PTL

(* eval_func_call saves exactly the registers its callers hold.            *)
THEOREM SpillExact == Spec => []SpilledIsHeld
<1>1. Inv => SpilledIsHeld
  BY DEF Inv, StackOK, FrameOK, SpilledIsHeld
<1> QED BY <1>1, Invariance, PTL

(* Every statement finds the whole pool free.                              *)
THEOREM StatementsFindPoolFree == Spec => []StatementsStartFree
<1>1. Inv => StatementsStartFree
  <2> SUFFICES ASSUME Inv, stage = "running", Top.at \in StmtPoints \ StmtWaits
               PROVE  FreeTemps = Temps
    BY DEF StatementsStartFree
  <2>1. Using = {}
    BY StmtPointFacts
  <2> QED BY <2>1 DEF Using, FreeTemps
<1> QED BY <1>1, Invariance, PTL

-----------------------------------------------------------------------------
(* The code emitted and the values still needed.                           *)

IsList(s) == \E S : s \in Seq(S)

CodeOK == IsList(code) /\ (stage = "idle" => ctl = <<>>)

(* An instruction that writes none of the registers held below the running *)
(* activation.                                                             *)
Harmless(ins) == ins[1] \in Writers => \A r \in HeldUnder : ins[2] # T(r)

HarmlessList(s) == IsList(s) /\ \A i \in DOMAIN s : Harmless(s[i])

-----------------------------------------------------------------------------
(* Lists of instructions.                                                  *)

(* A function on 1 .. n is a list.                                         *)
LEMMA FunctionIsList ==
    ASSUME NEW n \in Nat, NEW s, s = [i \in 1 .. n |-> s[i]]
    PROVE  IsList(s) /\ DOMAIN s = 1 .. n
<1> DEFINE S == {s[i] : i \in 1 .. n}
<1>1. s \in [1 .. n -> S]
  OBVIOUS
<1>2. s \in Seq(S)
  BY <1>1
<1> QED BY <1>1, <1>2 DEF IsList

LEMMA TuplesAreLists ==
    /\ IsList(<<>>)
    /\ \A a : IsList(<<a>>)
    /\ \A a, b : IsList(<<a, b>>)
    /\ \A a, b, c : IsList(<<a, b, c>>)
    /\ \A a, b, c, d : IsList(<<a, b, c, d>>)
    /\ \A a, b, c, d, e : IsList(<<a, b, c, d, e>>)
    /\ \A a, b, c, d, e, f : IsList(<<a, b, c, d, e, f>>)
    /\ \A a, b, c, d, e, f, g : IsList(<<a, b, c, d, e, f, g>>)
<1>0. <<>> \in Seq({})
  OBVIOUS
<1>1. ASSUME NEW a
      PROVE  <<a>> \in Seq({a})
  OBVIOUS
<1>2. ASSUME NEW a, NEW b
      PROVE  <<a, b>> \in Seq({a, b})
  OBVIOUS
<1>3. ASSUME NEW a, NEW b, NEW c
      PROVE  <<a, b, c>> \in Seq({a, b, c})
  OBVIOUS
<1>4. ASSUME NEW a, NEW b, NEW c, NEW d
      PROVE  <<a, b, c, d>> \in Seq({a, b, c, d})
  OBVIOUS
<1>5. ASSUME NEW a, NEW b, NEW c, NEW d, NEW e
      PROVE  <<a, b, c, d, e>> \in Seq({a, b, c, d, e})
  OBVIOUS
<1>6. ASSUME NEW a, NEW b, NEW c, NEW d, NEW e, NEW f
      PROVE  <<a, b, c, d, e, f>> \in Seq({a, b, c, d, e, f})
  OBVIOUS
<1>7. ASSUME NEW a, NEW b, NEW c, NEW d, NEW e, NEW f, NEW g
      PROVE  <<a, b, c, d, e, f, g>> \in Seq({a, b, c, d, e, f, g})
  OBVIOUS
<1> QED BY <1>0, <1>1, <1>2, <1>3, <1>4, <1>5, <1>6, <1>7 DEF IsList

(* Two lists in a row are a list of the elements of both.                  *)
LEMMA JoinedLists ==
    ASSUME NEW s, NEW t, IsList(s), IsList(t)
    PROVE  /\ IsList(s \o t)
           /\ SubSeq(s \o t, Len(s) + 1, Len(s \o t)) = t
<1>1. PICK S : s \in Seq(S)
  BY DEF IsList
<1>2. PICK U : t \in Seq(U)
  BY DEF IsList
<1> DEFINE W == S \cup U
<1>3. s \in Seq(W) /\ t \in Seq(W)
  BY <1>1, <1>2
<1> HIDE DEF W
<1>4. /\ s \o t \in Seq(W)
      /\ Len(s \o t) = Len(s) + Len(t)
      /\ \A i \in 1 .. Len(s) + Len(t) :
           (s \o t)[i] = IF i <= Len(s) THEN s[i] ELSE t[i - Len(s)]
  BY <1>3, ConcatProperties
<1>5. SubSeq(s \o t, Len(s) + 1, Len(s \o t)) = t
  BY <1>3, <1>4
<1> QED BY <1>4, <1>5 DEF IsList

(* What a step that emits s adds to the file is s.                         *)
LEMMA EmitFacts ==
    ASSUME IsList(code), NEW s, IsList(s), Emit(s)
    PROVE  IsList(code') /\ NewCode = s
  BY JoinedLists DEF Emit, NewCode

LEMMA EmitNothingFacts ==
    ASSUME IsList(code), UNCHANGED code
    PROVE  IsList(code') /\ NewCode = <<>>
<1>1. PICK S : code \in Seq(S)
  BY DEF IsList
<1>2. Len(code) \in Int /\ Len(code) < Len(code) + 1
  BY <1>1
<1>3. SubSeq(code, Len(code) + 1, Len(code)) = <<>>
  BY <1>2, SubSeqEmpty
<1> QED BY <1>3 DEF NewCode

(* Any number of the temporaries is a number.                              *)
LEMMA CountFacts ==
    ASSUME NEW S \in SUBSET Temps
    PROVE  Cardinality(S) \in Nat
<1>1. NTemp - 1 \in Int /\ 0 \in Int
  BY SizesAssumption
<1>2. IsFiniteSet(Temps)
  BY <1>1, FS_Interval DEF Temps
<1> QED BY <1>2, FS_Subset, FS_CardinalityType

LEMMA SmallerIsNat ==
    ASSUME NEW m \in Nat, NEW n \in Nat
    PROVE  Min({m, n}) \in Nat
<1>1. {m, n} \in SUBSET Nat /\ {m, n} # {}
  OBVIOUS
<1>2. Min({m, n}) \in {m, n}
  BY <1>1, LeastElement
<1> QED BY <1>2

-----------------------------------------------------------------------------
(* Expressions.                                                            *)

(* One instruction whose target nobody holds is harmless.                  *)
LEMMA UnheldIsHarmless ==
    ASSUME NEW r, r \notin HeldUnder, NEW ins, ins[2] = T(r)
    PROVE  Harmless(ins)
  BY DEF Harmless, T

(* A step from one list of instructions, all of them harmless.             *)
Keeps == At("callNext") \/ \A i \in DOMAIN NewCode : Harmless(NewCode[i])

LEMMA QuietKeeps ==
    ASSUME IsList(code), UNCHANGED code
    PROVE  IsList(code') /\ Keeps
  BY EmitNothingFacts DEF Keeps

LEMMA OneKeeps ==
    ASSUME IsList(code), NEW a, Harmless(a), Emit(<<a>>)
    PROVE  IsList(code') /\ Keeps
<1>1. IsList(<<a>>)
  BY TuplesAreLists
<1>2. IsList(code') /\ NewCode = <<a>>
  BY <1>1, EmitFacts
<1>3. \A i \in DOMAIN <<a>> : <<a>>[i] = a
  OBVIOUS
<1> QED BY <1>2, <1>3 DEF Keeps

LEMMA TwoKeep ==
    ASSUME IsList(code), NEW a, NEW b, Harmless(a), Harmless(b), Emit(<<a, b>>)
    PROVE  IsList(code') /\ Keeps
<1>1. IsList(<<a, b>>)
  BY TuplesAreLists
<1>2. IsList(code') /\ NewCode = <<a, b>>
  BY <1>1, EmitFacts
<1>3. \A i \in DOMAIN <<a, b>> : <<a, b>>[i] \in {a, b}
  OBVIOUS
<1> QED BY <1>2, <1>3 DEF Keeps

(* What a step takes from the pool is held by no activation.               *)
LEMMA FreshFacts ==
    ASSUME Inv, stage = "running", Top.at \in {"eval", "callMove", "binRight"}
    PROVE  /\ FreeTemps # {} => First \notin HeldUnder
           /\ FreeTemps \ {First} # {} => Second \notin HeldUnder
<1>1. HeldUnder \subseteq Using
  BY EvalPointFacts
<1>2. FreeTemps # {} => First \notin Using
  BY FirstFacts
<1>3. ASSUME FreeTemps \ {First} # {} PROVE Second \notin Using
  <2>1. FreeTemps \ {First} \in SUBSET Nat
    BY DEF FreeTemps, Temps
  <2>2. Second \in FreeTemps \ {First}
    BY <1>3, <2>1, LeastElement DEF Second
  <2> QED BY <2>2 DEF FreeTemps, Using
<1> QED BY <1>1, <1>2, <1>3

(* Everything eval_asm and what it dispatches to emit is harmless, but for *)
(* the reloads after a call.                                               *)
LEMMA EvalKeeps ==
    ASSUME Inv, IsList(code), EvalNext
    PROVE  IsList(code') /\ Keeps
<1>1. CASE UNCHANGED code
  BY <1>1, QuietKeeps
<1>2. CASE EvalIntConst
  <2>1. First \notin HeldUnder
    BY <1>2, SuppliedFacts, FreshFacts DEF EvalIntConst, Evaluating, At
  <2>2. Emit(<<LoadImm(T(First), Node.number)>>)
    BY <1>2 DEF EvalIntConst
  <2>3. Harmless(LoadImm(T(First), Node.number))
    BY <2>1, UnheldIsHarmless DEF LoadImm
  <2> QED BY <2>2, <2>3, OneKeeps
<1>3. CASE EvalIdent
  <2> DEFINE s == input.symOf[Top.node]
             a == IF Sym.kind = "CONST" THEN LoadImm(T(First), Sym.const)
                  ELSE IF s \in DOMAIN argReg THEN LoadFp(T(First), ArgHome(argReg[s]))
                  ELSE LoadFp(T(First), LocalBase + Sym.offset)
  <2>1. First \notin HeldUnder
    BY <1>3, SuppliedFacts, FreshFacts DEF EvalIdent, Evaluating, At
  <2>2. Emit(<<a>>)
    BY <1>3 DEF EvalIdent
  <2>3. a[2] = T(First)
    BY DEF LoadImm, LoadFp
  <2> HIDE DEF a
  <2>4. Harmless(a)
    BY <2>1, <2>3, UnheldIsHarmless
  <2> QED BY <2>2, <2>4, OneKeeps
<1>4. CASE EvalLval
  <2> DEFINE a == LoadImm(T(First), LocalBase + input.syms[input.symOf[Node.ident]].offset)
  <2>1. First \notin HeldUnder
    BY <1>4, SuppliedFacts, FreshFacts DEF EvalLval, Evaluating, At
  <2>2. Emit(<<a>>)
    BY <1>4 DEF EvalLval
  <2>3. Harmless(a)
    BY <2>1, UnheldIsHarmless DEF LoadImm
  <2> HIDE DEF a
  <2> QED BY <2>2, <2>3, OneKeeps
<1>5. CASE CallMove
  <2>1. First \notin HeldUnder
    BY <1>5, SuppliedFacts, FreshFacts DEF CallMove, At
  <2>2. Emit(<< <<"mv", T(First), A(0)>> >>)
    BY <1>5 DEF CallMove
  <2>3. Harmless(<<"mv", T(First), A(0)>>)
    BY <2>1, UnheldIsHarmless
  <2> QED BY <2>2, <2>3, OneKeeps
<1>6. CASE UnaryEnd
  <2>1. Top.reg \notin HeldUnder
    BY <1>6, EvalPointFacts DEF UnaryEnd, At
  <2>2. Emit(<< <<"seqz", T(Top.reg), T(ret)>> >>)
    BY <1>6 DEF UnaryEnd
  <2>3. Harmless(<<"seqz", T(Top.reg), T(ret)>>)
    BY <2>1, UnheldIsHarmless
  <2> QED BY <2>2, <2>3, OneKeeps
<1>7. CASE BinInPlace
  <2> DEFINE op == CASE Node.op_type = "+" -> "add" [] Node.op_type = "-" -> "sub"
                     [] Node.op_type = "*" -> "mul" [] Node.op_type = "/" -> "div"
  <2>1. Top.reg \notin HeldUnder
    BY <1>7, EvalPointFacts DEF BinInPlace, At
  <2>2. Emit(<< <<op, T(Top.reg), T(Top.reg), T(ret)>> >>)
    BY <1>7 DEF BinInPlace
  <2> HIDE DEF op
  <2>3. Harmless(<<op, T(Top.reg), T(Top.reg), T(ret)>>)
    BY <2>1, UnheldIsHarmless
  <2> QED BY <2>2, <2>3, OneKeeps
<1>8. CASE BinOneReg
  <2> DEFINE r == T(First)
             o == Node.op_type
             a == T(Top.reg)
             b == T(ret)
  <2>1. First \notin HeldUnder
    BY <1>8, SuppliedFacts, FreshFacts DEF BinOneReg, At
  <2>2. Emit(OneRegCode(o, r, a, b)) /\ o \in OneRegOps \ {"&&", "||"}
    BY <1>8 DEF BinOneReg
  <2>3. \A ins : ins[2] = r => Harmless(ins)
    BY <2>1, UnheldIsHarmless
  <2> HIDE DEF o, r, a, b
  <2>4. CASE o = "=="
    <3>1. Emit(<< <<"sub", r, b, a>>, <<"seqz", r, r>> >>)
      BY <2>2, <2>4 DEF OneRegCode
    <3> QED BY <2>3, <3>1, TwoKeep
  <2>5. CASE o = "!="
    <3>1. Emit(<< <<"sub", r, b, a>>, <<"snez", r, r>> >>)
      BY <2>2, <2>5 DEF OneRegCode
    <3> QED BY <2>3, <3>1, TwoKeep
  <2>6. CASE o \in {"<", ">", "<<", ">>", "&", "|", "^"}
    <3>1. \E m, x, y : Emit(<< <<m, r, x, y>> >>)
      BY <2>2, <2>6 DEF OneRegCode
    <3> QED BY <2>3, <3>1, OneKeeps
  <2> QED BY <2>2, <2>4, <2>5, <2>6 DEF OneRegOps
<1>9. CASE BinLogical
  <2>1. First \notin HeldUnder
    BY <1>9, SuppliedFacts, FreshFacts DEF BinLogical, At, OneRegOps
  <2>2. PICK kind \in {"and", "or"}, branch \in {"beq", "bne"}, v \in {0, 1} :
             Emit(LogCode(kind, branch, v, T(First), T(Top.reg), T(ret)))
    BY <1>9 DEF BinLogical
  <2> DEFINE s == LogCode(kind, branch, v, T(First), T(Top.reg), T(ret))
  <2>3. /\ IsList(s)
        /\ \A i \in DOMAIN s : s[i][1] \in {"beq", "bne", "j", "label"} \/ s[i][2] = T(First)
    BY <2>2, TuplesAreLists DEF LogCode, LoadImm, Define
  <2> HIDE DEF s
  <2>4. IsList(code') /\ NewCode = s
    BY <2>2, <2>3, EmitFacts DEF s
  <2>5. ASSUME NEW i \in DOMAIN s PROVE Harmless(s[i])
    BY <2>1, <2>3, <2>5, UnheldIsHarmless DEF Harmless, Writers
  <2> QED BY <2>4, <2>5 DEF Keeps
<1>10. CASE BinTwoReg
  <2> DEFINE a == StrictOpposite(Node.op_type, T(Second), T(Top.reg), T(ret))
             b == <<"xori", T(First), T(Second), 1>>
  <2>1. First \notin HeldUnder /\ Second \notin HeldUnder
    BY <1>10, SuppliedFacts, FreshFacts DEF BinTwoReg, At
  <2>2. Emit(<<a, b>>)
    BY <1>10 DEF BinTwoReg
  <2>3. a[2] = T(Second) /\ b[2] = T(First)
    BY DEF StrictOpposite
  <2> HIDE DEF a, b
  <2>4. Harmless(a) /\ Harmless(b)
    BY <2>1, <2>3, UnheldIsHarmless
  <2> QED BY <2>2, <2>4, TwoKeep
<1>11. CASE AsgnRight
  <2> DEFINE a == <<"sub", T(Top.reg), FP, T(Top.reg)>>
             b == <<"sw", T(ret), 0, T(Top.reg)>>
  <2>1. Top.reg \notin HeldUnder
    BY <1>11, EvalPointFacts DEF AsgnRight, At
  <2>2. Emit(<<a, b>>)
    BY <1>11 DEF AsgnRight
  <2>3. a[2] = T(Top.reg) /\ b[1] = "sw"
    OBVIOUS
  <2> HIDE DEF a, b
  <2>4. Harmless(a) /\ Harmless(b)
    BY <2>1, <2>3, UnheldIsHarmless DEF Harmless, Writers
  <2> QED BY <2>2, <2>4, TwoKeep
<1>12. CASE EvalFuncCall
  <2> DEFINE order == Ascending(Live)
             s == [i \in 1 .. Cardinality(Live) |-> StoreFp(T(order[i]), SpillSlot(Top.node, i))]
  <2>1. Emit(s)
    BY <1>12 DEF EvalFuncCall
  <2>2. Cardinality(Live) \in Nat
    BY CountFacts DEF Live
  <2>3. IsList(s) /\ \A i \in DOMAIN s : s[i][1] = "sw"
    BY <2>2, FunctionIsList DEF StoreFp
  <2> HIDE DEF s
  <2>4. IsList(code') /\ NewCode = s
    BY <2>1, <2>3, EmitFacts
  <2> QED BY <2>3, <2>4 DEF Keeps, Harmless, Writers
<1>13. CASE CallStoreArg
  <2> DEFINE a == StoreFp(T(ret), ArgSlot(Top.node, Top.spilled, Top.k + 1))
  <2>1. Emit(<<a>>)
    BY <1>13 DEF CallStoreArg
  <2>2. Harmless(a)
    BY DEF StoreFp, Harmless, Writers
  <2> HIDE DEF a
  <2> QED BY <2>1, <2>2, OneKeeps
<1>14. CASE CallJump
  <2> DEFINE p == Min({NArg, Len(Node.args)})
             loads == [i \in 1 .. p |-> LoadFp(A(i - 1), ArgSlot(Top.node, Top.spilled, i))]
             n == Cardinality(Top.spilled)
             order == Ascending(Top.spilled)
             reloads == [i \in 1 .. n |-> LoadFp(T(order[n + 1 - i]), SpillSlot(Top.node, n + 1 - i))]
             jump == << <<"jal", NameLabel(Node.value)>> >>
  <2>1. Emit(loads \o jump \o reloads)
    BY <1>14 DEF CallJump
  <2>2. p \in Nat
    <3>1. stage = "running" /\ Top.at = "callNext"
      BY <1>14 DEF CallJump, At
    <3>2. Len(Node.args) \in Nat
      BY <3>1, NodeFacts DEF Serves
    <3> QED BY <3>2, SmallerIsNat, SizesAssumption
  <2>3. n \in Nat
    <3>1. stage = "running"
      BY <1>14 DEF CallJump, At
    <3>2. Top.spilled \in SUBSET Temps
      BY <3>1, TopFacts DEF Frame
    <3> QED BY <3>2, CountFacts
  <2> HIDE DEF p, n
  <2>4. IsList(loads) /\ IsList(jump) /\ IsList(reloads)
    BY <2>2, <2>3, FunctionIsList, TuplesAreLists
  <2> HIDE DEF loads, jump, reloads
  <2>5. IsList(loads \o jump \o reloads)
    BY <2>4, JoinedLists
  <2>6. IsList(code')
    BY <2>1, <2>5, EmitFacts
  <2> QED BY <1>14, <2>6 DEF Keeps, CallJump
<1> QED
  BY <1>1, <1>2, <1>3, <1>4, <1>5, <1>6, <1>7, <1>8, <1>9, <1>10, <1>11, <1>12, <1>13, <1>14
     DEF EvalNext, NoFreeRegister, EvalUnary, EvalBinExp, BinLeft, EvalVarAsgn, AsgnLeft,
         CallNextArg, EvalUnknown, EmitNothing

-----------------------------------------------------------------------------
(* Statements, functions and the program.                                  *)

(* Nothing is held below a statement, so it cannot overwrite a held value. *)
LEMMA StmtHarmless ==
    ASSUME Inv, stage = "running", Top.at \in StmtPoints
    PROVE  Keeps
  BY StmtPointFacts DEF Keeps, Harmless

LEMMA RestoreIsList ==
    /\ \A size : IsList(RestoreFrame(size))
    /\ IsList(JumpBack)
    /\ \A locals : IsList(Epilogue(locals))
<1>1. \A size : IsList(RestoreFrame(size))
  BY TuplesAreLists DEF RestoreFrame
<1>2. IsList(JumpBack)
  BY TuplesAreLists DEF JumpBack
<1> QED BY <1>1, <1>2, JoinedLists DEF Epilogue

(* Every statement emits a list.                                           *)
LEMMA StmtEmitsList ==
    ASSUME IsList(code), StmtNext
    PROVE  UNCHANGED code \/ \E s : IsList(s) /\ Emit(s)
<1>1. CASE VarStore
  BY <1>1, TuplesAreLists DEF VarStore
<1>2. CASE GenRetEmpty
  BY <1>2, RestoreIsList DEF GenRetEmpty
<1>3. CASE RetMove
  <2>1. \A locals : IsList(<< <<"mv", A(0), T(ret)>> >> \o Epilogue(locals))
    BY TuplesAreLists, RestoreIsList, JoinedLists
  <2> QED BY <1>3, <2>1 DEF RetMove
<1>4. CASE GenIf \/ IfTest \/ IfElseBody
  BY <1>4, TuplesAreLists DEF GenIf, IfTest, IfElseBody
<1>5. CASE GenWhile \/ WhileTest \/ WhileEnd
  BY <1>5, TuplesAreLists DEF GenWhile, WhileTest, WhileEnd
<1>6. CASE GenFor \/ ForTest
  BY <1>6, TuplesAreLists DEF GenFor, ForTest
<1>7. CASE ForCond
  BY <1>7, TuplesAreLists DEF ForCond
<1>8. CASE ForStep \/ ForEnd
  <2>1. IsList(LoopBack)
    BY TuplesAreLists DEF LoopBack
  <2>2. \A a : IsList(<<a>>) /\ IsList(<<a>> \o LoopBack)
    BY <2>1, TuplesAreLists, JoinedLists
  <2> QED BY <1>8, <2>1, <2>2 DEF ForStep, ForEnd
<1> QED
  BY <1>1, <1>2, <1>3, <1>4, <1>5, <1>6, <1>7, <1>8
     DEF StmtNext, GenNothing, GenExprStmt, ExprEnd, GenVarDef, GenRet, RetWild,
         GenCompStmt, CompNext, ForInit, EmitNothing

LEMMA FuncEmitsList ==
    ASSUME IsList(code), GenFuncDef \/ FuncEnd \/ GenProg
    PROVE  UNCHANGED code \/ \E s : IsList(s) /\ Emit(s)
<1>1. CASE GenFuncDef
  <2> DEFINE homes == [i \in 1 .. NArg |-> StoreFp(A(i - 1), ArgHome(i - 1))]
             size  == FuncSize
             setup == << Define(NameLabel(Node.value)), <<"addi", SP, SP, -size>>,
                         <<"sw", RA, size - WordSize, SP>>,
                         <<"sw", FP, size - WordSize * 2, SP>>,
                         <<"addi", FP, SP, size>> >>
  <2>1. Emit(setup \o homes)
    BY <1>1 DEF GenFuncDef
  <2>2. IsList(setup)
    BY TuplesAreLists
  <2>3. IsList(homes)
    BY FunctionIsList, SizesAssumption
  <2> HIDE DEF homes, setup
  <2> QED BY <2>1, <2>2, <2>3, JoinedLists
<1>2. CASE FuncEnd
  <2> DEFINE s == IF Node.ctype = "void" THEN RestoreFrame(FuncSize) ELSE <<>>
  <2>1. Emit(s \o JumpBack)
    BY <1>2 DEF FuncEnd
  <2>2. IsList(s) /\ IsList(JumpBack)
    BY RestoreIsList, TuplesAreLists
  <2> HIDE DEF s
  <2> QED BY <2>1, <2>2, JoinedLists
<1>3. CASE GenProg
  BY <1>3 DEF GenProg, EmitNothing
<1> QED BY <1>1, <1>2, <1>3

(* Where each of these steps is taken, and that none starts over.          *)
LEMMA StepPoints ==
    /\ EvalNext => stage = "running" /\ stage' # "idle"
    /\ StmtNext \/ GenFuncDef \/ FuncEnd \/ GenProg
         => stage = "running" /\ stage' # "idle" /\ Top.at \in StmtPoints
<1>1. EvalNext => stage = "running" /\ stage' # "idle"
  BY DEF EvalNext, NoFreeRegister, EvalIntConst, EvalIdent, EvalLval, EvalUnary, UnaryEnd,
         EvalBinExp, BinLeft, BinInPlace, BinOneReg, BinLogical, BinTwoReg, EvalVarAsgn,
         AsgnLeft, AsgnRight, EvalFuncCall, CallNextArg, CallStoreArg, CallJump, CallMove,
         EvalUnknown, Evaluating, At
<1>2. StmtNext => stage = "running" /\ stage' # "idle" /\ Top.at \in StmtPoints
  BY DEF StmtNext, GenNothing, GenExprStmt, ExprEnd, GenVarDef, VarStore, GenRetEmpty, GenRet,
         RetWild, RetMove, GenIf, IfTest, IfElseBody, GenCompStmt, CompNext, GenWhile, WhileTest,
         WhileEnd, GenFor, ForInit, ForCond, ForTest, ForStep, ForEnd, Generating, At,
         StmtPoints, StmtWaits
<1>3. GenFuncDef \/ FuncEnd \/ GenProg
        => stage = "running" /\ stage' # "idle" /\ Top.at \in StmtPoints
  BY DEF GenFuncDef, FuncEnd, GenProg, Generating, At, StmtPoints, StmtWaits
<1> QED BY <1>1, <1>2, <1>3

-----------------------------------------------------------------------------
LEMMA InitCodeOK == Init => CodeOK
  BY TuplesAreLists DEF Init, CodeOK

(* Every step keeps CodeOK and the values that are still needed.           *)
LEMMA NextKeeps ==
    ASSUME Inv, CodeOK, [Next]_vars
    PROVE  CodeOK' /\ Keeps
<1>1. CASE EvalNext
  BY <1>1, EvalKeeps, StepPoints DEF CodeOK
<1>2. CASE StmtNext \/ GenFuncDef \/ FuncEnd \/ GenProg
  <2>1. IsList(code')
    <3>1. UNCHANGED code \/ \E s : IsList(s) /\ Emit(s)
      BY <1>2, StmtEmitsList, FuncEmitsList DEF CodeOK
    <3> QED BY <3>1, EmitFacts DEF CodeOK
  <2> QED BY <1>2, <2>1, StepPoints, StmtHarmless DEF CodeOK
<1>3. CASE stage = "idle" /\ \E i \in Inputs : GenAsm(i)
  <2>1. IsList(code') /\ stage' = "running"
    BY <1>3, TuplesAreLists DEF GenAsm, Startup
  <2>2. HeldUnder = {}
    BY <1>3 DEF CodeOK, HeldUnder, HeldBelow
  <2> QED BY <2>1, <2>2 DEF CodeOK, Keeps, Harmless
<1>4. CASE UNCHANGED vars
  <2>1. IsList(code') /\ Keeps
    BY <1>4, QuietKeeps DEF vars, CodeOK
  <2> QED BY <1>4, <2>1 DEF vars, CodeOK
<1> QED
  BY <1>1, <1>2, <1>3, <1>4 DEF Next, GenNext, Stopped

(* PendingValuesKept: no instruction the code generator emits, for any     *)
(* program, overwrites a temporary that an unfinished computation of the   *)
(* enclosing expression still needs, the reloads after a call excepted.    *)
THEOREM PendingKept == Spec => PendingValuesKept
<1>1. Inv /\ CodeOK /\ [Next]_vars => CodeOK'
  BY NextKeeps
<1>2. Inv /\ CodeOK /\ [Next]_vars =>
        [ At("callNext") \/ \A i \in DOMAIN NewCode :
            NewCode[i][1] \in Writers =>
               \A r \in HeldBelow(ctl, Len(ctl)) : NewCode[i][2] # T(r) ]_vars
  BY NextKeeps DEF Keeps, Harmless, HeldUnder
<1> QED BY <1>1, <1>2, InitCodeOK, Invariance, PTL DEF Spec, PendingValuesKept

-----------------------------------------------------------------------------
(* The labels of the output.                                               *)

(* The labels a list of instructions defines, and those it branches to.    *)
LabelPlaces(s) == {i \in DOMAIN s : s[i][1] = "label"}
Definitions(s) == {s[i][2] : i \in LabelPlaces(s)}
Targets(s)     == {Target(s[i]) : i \in {h \in DOMAIN s : s[h][1] \in Branches}}
DefinedOnce(s) == \A i, j \in LabelPlaces(s) : s[i][2] = s[j][2] => i = j

(* A list of instructions that neither defines nor uses a label.           *)
Plain(s) == IsList(s) /\ \A i \in DOMAIN s : s[i][1] \notin Branches \cup {"label"}

LEMMA PlainLabels ==
    ASSUME NEW s, Plain(s)
    PROVE  Definitions(s) = {} /\ Targets(s) = {} /\ DefinedOnce(s)
  BY DEF Plain, Definitions, Targets, DefinedOnce, LabelPlaces

LEMMA JoinedLabels ==
    ASSUME NEW s, NEW t, IsList(s), IsList(t)
    PROVE  /\ Definitions(s \o t) = Definitions(s) \cup Definitions(t)
           /\ Targets(s \o t) = Targets(s) \cup Targets(t)
           /\ DefinedOnce(s) /\ DefinedOnce(t) /\ Definitions(s) \cap Definitions(t) = {}
                => DefinedOnce(s \o t)
<1>1. PICK S : s \in Seq(S)
  BY DEF IsList
<1>2. PICK U : t \in Seq(U)
  BY DEF IsList
<1> DEFINE W == S \cup U
           m == Len(s)
           n == Len(t)
           u == s \o t
<1>3. s \in Seq(W) /\ t \in Seq(W)
  BY <1>1, <1>2
<1> HIDE DEF W
<1>4. /\ u \in Seq(W) /\ Len(u) = m + n /\ m \in Nat /\ n \in Nat
      /\ \A i \in 1 .. m + n : u[i] = IF i <= m THEN s[i] ELSE t[i - m]
  BY <1>3, ConcatProperties
<1>5. DOMAIN u = 1 .. m + n /\ DOMAIN s = 1 .. m /\ DOMAIN t = 1 .. n
  BY <1>3, <1>4
<1> HIDE DEF u, m, n
<1>6. \A i \in 1 .. m : i \in DOMAIN u /\ u[i] = s[i]
  BY <1>4, <1>5
<1>7. \A i \in 1 .. n : m + i \in DOMAIN u /\ u[m + i] = t[i]
  BY <1>4, <1>5
<1>8. \A i \in DOMAIN u : m + (i - m) = i /\ (i \in 1 .. m \/ i - m \in 1 .. n)
  BY <1>4, <1>5
<1>9. Definitions(u) = Definitions(s) \cup Definitions(t)
  <2>1. ASSUME NEW l \in Definitions(s) PROVE l \in Definitions(u)
    BY <1>5, <1>6 DEF Definitions, LabelPlaces
  <2>2. ASSUME NEW l \in Definitions(t) PROVE l \in Definitions(u)
    BY <1>5, <1>7 DEF Definitions, LabelPlaces
  <2>3. ASSUME NEW i \in LabelPlaces(u) PROVE u[i][2] \in Definitions(s) \cup Definitions(t)
    BY <1>5, <1>6, <1>7, <1>8 DEF Definitions, LabelPlaces
  <2> QED BY <2>1, <2>2, <2>3 DEF Definitions
<1>10. Targets(u) = Targets(s) \cup Targets(t)
  <2>1. ASSUME NEW i \in DOMAIN s, s[i][1] \in Branches PROVE Target(s[i]) \in Targets(u)
    BY <1>5, <1>6, <2>1 DEF Targets
  <2>2. ASSUME NEW i \in DOMAIN t, t[i][1] \in Branches PROVE Target(t[i]) \in Targets(u)
    BY <1>5, <1>7, <2>2 DEF Targets
  <2>3. ASSUME NEW i \in DOMAIN u, u[i][1] \in Branches
        PROVE  Target(u[i]) \in Targets(s) \cup Targets(t)
    BY <1>5, <1>6, <1>7, <1>8, <2>3 DEF Targets
  <2> QED BY <2>1, <2>2, <2>3 DEF Targets
<1>11. ASSUME DefinedOnce(s), DefinedOnce(t), Definitions(s) \cap Definitions(t) = {}
       PROVE  DefinedOnce(u)
  <2> SUFFICES ASSUME NEW i \in LabelPlaces(u), NEW j \in LabelPlaces(u), u[i][2] = u[j][2]
               PROVE  i = j
    BY DEF DefinedOnce
  <2>1. CASE i \in 1 .. m /\ j \in 1 .. m
    BY <1>5, <1>6, <1>11, <2>1 DEF DefinedOnce, LabelPlaces
  <2>2. CASE i - m \in 1 .. n /\ j - m \in 1 .. n
    <3>1. /\ u[i] = t[i - m] /\ u[j] = t[j - m]
      BY <1>7, <1>8, <2>2 DEF LabelPlaces
    <3>2. i - m = j - m
      BY <1>5, <1>11, <2>2, <3>1 DEF DefinedOnce, LabelPlaces
    <3> QED BY <1>4, <1>5, <3>2 DEF LabelPlaces
  <2>3. ASSUME NEW a \in LabelPlaces(u), NEW b \in LabelPlaces(u), a \in 1 .. m, b - m \in 1 .. n
        PROVE  u[a][2] # u[b][2]
    <3>1. u[a][2] \in Definitions(s)
      BY <1>5, <1>6, <2>3 DEF Definitions, LabelPlaces
    <3>2. u[b][2] \in Definitions(t)
      BY <1>5, <1>7, <1>8, <2>3 DEF Definitions, LabelPlaces
    <3> QED BY <1>11, <3>1, <3>2
  <2> QED BY <1>8, <2>1, <2>2, <2>3 DEF LabelPlaces
<1> QED BY <1>9, <1>10, <1>11 DEF u

(* The same of single instructions.                                        *)
Defines(a) == IF a[1] = "label" THEN {a[2]} ELSE {}
Uses(a)    == IF a[1] \in Branches THEN {Target(a)} ELSE {}

LEMMA OneLabel ==
    ASSUME NEW a
    PROVE  IsList(<<a>>) /\ Definitions(<<a>>) = Defines(a) /\ Targets(<<a>>) = Uses(a) /\ DefinedOnce(<<a>>)
<1>1. DOMAIN <<a>> = {1} /\ <<a>>[1] = a
  OBVIOUS
<1> QED BY <1>1, TuplesAreLists DEF Definitions, Targets, DefinedOnce, LabelPlaces, Defines, Uses

LEMMA TwoLabels ==
    ASSUME NEW a, NEW b
    PROVE  /\ IsList(<<a, b>>)
           /\ Definitions(<<a, b>>) = Defines(a) \cup Defines(b)
           /\ Targets(<<a, b>>) = Uses(a) \cup Uses(b)
           /\ Defines(a) \cap Defines(b) = {} => DefinedOnce(<<a, b>>)
<1>1. DOMAIN <<a, b>> = {1, 2} /\ <<a, b>>[1] = a /\ <<a, b>>[2] = b
  OBVIOUS
<1> DEFINE s == <<a, b>>
<1>2. IsList(s)
  BY TuplesAreLists
<1> HIDE DEF s
<1>3. Definitions(s) = Defines(a) \cup Defines(b)
  BY <1>1 DEF Definitions, LabelPlaces, Defines, s
<1>4. Targets(s) = Uses(a) \cup Uses(b)
  BY <1>1 DEF Targets, Uses, s
<1>5. Defines(a) \cap Defines(b) = {} => DefinedOnce(s)
  BY <1>1 DEF DefinedOnce, LabelPlaces, Defines, s
<1> QED BY <1>2, <1>3, <1>4, <1>5 DEF s

LEMMA InstructionLabels ==
    /\ \A l : Defines(Define(l)) = {l} /\ Uses(Define(l)) = {}
    /\ \A m, l : Defines(<<m, l>>) = (IF m = "label" THEN {l} ELSE {}) /\ (m \in Branches => Uses(<<m, l>>) = {l})
    /\ \A m, x, y, l : m \in Branches => Defines(<<m, x, y, l>>) = {} /\ Uses(<<m, x, y, l>>) = {l}
    /\ \A m, x, y, z : m \notin Branches \cup {"label"} => Defines(<<m, x, y, z>>) = {} /\ Uses(<<m, x, y, z>>) = {}
  BY DEF Defines, Uses, Define, Branches, Target

-----------------------------------------------------------------------------
(* The labels an activation still has to define, and those it has defined  *)
(* and will jump back to.                                                  *)
Parts(kind, k, parts) == {Label(kind, k, part) : part \in parts}
Owes(p, f) ==
    CASE f.at \in {"ifTest", "ifElse"}      -> {Label("else", f.k, "")}
      [] f.at \in {"whileTest", "whileEnd"} -> {Label("while", f.k, "end")}
      [] f.at \in {"forInit", "forCond"}    -> Parts("for", f.k, {"cond", "body", "step", "end"})
      [] f.at = "forTest" -> Parts("for", f.k, {"body", "step", "end"})
      [] f.at = "forStep" -> Parts("for", f.k, {"step", "end"})
      [] f.at = "forEnd"  -> Parts("for", f.k, {"end"})
      [] f.at = "prog"    -> {NameLabel(FuncName(p, i)) : i \in {h \in DOMAIN p.funcs : h > f.k}}
      [] f.at = "gen" /\ p.nodes[f.node].type = "FUNC_DEF" -> {NameLabel(p.nodes[f.node].value)}
      [] OTHER -> {}
Laid(f) ==
    CASE f.at \in {"whileTest", "whileEnd"} -> {Label("while", f.k, "start")}
      [] f.at \in {"forTest", "forStep", "forEnd"} -> {Label("for", f.k, "cond")}
      [] OTHER -> {}

(* The same of a stack of activations.  No label is owed twice.            *)
Debt(p, c)  == UNION {Owes(p, c[j]) : j \in DOMAIN c}
AllLaid(c)  == UNION {Laid(c[j]) : j \in DOMAIN c}
Apart(p, c) == \A i, j \in DOMAIN c : i # j => Owes(p, c[i]) \cap Owes(p, c[j]) = {}

(* A label that is generated has a number that has been given out.         *)
Numbered(l, n) == l[1] \in LabelKinds => l[2] \in 0 .. (n[l[1]] - 1)
Fresh(l, n)    == l[1] \in LabelKinds /\ l[2] \notin 0 .. (n[l[1]] - 1)
FuncLabels(p)  == {NameLabel(f) : f \in FuncNames(p)}

(* A label is defined or owed by one activation, but not both, if it is    *)
(* branched to or a function's.                                            *)
Settled(p, c, n, s) ==
    /\ DefinedOnce(s)
    /\ \A l \in Definitions(s) \cup Debt(p, c) : Numbered(l, n)
    /\ Debt(p, c) \cap Definitions(s) = {}
    /\ Apart(p, c)
    /\ Targets(s) \subseteq Definitions(s) \cup Debt(p, c)
    /\ FuncLabels(p) \subseteq Definitions(s) \cup Debt(p, c)
    /\ AllLaid(c) \subseteq Definitions(s)

LabelInv ==
    stage \in {"running", "done"} /\ Linkable(input.prog) =>
        /\ Settled(input.prog, ctl, counts, code)
        /\ stage = "done" => ctl = <<>>

(* Pushing an activation adds what it owes.                                *)
LEMMA AppendDebt ==
    ASSUME NEW p, NEW c \in Seq(Frame), NEW f \in Frame
    PROVE  /\ Debt(p, Append(c, f)) = Debt(p, c) \cup Owes(p, f)
           /\ AllLaid(Append(c, f)) = AllLaid(c) \cup Laid(f)
           /\ Apart(p, Append(c, f)) <=> Apart(p, c) /\ Owes(p, f) \cap Debt(p, c) = {}
<1> DEFINE d == Append(c, f)
           n == Len(c)
<1>1. /\ DOMAIN d = DOMAIN c \cup {n + 1} /\ n + 1 \notin DOMAIN c
      /\ d[n + 1] = f /\ \A j \in DOMAIN c : d[j] = c[j]
  OBVIOUS
<1> HIDE DEF d, n
<1>2. Debt(p, d) = Debt(p, c) \cup Owes(p, f)
  <2>1. \A l : l \in Debt(p, d) <=> \E j \in DOMAIN d : l \in Owes(p, d[j])
    BY DEF Debt
  <2>2. \A l : l \in Debt(p, c) <=> \E j \in DOMAIN c : l \in Owes(p, c[j])
    BY DEF Debt
  <2> QED BY <1>1, <2>1, <2>2
<1>3. AllLaid(d) = AllLaid(c) \cup Laid(f)
  <2>1. \A l : l \in AllLaid(d) <=> \E j \in DOMAIN d : l \in Laid(d[j])
    BY DEF AllLaid
  <2>2. \A l : l \in AllLaid(c) <=> \E j \in DOMAIN c : l \in Laid(c[j])
    BY DEF AllLaid
  <2> QED BY <1>1, <2>1, <2>2
<1>4. Apart(p, d) <=> Apart(p, c) /\ Owes(p, f) \cap Debt(p, c) = {}
  <2>1. Owes(p, f) \cap Debt(p, c) = {} <=> \A j \in DOMAIN c : Owes(p, f) \cap Owes(p, c[j]) = {}
    BY DEF Debt
  <2> QED BY <1>1, <2>1 DEF Apart
<1> QED BY <1>2, <1>3, <1>4 DEF d

(* A step that emits t, where an activation owed O before and those that   *)
(* take its place owe P: what it owed is defined now or still owed, and    *)
(* what is defined or owed now was owed before or is new.                  *)
Honest(O, t, P) ==
    /\ IsList(t) /\ DefinedOnce(t)
    /\ Definitions(t) \cap P = {}
    /\ O \subseteq Definitions(t) \cup P
    /\ \A l \in (Definitions(t) \cup P) \ O : Fresh(l, counts) /\ Numbered(l, counts')
    /\ Targets(t) \subseteq Definitions(code) \cup Definitions(t) \cup P \cup FuncLabels(input.prog)

(* Such a step leaves the labels settled.                                  *)
LEMMA HonestSettles ==
    ASSUME NEW p, p = input.prog, NEW b \in Seq(Frame), NEW f \in Frame, IsList(code),
           Settled(p, Append(b, f), counts, code),
           counts \in [LabelKinds -> Nat], counts' \in [LabelKinds -> Nat],
           \A k \in LabelKinds : counts[k] <= counts'[k],
           NEW t, NEW P, Honest(Owes(p, f), t, P),
           NEW c, Debt(p, c) = Debt(p, b) \cup P,
           Apart(p, b) /\ P \cap Debt(p, b) = {} => Apart(p, c),
           AllLaid(c) \subseteq Definitions(code) \cup Definitions(t)
    PROVE  Settled(p, c, counts', code \o t)
<1> DEFINE O == Owes(p, f)
           B == Debt(p, b)
           D == Definitions(code)
           E == Definitions(t)
           s == code \o t
<1>1. /\ Debt(p, Append(b, f)) = B \cup O
      /\ Apart(p, b) /\ O \cap B = {}
  BY AppendDebt DEF Settled
<1>2. /\ DefinedOnce(code)
      /\ \A l \in D \cup B \cup O : Numbered(l, counts)
      /\ (B \cup O) \cap D = {}
      /\ Targets(code) \subseteq D \cup B \cup O
      /\ FuncLabels(p) \subseteq D \cup B \cup O
  BY <1>1 DEF Settled
<1>3. /\ IsList(t) /\ DefinedOnce(t) /\ E \cap P = {} /\ O \subseteq E \cup P
      /\ \A l \in (E \cup P) \ O : Fresh(l, counts) /\ Numbered(l, counts')
      /\ Targets(t) \subseteq D \cup E \cup P \cup FuncLabels(p)
  BY DEF Honest
<1>4. Definitions(s) = D \cup E /\ Targets(s) = Targets(code) \cup Targets(t)
  BY <1>3, JoinedLabels
<1>5. \A l : Fresh(l, counts) => ~Numbered(l, counts)
  BY DEF Fresh, Numbered
<1> HIDE DEF O, B, D, E, s
<1>6. (E \cup P) \cap (D \cup B) = {}
  BY <1>1, <1>2, <1>3, <1>5
<1>7. DefinedOnce(s)
  BY <1>2, <1>3, <1>6, JoinedLabels DEF s, D, E
<1>8. \A l \in D \cup B \cup O : Numbered(l, counts')
  <2>1. ASSUME NEW l, Numbered(l, counts) PROVE Numbered(l, counts')
    BY <2>1 DEF Numbered
  <2> QED BY <1>2, <2>1
<1>9. Debt(p, c) = B \cup P
  BY DEF B
<1>10. \A l \in Definitions(s) \cup Debt(p, c) : Numbered(l, counts')
  BY <1>3, <1>4, <1>8, <1>9
<1>11. Debt(p, c) \cap Definitions(s) = {}
  BY <1>1, <1>2, <1>3, <1>4, <1>6, <1>9
<1>12. Apart(p, c)
  BY <1>1, <1>6 DEF B
<1>13. FuncLabels(p) \subseteq Definitions(s) \cup Debt(p, c)
  BY <1>2, <1>3, <1>4, <1>9
<1>14. Targets(s) \subseteq Definitions(s) \cup Debt(p, c)
  BY <1>2, <1>3, <1>4, <1>9, <1>13
<1>15. AllLaid(c) \subseteq Definitions(s)
  BY <1>4 DEF D, E
<1> QED BY <1>7, <1>10, <1>11, <1>12, <1>13, <1>14, <1>15 DEF Settled, s

(* The four ways a step changes the stack.                                 *)

(* A step of a running generator that emits t, at a time when the labels   *)
(* are settled.                                                            *)
Emits(t) ==
    /\ Inv /\ stage = "running" /\ IsList(code)
    /\ Settled(input.prog, ctl, counts, code)
    /\ counts' \in [LabelKinds -> Nat] /\ \A k \in LabelKinds : counts[k] <= counts'[k]
    /\ code' = code \o t

Owed == Owes(input.prog, Top)
SettledNext == Settled(input.prog, ctl', counts', code')

(* The stack is its top on the rest, and what the top has laid is there.   *)
LEMMA TopSettled ==
    ASSUME Inv, stage = "running", Settled(input.prog, ctl, counts, code)
    PROVE  /\ Below \in Seq(Frame) /\ Top \in Frame /\ ctl = Append(Below, Top)
           /\ AllLaid(Below) \cup Laid(Top) \subseteq Definitions(code)
<1>1. /\ Len(ctl) \in Nat \ {0} /\ ctl # <<>> /\ ctl \in Seq(Frame)
      /\ Top \in Frame /\ Below = Pop(ctl)
  BY TopFacts
<1>2. /\ Below \in Seq(Frame) /\ Len(Below) = Len(ctl) - 1
      /\ \A i \in 1 .. (Len(ctl) - 1) : Below[i] = ctl[i]
  BY <1>1, PopFacts
<1>3. ctl = Append(Below, Top)
  <2> DEFINE n == Len(ctl)
             b == Below
             f == Top
  <2>1. n \in Nat \ {0} /\ ctl \in Seq(Frame) /\ b \in Seq(Frame) /\ f \in Frame
        /\ Len(b) = n - 1 /\ (\A i \in 1 .. (n - 1) : b[i] = ctl[i]) /\ f = ctl[n] /\ Len(ctl) = n
    BY <1>1, <1>2 DEF Top
  <2> HIDE DEF n, b, f
  <2>2. /\ Append(b, f) \in Seq(Frame) /\ Len(Append(b, f)) = n
        /\ \A i \in 1 .. (n - 1) : Append(b, f)[i] = b[i]
        /\ Append(b, f)[n] = f
    BY <2>1
  <2>3. \A i \in 1 .. n : Append(b, f)[i] = ctl[i]
    BY <2>1, <2>2
  <2>4. ctl = Append(b, f)
    BY <2>1, <2>2, <2>3, SeqEqual
  <2> QED BY <2>4 DEF b, f
<1>4. AllLaid(Append(Below, Top)) = AllLaid(Below) \cup Laid(Top)
  BY <1>1, <1>2, AppendDebt
<1> QED BY <1>1, <1>2, <1>3, <1>4 DEF Settled

(* An activation that returns has paid.                                    *)
LEMMA PopSettles ==
    ASSUME NEW t, Emits(t), ctl' = Below, Honest(Owed, t, {})
    PROVE  SettledNext
<1> DEFINE p == input.prog
<1>1. /\ Below \in Seq(Frame) /\ Top \in Frame /\ ctl = Append(Below, Top)
      /\ AllLaid(Below) \subseteq Definitions(code)
  BY TopSettled DEF Emits
<1>2. Settled(p, Append(Below, Top), counts, code)
  BY <1>1 DEF Emits
<1> DEFINE P == {}
<1>3. Honest(Owes(p, Top), t, P)
  BY DEF Owed
<1>4. Debt(p, Below) = Debt(p, Below) \cup P /\ AllLaid(Below) \subseteq Definitions(code) \cup Definitions(t)
  BY <1>1
<1>5. p = input.prog /\ IsList(code) /\ counts \in [LabelKinds -> Nat]
      /\ counts' \in [LabelKinds -> Nat] /\ \A k \in LabelKinds : counts[k] <= counts'[k]
  BY DEF Emits, Inv, TypeOK
<1> HIDE DEF p, P
<1>6. Settled(p, Below, counts', code \o t)
  BY ONLY <1>1, <1>2, <1>3, <1>4, <1>5, HonestSettles
<1> QED BY <1>6 DEF SettledNext, Emits, p

(* An activation that goes on.                                             *)
LEMMA BecomeSettles ==
    ASSUME NEW t, Emits(t), NEW g \in Frame, Become(g),
           Honest(Owed, t, Owes(input.prog, g)),
           Laid(g) \subseteq Definitions(code) \cup Definitions(t)
    PROVE  SettledNext
<1> DEFINE p == input.prog
           c == Append(Below, g)
           P == Owes(p, g)
<1>1. /\ Below \in Seq(Frame) /\ Top \in Frame /\ ctl = Append(Below, Top)
      /\ AllLaid(Below) \subseteq Definitions(code)
  BY TopSettled DEF Emits
<1>2. Settled(p, Append(Below, Top), counts, code)
  BY <1>1 DEF Emits
<1>3. Honest(Owes(p, Top), t, P)
  BY DEF Owed
<1>4. /\ Debt(p, c) = Debt(p, Below) \cup P
      /\ AllLaid(c) = AllLaid(Below) \cup Laid(g)
      /\ Apart(p, c) <=> Apart(p, Below) /\ P \cap Debt(p, Below) = {}
  BY <1>1, AppendDebt
<1>5. ctl' = c
  BY DEF Become
<1> HIDE DEF p, c, P
<1>6. AllLaid(c) \subseteq Definitions(code) \cup Definitions(t)
  BY <1>1, <1>4
<1>7. Settled(p, c, counts', code \o t)
  BY <1>1, <1>2, <1>3, <1>4, <1>6, HonestSettles DEF Emits, Inv, TypeOK, p
<1> QED BY <1>5, <1>7 DEF SettledNext, Emits, p

(* An activation that calls another.                                       *)
LEMMA CallSettles ==
    ASSUME NEW t, Emits(t), NEW g \in Frame, NEW pt, NEW m, Call(g, pt, m), F(pt, m) \in Frame,
           Laid(F(pt, m)) = {},
           Owes(input.prog, g) \cap Owes(input.prog, F(pt, m)) = {},
           Honest(Owed, t, Owes(input.prog, g) \cup Owes(input.prog, F(pt, m))),
           Laid(g) \subseteq Definitions(code) \cup Definitions(t)
    PROVE  SettledNext
<1> DEFINE p == input.prog
           h == F(pt, m)
           b == Append(Below, g)
           c == Append(b, h)
           P == Owes(p, g) \cup Owes(p, h)
<1>1. /\ Below \in Seq(Frame) /\ Top \in Frame /\ ctl = Append(Below, Top)
      /\ AllLaid(Below) \subseteq Definitions(code)
  BY TopSettled DEF Emits
<1>2. Settled(p, Append(Below, Top), counts, code)
  BY <1>1 DEF Emits
<1>3. Honest(Owes(p, Top), t, P)
  BY DEF Owed
<1>4. h \in Frame /\ b \in Seq(Frame) /\ Laid(h) = {} /\ Owes(p, g) \cap Owes(p, h) = {}
  BY <1>1
<1>5. ctl' = c
  BY DEF Call
<1> HIDE DEF p, h
<1>6. /\ Debt(p, b) = Debt(p, Below) \cup Owes(p, g)
      /\ AllLaid(b) = AllLaid(Below) \cup Laid(g)
      /\ Apart(p, b) <=> Apart(p, Below) /\ Owes(p, g) \cap Debt(p, Below) = {}
  BY <1>1, AppendDebt
<1> HIDE DEF b
<1>7. /\ Debt(p, c) = Debt(p, b) \cup Owes(p, h)
      /\ AllLaid(c) = AllLaid(b) \cup Laid(h)
      /\ Apart(p, c) <=> Apart(p, b) /\ Owes(p, h) \cap Debt(p, b) = {}
  BY <1>4, AppendDebt
<1> HIDE DEF c
<1>8. AllLaid(c) \subseteq Definitions(code) \cup Definitions(t)
  BY <1>1, <1>4, <1>6, <1>7
<1>9. Debt(p, c) = Debt(p, Below) \cup P
  BY <1>6, <1>7
<1>10. Apart(p, Below) /\ P \cap Debt(p, Below) = {} => Apart(p, c)
  BY <1>4, <1>6, <1>7
<1> HIDE DEF P
<1>11. Settled(p, c, counts', code \o t)
  BY <1>1, <1>2, <1>3, <1>8, <1>9, <1>10, HonestSettles DEF Emits, Inv, TypeOK, p
<1> QED BY <1>5, <1>11 DEF SettledNext, Emits, p

(* The frames a step puts on the stack are frames.                         *)
LEMMA NewFrames ==
    ASSUME Inv', Below \in Seq(Frame)
    PROVE  /\ \A g : Become(g) => g \in Frame
           /\ \A g, pt, m : Call(g, pt, m) => g \in Frame /\ F(pt, m) \in Frame
<1>1. ctl' \in Seq(Frame)
  BY DEF Inv, TypeOK
<1>2. ASSUME NEW b, b \in Seq(Frame), NEW S, b \in Seq(S), NEW g \in S
      PROVE  /\ Append(b, g) \in Seq(S)
             /\ Append(b, g) \in Seq(Frame) => g \in Frame
  <2>1. /\ Append(b, g) \in Seq(S) /\ Len(b) \in Nat /\ Len(Append(b, g)) = Len(b) + 1
        /\ Append(b, g)[Len(b) + 1] = g
    BY <1>2
  <2> DEFINE a == Append(b, g)
             n == Len(b)
  <2> HIDE DEF a, n
  <2>2. a \in Seq(Frame) => a[n + 1] \in Frame
    BY <2>1 DEF a, n
  <2> QED BY <2>1, <2>2 DEF a, n
<1>3. ASSUME NEW g, Become(g) PROVE g \in Frame
  <2>1. Below \in Seq(Frame \cup {g}) /\ g \in Frame \cup {g}
    OBVIOUS
  <2>2. Append(Below, g) \in Seq(Frame)
    BY <1>1, <1>3 DEF Become
  <2> QED BY <1>2, <2>1, <2>2
<1>4. ASSUME NEW g, NEW pt, NEW m, Call(g, pt, m) PROVE g \in Frame /\ F(pt, m) \in Frame
  <2> DEFINE h == F(pt, m)
             S == Frame \cup {g, h}
             b == Append(Below, g)
  <2>1. Below \in Seq(S) /\ g \in S /\ h \in S /\ Append(b, h) \in Seq(Frame)
    BY <1>1, <1>4 DEF Call
  <2> HIDE DEF h, S
  <2>2. b \in Seq(S)
    BY <1>2, <2>1
  <2>3. Len(Below) \in Nat /\ Len(b) = Len(Below) + 1 /\ b[Len(Below) + 1] = g
    BY <2>1
  <2> HIDE DEF b
  <2>4. /\ Len(b) \in Nat /\ Len(Append(b, h)) = Len(b) + 1
        /\ Append(b, h)[Len(b) + 1] = h /\ \A i \in 1 .. Len(b) : Append(b, h)[i] = b[i]
    BY <2>1, <2>2
  <2> DEFINE a == Append(b, h)
             n == Len(b)
  <2>5. /\ a \in Seq(Frame) /\ n \in Nat \ {0} /\ Len(a) = n + 1 /\ a[n + 1] = h /\ a[n] = g
    BY <2>1, <2>3, <2>4
  <2> HIDE DEF a, n
  <2> QED BY <2>5 DEF h
<1> QED BY <1>3, <1>4

(* The activations of eval_asm owe and lay nothing, and neither does one   *)
(* that is about to translate anything but a function.                     *)
LEMMA NothingOwed ==
    /\ \A p, f : f.at \in EvalPoints \cup {"exprEnd", "varStore", "retMove", "comp", "funcEnd"}
         => Owes(p, f) = {} /\ Laid(f) = {}
    /\ \A p, f : f.at = "gen" /\ p.nodes[f.node].type # "FUNC_DEF" => Owes(p, f) = {} /\ Laid(f) = {}
<1>1. ASSUME NEW p, NEW f, f.at \in EvalPoints \cup {"exprEnd", "varStore", "retMove", "comp", "funcEnd"}
      PROVE  Owes(p, f) = {} /\ Laid(f) = {}
  <2>1. f.at \notin {"ifTest", "ifElse", "whileTest", "whileEnd", "forInit", "forCond", "forTest",
                     "forStep", "forEnd", "prog", "gen"}
    BY <1>1 DEF EvalPoints, EvalWaits
  <2> QED BY <2>1 DEF Owes, Laid
<1>2. ASSUME NEW p, NEW f, f.at = "gen", p.nodes[f.node].type # "FUNC_DEF"
      PROVE  Owes(p, f) = {} /\ Laid(f) = {}
  BY <1>2 DEF Owes, Laid
<1> QED BY <1>1, <1>2

(* No part of a node is a function.                                        *)
NoFunction(m) == input.prog.nodes[m].type # "FUNC_DEF"

LEMMA PartsAreNoFunctions ==
    ASSUME Inv, stage = "running", Top.at # "prog"
    PROVE  /\ Node.type = "COMP_STMT" => \A i \in 1 .. Len(Node.stmts) : NoFunction(Node.stmts[i])
           /\ Node.type = "IF" => /\ NoFunction(Node.if_body)
                                  /\ Node.else_body # NULL => NoFunction(Node.else_body)
           /\ Node.type = "WHILE" => NoFunction(Node.body)
           /\ Node.type = "FOR" => NoFunction(Node.init) /\ NoFunction(Node.body)
           /\ Node.type = "FUNC_DEF" => NoFunction(Node.body)
<1> DEFINE Kids == {k \in 1 .. (Top.node - 1) : input.prog.nodes[k].type # "FUNC_DEF"}
<1>1. Top.node \in DOMAIN input.prog.nodes
  BY TopFacts DEF Fits
<1>2. NodeOK(input.prog.nodes, Top.node)
  BY <1>1, TopFacts, ProgramFacts DEF InputOK
<1>3. \A m \in Kids : NoFunction(m)
  BY DEF NoFunction
<1>4. /\ Node.type = "COMP_STMT" => Node.stmts \in Seq(Kids)
      /\ Node.type = "IF" => Node.if_body \in Kids /\ Node.else_body \in Kids \cup {NULL}
      /\ Node.type = "WHILE" => Node.body \in Kids
      /\ Node.type = "FOR" => Node.init \in Kids /\ Node.body \in Kids
      /\ Node.type = "FUNC_DEF" => Node.body \in Kids
  BY <1>2 DEF NodeOK, Node
<1> HIDE DEF Kids
<1>5. \A q \in Seq(Kids) : \A i \in 1 .. Len(q) : NoFunction(q[i])
  BY <1>3
<1> QED BY <1>3, <1>4, <1>5

(* A called evaluation or statement owes nothing.                          *)
LEMMA CalledOwesNothing ==
    ASSUME Inv, stage = "running", Top.at # "prog", NEW pt \in {"eval", "gen"}, NEW m,
           pt = "gen" => NoFunction(m)
    PROVE  Owes(input.prog, F(pt, m)) = {} /\ Laid(F(pt, m)) = {}
<1> DEFINE f == F(pt, m)
<1>1. f.at = pt /\ f.node = m
  BY DEF F
<1> HIDE DEF f
<1>2. Owes(input.prog, f) = {} /\ Laid(f) = {}
  <2>1. CASE pt = "eval"
    BY <1>1, <2>1, NothingOwed DEF EvalPoints
  <2>2. CASE pt = "gen"
    BY <1>1, <2>2, NothingOwed DEF NoFunction
  <2> QED BY <2>1, <2>2
<1> QED BY <1>2 DEF f

(* The same two lemmas, without what the invariant gives.                  *)
LEMMA GoesOn ==
    ASSUME NEW t, Emits(t), Inv', NEW g, Become(g),
           Honest(Owed, t, Owes(input.prog, g)),
           Laid(g) \subseteq Definitions(code) \cup Definitions(t)
    PROVE  SettledNext
  BY BecomeSettles, TopSettled, NewFrames DEF Emits

LEMMA Calls ==
    ASSUME NEW t, Emits(t), Inv', Top.at # "prog", NEW g, NEW pt \in {"eval", "gen"}, NEW m,
           Call(g, pt, m), pt = "gen" => NoFunction(m),
           Honest(Owed, t, Owes(input.prog, g)),
           Laid(g) \subseteq Definitions(code) \cup Definitions(t)
    PROVE  SettledNext
<1>1. Owes(input.prog, F(pt, m)) = {} /\ Laid(F(pt, m)) = {}
  BY CalledOwesNothing DEF Emits
<1>2. g \in Frame /\ F(pt, m) \in Frame
  BY TopSettled, NewFrames DEF Emits
<1> DEFINE h == F(pt, m)
           p == input.prog
<1>3. Owes(p, g) \cap Owes(p, h) = {} /\ Owes(p, g) \cup Owes(p, h) = Owes(p, g)
  BY <1>1
<1>4. Honest(Owed, t, Owes(p, g) \cup Owes(p, h))
  BY <1>3
<1> QED BY <1>1, <1>2, <1>3, <1>4, CallSettles

-----------------------------------------------------------------------------
(* What a step emits.                                                      *)

(* A running generator whose labels are settled.                           *)
Ready == /\ Inv /\ stage = "running" /\ IsList(code)
         /\ Settled(input.prog, ctl, counts, code)

LEMMA QuietEmits ==
    ASSUME Ready, UNCHANGED counts
    PROVE  /\ \A t : Emit(t) => Emits(t)
           /\ UNCHANGED code => Emits(<<>>)
<1>1. counts \in [LabelKinds -> Nat] /\ \A k \in LabelKinds : counts[k] <= counts[k]
  BY DEF Ready, Inv, TypeOK
<1>2. code \o <<>> = code
  <2>1. PICK S : code \in Seq(S)
    BY DEF Ready, IsList
  <2> QED BY <2>1
<1> QED BY <1>1, <1>2 DEF Ready, Emits, Emit

LEMMA CountingEmits ==
    ASSUME Ready, NEW kinds, Count(kinds), NEW t, Emit(t)
    PROVE  Emits(t)
  BY CountsGrow DEF Ready, Emits, Emit, Inv, TypeOK

(* A label with the next number of its kind is new.                        *)
LEMMA NextNumber ==
    ASSUME counts \in [LabelKinds -> Nat], NEW kinds, Count(kinds),
           NEW kind \in LabelKinds, kind \in kinds, NEW part
    PROVE  Fresh(Label(kind, counts[kind], part), counts) /\ Numbered(Label(kind, counts[kind], part), counts')
<1> DEFINE n == counts[kind]
           l == Label(kind, n, part)
<1>1. n \in Nat /\ counts'[kind] \in Nat /\ n < counts'[kind]
  BY CountsGrow
<1>2. l[1] = kind /\ l[2] = n
  BY DEF Label
<1> HIDE DEF l
<1> QED BY <1>1, <1>2 DEF Fresh, Numbered, l

(* A step that emits no label leaves the debt as it was.                   *)
LEMMA PlainIsHonest ==
    ASSUME NEW t, Plain(t), NEW O
    PROVE  Honest(O, t, O)
  BY PlainLabels DEF Honest, Plain

(* A step that makes no label up defines some of those owed.               *)
LEMMA PaysHonestly ==
    ASSUME NEW t, IsList(t), DefinedOnce(t), NEW P, Definitions(t) \cap P = {},
           NEW O, O = Definitions(t) \cup P,
           Targets(t) \subseteq Definitions(code) \cup O
    PROVE  Honest(O, t, P)
  BY DEF Honest

(* Lists of instructions that are no branch and no label.                  *)
MereOps == Writers \cup {"sw", "jalr"}
Mere(ins) == ins[1] \in MereOps

LEMMA MereLists ==
    /\ Plain(<<>>)
    /\ \A a : Mere(a) => Plain(<<a>>)
    /\ \A a, b : Mere(a) /\ Mere(b) => Plain(<<a, b>>)
    /\ \A a, b, c : Mere(a) /\ Mere(b) /\ Mere(c) => Plain(<<a, b, c>>)
<1>1. \A a : Mere(a) => a[1] \notin Branches \cup {"label"}
  BY DEF Mere, MereOps, Writers, Branches
<1> QED BY <1>1, TuplesAreLists DEF Plain

LEMMA PlainJoined ==
    ASSUME NEW s, NEW t, Plain(s), Plain(t)
    PROVE  Plain(s \o t)
<1>1. IsList(s \o t)
  BY JoinedLists DEF Plain
<1>2. PICK S : s \in Seq(S)
  BY DEF IsList, Plain
<1>3. PICK U : t \in Seq(U)
  BY DEF IsList, Plain
<1> DEFINE W == S \cup U
           u == s \o t
<1>4. s \in Seq(W) /\ t \in Seq(W)
  BY <1>2, <1>3
<1> HIDE DEF W
<1>5. /\ u \in Seq(W) /\ Len(u) = Len(s) + Len(t)
      /\ \A i \in 1 .. Len(s) + Len(t) : u[i] = IF i <= Len(s) THEN s[i] ELSE t[i - Len(s)]
  BY <1>4, ConcatProperties
<1> HIDE DEF u
<1>6. ASSUME NEW i \in DOMAIN u PROVE u[i][1] \notin Branches \cup {"label"}
  <2>1. i \in 1 .. Len(s) + Len(t) /\ Len(s) \in Nat /\ Len(t) \in Nat
    BY <1>4, <1>5
  <2>2. CASE i <= Len(s)
    BY <1>4, <1>5, <2>1, <2>2 DEF Plain
  <2>3. CASE ~(i <= Len(s))
    <3>1. i - Len(s) \in DOMAIN t /\ u[i] = t[i - Len(s)]
      BY <1>4, <1>5, <2>1, <2>3
    <3> QED BY <3>1 DEF Plain
  <2> QED BY <2>2, <2>3
<1> QED BY <1>1, <1>6 DEF Plain, u

-----------------------------------------------------------------------------
(* Expressions.                                                            *)

(* What a step of eval_asm and of what it dispatches to does to the stack. *)
(* Only one makes an activation wait for an argument.                      *)
EvalMove ==
    /\ Top.at \in EvalPoints
    /\ \/ ctl' = Below
       \/ \E g : g.at \in EvalPoints \ {"callArg"} /\ Become(g)
       \/ \E g, m : /\ g.at \in EvalPoints /\ (g.at = "callArg" => CallNextArg)
                    /\ Call(g, "eval", m)

LEMMA EvalMoves ==
    ASSUME Inv, EvalNext, stage' = "running"
    PROVE  EvalMove
<1>1. Top \in Frame /\ "callMove" \in Points
  BY StepPoints, TopFacts DEF Points, EvalPoints
<1>2. \A pt \in EvalPoints : /\ Resume(pt).at = pt
                             /\ \A r : [Resume(pt) EXCEPT !.reg = r].at = pt
                             /\ \A k : [Resume(pt) EXCEPT !.k = k].at = pt
                             /\ \A S : [Resume(pt) EXCEPT !.spilled = S].at = pt
  BY <1>1 DEF Resume, Frame
<1>3. {"eval", "notEnd", "binLeft", "binRight", "asgnL", "asgnR", "callArg", "callNext", "callMove"}
        \subseteq EvalPoints
  BY DEF EvalPoints, EvalWaits
<1>4. CASE EvalIntConst \/ EvalIdent \/ EvalLval \/ UnaryEnd \/ BinInPlace \/ BinOneReg
            \/ BinLogical \/ BinTwoReg \/ AsgnRight \/ CallMove
  BY <1>3, <1>4 DEF EvalIntConst, EvalIdent, EvalLval, UnaryEnd, BinInPlace, BinOneReg,
       BinLogical, BinTwoReg, AsgnRight, CallMove, Evaluating, At, Return, EvalMove
<1>5. CASE EvalFuncCall
  <2> DEFINE g == [Resume("callNext") EXCEPT !.spilled = Live]
  <2>1. Top.at \in EvalPoints /\ g.at \in EvalPoints \ {"callArg"} /\ Become(g)
    BY <1>2, <1>3, <1>5 DEF EvalFuncCall, Evaluating, At
  <2> HIDE DEF g
  <2> QED BY <2>1 DEF EvalMove
<1>6. CASE CallStoreArg
  <2> DEFINE g == [Resume("callNext") EXCEPT !.k = Top.k + 1]
  <2>1. Top.at \in EvalPoints /\ g.at \in EvalPoints \ {"callArg"} /\ Become(g)
    BY <1>2, <1>3, <1>6 DEF CallStoreArg, Evaluating, At
  <2> HIDE DEF g
  <2> QED BY <2>1 DEF EvalMove
<1>7. CASE CallJump
  <2> DEFINE g == Resume("callMove")
  <2>1. Top.at \in EvalPoints /\ g.at \in EvalPoints \ {"callArg"} /\ Become(g)
    BY <1>2, <1>3, <1>7 DEF CallJump, Evaluating, At
  <2> HIDE DEF g
  <2> QED BY <2>1 DEF EvalMove
<1>8. CASE EvalUnary
  <2> DEFINE g == [Resume("notEnd") EXCEPT !.reg = First]
             m == Node.postfix_expr
  <2>1. Top.at \in EvalPoints /\ g.at \in EvalPoints \ {"callArg"} /\ Call(g, "eval", m)
    BY <1>2, <1>3, <1>8 DEF EvalUnary, Evaluating, At
  <2> HIDE DEF g, m
  <2> QED BY <2>1 DEF EvalMove
<1>9. CASE EvalBinExp
  <2> DEFINE g == Resume("binLeft")
             m == Node.left
  <2>1. Top.at \in EvalPoints /\ g.at \in EvalPoints \ {"callArg"} /\ Call(g, "eval", m)
    BY <1>2, <1>3, <1>9 DEF EvalBinExp, Evaluating, At
  <2> HIDE DEF g, m
  <2> QED BY <2>1 DEF EvalMove
<1>10. CASE BinLeft
  <2> DEFINE g == [Resume("binRight") EXCEPT !.reg = ret]
             m == Node.right
  <2>1. Top.at \in EvalPoints /\ g.at \in EvalPoints \ {"callArg"} /\ Call(g, "eval", m)
    BY <1>2, <1>3, <1>10 DEF BinLeft, Evaluating, At
  <2> HIDE DEF g, m
  <2> QED BY <2>1 DEF EvalMove
<1>11. CASE EvalVarAsgn
  <2> DEFINE g == Resume("asgnL")
             m == Node.lval
  <2>1. Top.at \in EvalPoints /\ g.at \in EvalPoints \ {"callArg"} /\ Call(g, "eval", m)
    BY <1>2, <1>3, <1>11 DEF EvalVarAsgn, Evaluating, At
  <2> HIDE DEF g, m
  <2> QED BY <2>1 DEF EvalMove
<1>12. CASE AsgnLeft
  <2> DEFINE g == [Resume("asgnR") EXCEPT !.reg = ret]
             m == Node.rval
  <2>1. Top.at \in EvalPoints /\ g.at \in EvalPoints \ {"callArg"} /\ Call(g, "eval", m)
    BY <1>2, <1>3, <1>12 DEF AsgnLeft, Evaluating, At
  <2> HIDE DEF g, m
  <2> QED BY <2>1 DEF EvalMove
<1>13. CASE CallNextArg
  <2> DEFINE g == Resume("callArg")
             m == Node.args[Top.k + 1]
  <2>1. Top.at \in EvalPoints /\ g.at \in EvalPoints /\ Call(g, "eval", m)
    BY <1>2, <1>3, <1>13 DEF CallNextArg, Evaluating, At
  <2> HIDE DEF g, m
  <2> QED BY <1>13, <2>1 DEF EvalMove
<1> QED BY <1>4, <1>5, <1>6, <1>7, <1>8, <1>9, <1>10, <1>11, <1>12, <1>13
        DEF EvalNext, NoFreeRegister, EvalUnknown

(* An evaluation whose labels are its own leaves the labels settled.       *)
LEMMA EvalSettles ==
    ASSUME NEW t, Emits(t), Inv', EvalMove, Honest({}, t, {})
    PROVE  SettledNext
<1>1. Top.at # "prog"
  BY DEF EvalMove, EvalPoints, EvalWaits
<1>2. Owed = {} /\ \A g : g.at \in EvalPoints => Owes(input.prog, g) = {} /\ Laid(g) = {}
  BY NothingOwed DEF EvalMove, Owed
<1>3. CASE ctl' = Below
  BY <1>2, <1>3, PopSettles
<1>4. ASSUME NEW g, g.at \in EvalPoints, Become(g) PROVE SettledNext
  BY <1>2, <1>4, GoesOn
<1>5. ASSUME NEW g, NEW m, g.at \in EvalPoints, Call(g, "eval", m) PROVE SettledNext
  BY <1>1, <1>2, <1>5, Calls
<1> QED BY <1>3, <1>4, <1>5 DEF EvalMove

(* Most of them have none.                                                 *)
EmitsPlain == UNCHANGED code \/ \E t : Plain(t) /\ Emit(t)

LEMMA OnePlain ==
    ASSUME NEW a, Mere(a), Emit(<<a>>)
    PROVE  EmitsPlain
  BY MereLists DEF EmitsPlain

LEMMA TwoPlain ==
    ASSUME NEW a, NEW b, Mere(a), Mere(b), Emit(<<a, b>>)
    PROVE  EmitsPlain
  BY MereLists DEF EmitsPlain

LEMMA EvalPlain ==
    ASSUME Inv, EvalNext, ~BinLogical, ~CallJump
    PROVE  UNCHANGED counts /\ EmitsPlain
<1>0. /\ \A r, v : Mere(LoadImm(r, v)) /\ Mere(LoadFp(r, v)) /\ Mere(StoreFp(r, v))
      /\ \A m \in MereOps : (\A x, y : Mere(<<m, x, y>>)) /\ \A x, y, z : Mere(<<m, x, y, z>>)
  BY DEF Mere, MereOps, Writers, LoadImm, LoadFp, StoreFp
<1>1. UNCHANGED counts
  BY DEF EvalNext, NoFreeRegister, EvalIntConst, EvalIdent, EvalLval, EvalUnary, UnaryEnd,
       EvalBinExp, BinLeft, BinInPlace, BinOneReg, BinTwoReg, EvalVarAsgn,
       AsgnLeft, AsgnRight, EvalFuncCall, CallNextArg, CallStoreArg, CallMove, EvalUnknown
<1> SUFFICES EmitsPlain
  BY <1>1
<1>2. CASE EvalIntConst
  <2> DEFINE a == LoadImm(T(First), Node.number)
  <2>1. Emit(<<a>>) /\ Mere(a)
    BY <1>0, <1>2 DEF EvalIntConst
  <2> HIDE DEF a
  <2> QED BY <2>1, OnePlain
<1>3. CASE EvalIdent
  <2> DEFINE s == input.symOf[Top.node]
             a == IF Sym.kind = "CONST" THEN LoadImm(T(First), Sym.const)
                  ELSE IF s \in DOMAIN argReg THEN LoadFp(T(First), ArgHome(argReg[s]))
                  ELSE LoadFp(T(First), LocalBase + Sym.offset)
  <2>1. Emit(<<a>>)
    BY <1>3 DEF EvalIdent
  <2>2. Mere(a)
    BY <1>0
  <2> HIDE DEF a
  <2> QED BY <2>1, <2>2, OnePlain
<1>4. CASE EvalLval
  <2> DEFINE a == LoadImm(T(First), LocalBase + input.syms[input.symOf[Node.ident]].offset)
  <2>1. Emit(<<a>>) /\ Mere(a)
    BY <1>0, <1>4 DEF EvalLval
  <2> HIDE DEF a
  <2> QED BY <2>1, OnePlain
<1>5. CASE CallMove
  <2> DEFINE a == <<"mv", T(First), A(0)>>
  <2>1. Emit(<<a>>) /\ Mere(a)
    BY <1>5 DEF CallMove, Mere, MereOps, Writers
  <2> HIDE DEF a
  <2> QED BY <2>1, OnePlain
<1>6. CASE CallStoreArg
  <2> DEFINE a == StoreFp(T(ret), ArgSlot(Top.node, Top.spilled, Top.k + 1))
  <2>1. Emit(<<a>>) /\ Mere(a)
    BY <1>0, <1>6 DEF CallStoreArg
  <2> HIDE DEF a
  <2> QED BY <2>1, OnePlain
<1>7. CASE UnaryEnd
  <2> DEFINE a == <<"seqz", T(Top.reg), T(ret)>>
  <2>1. Emit(<<a>>) /\ Mere(a)
    BY <1>7 DEF UnaryEnd, Mere, MereOps, Writers
  <2> HIDE DEF a
  <2> QED BY <2>1, OnePlain
<1>8. CASE AsgnRight
  <2> DEFINE a == <<"sub", T(Top.reg), FP, T(Top.reg)>>
             b == <<"sw", T(ret), 0, T(Top.reg)>>
  <2>1. Emit(<<a, b>>) /\ Mere(a) /\ Mere(b)
    BY <1>8 DEF AsgnRight, Mere, MereOps, Writers
  <2> HIDE DEF a, b
  <2> QED BY <2>1, TwoPlain
<1>9. CASE BinInPlace
  <2> DEFINE op == CASE Node.op_type = "+" -> "add" [] Node.op_type = "-" -> "sub"
                     [] Node.op_type = "*" -> "mul" [] Node.op_type = "/" -> "div"
  <2>1. Node.op_type \in InPlaceOps /\ Emit(<< <<op, T(Top.reg), T(Top.reg), T(ret)>> >>)
    BY <1>9 DEF BinInPlace
  <2>2. op \in MereOps
    BY <2>1 DEF InPlaceOps, MereOps, Writers
  <2> HIDE DEF op
  <2> QED BY <1>0, <2>1, <2>2, OnePlain
<1>10. CASE BinOneReg
  <2> DEFINE o == Node.op_type
             r == T(First)
             a == T(Top.reg)
             b == T(ret)
  <2>1. Emit(OneRegCode(o, r, a, b)) /\ o \in OneRegOps \ {"&&", "||"}
    BY <1>10 DEF BinOneReg
  <2> HIDE DEF o, r, a, b
  <2>2. CASE o \in {"==", "!="}
    <3>1. PICK c \in {"seqz", "snez"} : Emit(<< <<"sub", r, b, a>>, <<c, r, r>> >>)
      BY <2>1, <2>2 DEF OneRegCode
    <3>2. c \in MereOps /\ "sub" \in MereOps
      BY <3>1 DEF MereOps, Writers
    <3> QED BY <1>0, <3>1, <3>2, TwoPlain
  <2>3. CASE o \in {"<", ">", "<<", ">>", "&", "|", "^"}
    <3>1. PICK m, x, y : m \in MereOps /\ Emit(<< <<m, r, x, y>> >>)
      <4>1. {"slt", "sll", "sra", "and", "or", "xor"} \subseteq MereOps
        BY DEF MereOps, Writers
      <4> QED BY <2>1, <2>3, <4>1 DEF OneRegCode
    <3> QED BY <1>0, <3>1, OnePlain
  <2> QED BY <2>1, <2>2, <2>3 DEF OneRegOps
<1>11. CASE BinTwoReg
  <2> DEFINE a == StrictOpposite(Node.op_type, T(Second), T(Top.reg), T(ret))
             b == <<"xori", T(First), T(Second), 1>>
  <2>1. Emit(<<a, b>>)
    BY <1>11 DEF BinTwoReg
  <2>2. Mere(a) /\ Mere(b)
    BY DEF StrictOpposite, Mere, MereOps, Writers
  <2> HIDE DEF a, b
  <2> QED BY <2>1, <2>2, TwoPlain
<1>12. CASE EvalFuncCall
  <2> DEFINE order == Ascending(Live)
             s == [i \in 1 .. Cardinality(Live) |-> StoreFp(T(order[i]), SpillSlot(Top.node, i))]
  <2>1. Emit(s)
    BY <1>12 DEF EvalFuncCall
  <2>2. Cardinality(Live) \in Nat
    BY CountFacts DEF Live
  <2>3. IsList(s) /\ \A i \in DOMAIN s : s[i][1] = "sw"
    BY <2>2, FunctionIsList DEF StoreFp
  <2> HIDE DEF s
  <2> QED BY <2>1, <2>3 DEF Plain, Branches, EmitsPlain
<1>13. CASE NoFreeRegister \/ EvalUnary \/ EvalBinExp \/ BinLeft \/ EvalVarAsgn \/ AsgnLeft
             \/ CallNextArg \/ EvalUnknown
  BY <1>13 DEF NoFreeRegister, EvalUnary, EvalBinExp, BinLeft, EvalVarAsgn, AsgnLeft,
         CallNextArg, EvalUnknown, EmitNothing, EmitsPlain
<1> QED BY <1>2, <1>3, <1>4, <1>5, <1>6, <1>7, <1>8, <1>9, <1>10, <1>11, <1>12, <1>13
        DEF EvalNext

(* && and || branch to two labels they define themselves.                  *)
LEMMA LogLabels ==
    ASSUME NEW branch \in Branches, NEW x, NEW y, NEW z, NEW out, NEW end, out # end, NEW a, NEW b,
           Mere(a), Mere(b), NEW s,
           s = << <<branch, x, z, out>>, <<branch, y, z, out>>, a, <<"j", end>>,
                  Define(out), b, Define(end) >>
    PROVE  /\ IsList(s) /\ DefinedOnce(s)
           /\ Definitions(s) = {out, end} /\ Targets(s) \subseteq {out, end}
<1>1. /\ IsList(s) /\ DOMAIN s = 1 .. 7
      /\ s[1] = <<branch, x, z, out>> /\ s[2] = <<branch, y, z, out>> /\ s[3] = a
      /\ s[4] = <<"j", end>> /\ s[5] = Define(out) /\ s[6] = b /\ s[7] = Define(end)
  BY TuplesAreLists
<1>2. /\ s[1][1] = branch /\ s[2][1] = branch /\ s[4][1] = "j"
      /\ s[3][1] \notin Branches \cup {"label"} /\ s[6][1] \notin Branches \cup {"label"}
      /\ s[5][1] = "label" /\ s[7][1] = "label" /\ s[5][2] = out /\ s[7][2] = end
  BY <1>1 DEF Define, Mere, MereOps, Writers, Branches
<1>3. "label" \notin Branches /\ "j" \in Branches
  BY DEF Branches
<1>4. Target(s[1]) = out /\ Target(s[2]) = out /\ Target(s[4]) = end
  BY <1>1 DEF Target
<1>5. LabelPlaces(s) = {5, 7}
  <2>1. \A i \in 1 .. 7 : i = 1 \/ i = 2 \/ i = 3 \/ i = 4 \/ i = 5 \/ i = 6 \/ i = 7
    OBVIOUS
  <2>2. branch # "label"
    BY <1>3
  <2> QED BY <1>1, <1>2, <2>1, <2>2 DEF LabelPlaces
<1>6. Definitions(s) = {out, end}
  BY <1>2, <1>5 DEF Definitions
<1>7. DefinedOnce(s)
  BY <1>2, <1>5 DEF DefinedOnce
<1>8. Targets(s) \subseteq {out, end}
  <2>1. ASSUME NEW i \in DOMAIN s, s[i][1] \in Branches PROVE i \in {1, 2, 4}
    BY <1>1, <1>2, <1>3, <2>1
  <2> QED BY <1>4, <2>1 DEF Targets
<1> QED BY <1>1, <1>6, <1>7, <1>8

LEMMA LogSettles ==
    ASSUME Ready, Inv', BinLogical
    PROVE  SettledNext
<1> DEFINE kind   == IF Node.op_type = "&&" THEN "and" ELSE "or"
           branch == IF Node.op_type = "&&" THEN "beq" ELSE "bne"
           v      == IF Node.op_type = "&&" THEN 0 ELSE 1
           out    == Label(kind, counts[kind], IF v = 0 THEN "false" ELSE "true")
           end    == Label(kind, counts[kind], "end")
           t      == LogCode(kind, branch, v, T(First), T(Top.reg), T(ret))
<1>1. Count({kind}) /\ Emit(t) /\ stage' = "running"
  BY DEF BinLogical, At
<1>2. Emits(t)
  BY <1>1, CountingEmits
<1>3. EvalMove
  BY <1>1, EvalMoves DEF EvalNext, Ready
<1>4. out # end
  BY DEF Label
<1>5. kind \in LabelKinds /\ branch \in Branches
  BY DEF LabelKinds, Branches
<1>6. /\ Fresh(out, counts) /\ Numbered(out, counts')
      /\ Fresh(end, counts) /\ Numbered(end, counts')
  BY <1>1, <1>5, NextNumber DEF Ready, Inv, TypeOK
<1>7. t = << <<branch, T(Top.reg), ZERO, out>>, <<branch, T(ret), ZERO, out>>,
             LoadImm(T(First), 1 - v), <<"j", end>>, Define(out), LoadImm(T(First), v), Define(end) >>
  BY DEF LogCode
<1>8. \A r, n : Mere(LoadImm(r, n))
  BY DEF LoadImm, Mere, MereOps, Writers
<1> HIDE DEF kind, branch, v, out, end, t
<1>9. /\ IsList(t) /\ DefinedOnce(t) /\ Definitions(t) = {out, end} /\ Targets(t) \subseteq {out, end}
  BY <1>4, <1>5, <1>7, <1>8, LogLabels
<1>10. Honest({}, t, {})
  BY <1>6, <1>9 DEF Honest
<1> QED BY <1>2, <1>3, <1>10, EvalSettles

(* A call goes to a function of the program.                               *)
LEMMA JumpSettles ==
    ASSUME Ready, Inv', CallJump
    PROVE  SettledNext
<1> DEFINE p == Min({NArg, Len(Node.args)})
           loads == [i \in 1 .. p |-> LoadFp(A(i - 1), ArgSlot(Top.node, Top.spilled, i))]
           n == Cardinality(Top.spilled)
           order == Ascending(Top.spilled)
           reloads == [i \in 1 .. n |-> LoadFp(T(order[n + 1 - i]), SpillSlot(Top.node, n + 1 - i))]
           l == NameLabel(Node.value)
           jump == << <<"jal", l>> >>
           t == loads \o jump \o reloads
<1>1. Emit(t) /\ UNCHANGED counts /\ stage' = "running" /\ Top.at = "callNext"
  BY DEF CallJump, At, Ready
<1>2. Node.type = "FUNC_CALL" /\ Top.node \in DOMAIN input.prog.nodes
  BY <1>1, TopFacts DEF Fits, Serves, Node, Ready
<1>3. l \in FuncLabels(input.prog)
  <2>1. NamesOK(input.prog)
    BY TopFacts DEF Ready, InputOK
  <2> QED BY <1>2, <2>1 DEF NamesOK, FuncLabels, Node
<1>4. p \in Nat
  <2>1. Len(Node.args) \in Nat
    BY <1>1, <1>2, NodeFacts DEF Ready
  <2> QED BY <2>1, SmallerIsNat, SizesAssumption
<1>5. n \in Nat
  <2>1. Top.spilled \in SUBSET Temps
    BY TopFacts DEF Frame, Ready
  <2> QED BY <2>1, CountFacts
<1> HIDE DEF p, n
<1>6. Plain(loads) /\ Plain(reloads)
  <2>1. IsList(loads) /\ IsList(reloads)
    BY <1>4, <1>5, FunctionIsList
  <2>2. \A r, o : LoadFp(r, o)[1] \notin Branches \cup {"label"}
    BY DEF LoadFp, Branches
  <2> QED BY <2>1, <2>2 DEF Plain
<1>7. /\ IsList(jump) /\ Definitions(jump) = {} /\ Targets(jump) = {l} /\ DefinedOnce(jump)
  <2> HIDE DEF l
  <2>1. Defines(<<"jal", l>>) = {} /\ Uses(<<"jal", l>>) = {l}
    BY DEF Defines, Uses, Target, Branches
  <2> QED BY <2>1, OneLabel
<1> HIDE DEF loads, reloads, jump, l
<1>8. /\ IsList(loads \o jump) /\ Definitions(loads \o jump) = {} /\ Targets(loads \o jump) = {l}
      /\ DefinedOnce(loads \o jump)
  BY <1>6, <1>7, PlainLabels, JoinedLabels, JoinedLists DEF Plain
<1> DEFINE first == loads \o jump
<1>9. IsList(first) /\ Definitions(first) = {} /\ Targets(first) = {l} /\ DefinedOnce(first)
  BY <1>8
<1> HIDE DEF first
<1>10. IsList(first \o reloads) /\ Definitions(first \o reloads) = {} /\ Targets(first \o reloads) = {l}
       /\ DefinedOnce(first \o reloads)
  BY <1>6, <1>9, PlainLabels, JoinedLabels, JoinedLists DEF Plain
<1>11. t = first \o reloads
  BY DEF first
<1> HIDE DEF t
<1>12. Honest({}, t, {})
  BY <1>3, <1>10, <1>11 DEF Honest
<1>13. Emits(t)
  BY <1>1, QuietEmits
<1>14. EvalMove
  BY <1>1, EvalMoves DEF EvalNext, Ready
<1> QED BY <1>12, <1>13, <1>14, EvalSettles

(* Every step of an evaluation leaves the labels settled.                  *)
LEMMA EvalKeepsSettled ==
    ASSUME Ready, Inv', EvalNext, stage' = "running"
    PROVE  SettledNext
<1>1. CASE BinLogical
  BY <1>1, LogSettles
<1>2. CASE CallJump
  BY <1>2, JumpSettles
<1>3. CASE ~BinLogical /\ ~CallJump
  <2>1. UNCHANGED counts /\ EmitsPlain /\ EvalMove
    BY <1>3, EvalPlain, EvalMoves DEF Ready
  <2>2. PICK t : Emits(t) /\ Plain(t)
    BY <2>1, QuietEmits, MereLists DEF EmitsPlain
  <2>3. Honest({}, t, {})
    BY <2>2, PlainIsHonest
  <2> QED BY <2>1, <2>2, <2>3, EvalSettles
<1> QED BY <1>1, <1>2, <1>3

-----------------------------------------------------------------------------
(* Statements.                                                             *)

(* What the activations in the middle of a statement owe and have laid.    *)
LEMMA StmtOwes ==
    ASSUME NEW p, NEW f
    PROVE  /\ f.at \in {"ifTest", "ifElse"} =>
                Owes(p, f) = {Label("else", f.k, "")} /\ Laid(f) = {}
           /\ f.at \in {"whileTest", "whileEnd"} =>
                Owes(p, f) = {Label("while", f.k, "end")} /\ Laid(f) = {Label("while", f.k, "start")}
           /\ f.at \in {"forInit", "forCond"} =>
                /\ Owes(p, f) = Parts("for", f.k, {"cond", "body", "step", "end"})
                /\ Laid(f) = {}
           /\ f.at = "forTest" =>
                /\ Owes(p, f) = Parts("for", f.k, {"body", "step", "end"})
                /\ Laid(f) = {Label("for", f.k, "cond")}
           /\ f.at = "forStep" =>
                /\ Owes(p, f) = Parts("for", f.k, {"step", "end"})
                /\ Laid(f) = {Label("for", f.k, "cond")}
           /\ f.at = "forEnd" =>
                /\ Owes(p, f) = Parts("for", f.k, {"end"})
                /\ Laid(f) = {Label("for", f.k, "cond")}
<1>1. f.at \in {"ifTest", "ifElse", "whileTest", "whileEnd", "forInit", "forCond", "forTest",
                "forStep", "forEnd"} => f.at \notin {"prog", "gen"}
  OBVIOUS
<1> QED BY <1>1 DEF Owes, Laid

(* The fields of the activations these steps leave behind.                 *)
LEMMA MovedFields ==
    ASSUME Inv, stage = "running"
    PROVE  /\ \A pt : Resume(pt).at = pt /\ Resume(pt).k = Top.k /\ Resume(pt).node = Top.node
           /\ \A pt, k : [Resume(pt) EXCEPT !.k = k].at = pt /\ [Resume(pt) EXCEPT !.k = k].k = k
           /\ \A pt, k : LET g == [[Top EXCEPT !.k = k] EXCEPT !.at = pt]
                         IN  g.at = pt /\ g.k = k
           /\ \A k : LET g == [Top EXCEPT !.k = k]
                     IN  g.at = Top.at /\ g.k = k /\ g.node = Top.node
  BY TopFacts DEF Resume, Frame

(* A step at a control point with no debt that emits no label.             *)
LEMMA PlainSettles ==
    ASSUME Ready, Inv', UNCHANGED counts, EmitsPlain, Top.at # "prog", Owed = {},
           \/ Done
           \/ \E g : Owes(input.prog, g) = {} /\ Laid(g) = {} /\ Become(g)
           \/ \E g, m, pt : /\ Owes(input.prog, g) = {} /\ Laid(g) = {}
                            /\ pt \in {"eval", "gen"} /\ Call(g, pt, m)
                            /\ pt = "gen" => NoFunction(m)
    PROVE  SettledNext
<1>1. PICK t : Emits(t) /\ Plain(t)
  BY QuietEmits, MereLists DEF EmitsPlain
<1>2. Honest(Owed, t, {})
  BY <1>1, PlainIsHonest
<1>3. CASE Done
  BY <1>1, <1>2, <1>3, PopSettles DEF Done
<1>4. ASSUME NEW g, Owes(input.prog, g) = {}, Laid(g) = {}, Become(g) PROVE SettledNext
  BY <1>1, <1>2, <1>4, GoesOn
<1>5. ASSUME NEW g, NEW m, NEW pt \in {"eval", "gen"}, Owes(input.prog, g) = {}, Laid(g) = {},
             Call(g, pt, m), pt = "gen" => NoFunction(m)
      PROVE  SettledNext
  BY <1>1, <1>2, <1>5, Calls
<1> QED BY <1>3, <1>4, <1>5

LEMMA RestoreIsPlain ==
    /\ \A size : Plain(RestoreFrame(size))
    /\ Plain(JumpBack)
    /\ \A locals : Plain(Epilogue(locals))
<1>1. ASSUME NEW size PROVE Plain(RestoreFrame(size))
  <2> DEFINE a == <<"lw", RA, size - WordSize, SP>>
             b == <<"lw", FP, size - WordSize * 2, SP>>
             c == <<"addi", SP, SP, size>>
  <2>1. Mere(a) /\ Mere(b) /\ Mere(c) /\ RestoreFrame(size) = <<a, b, c>>
    BY DEF Mere, MereOps, Writers, RestoreFrame
  <2> HIDE DEF a, b, c
  <2> QED BY <2>1, MereLists
<1>2. Plain(JumpBack)
  <2> DEFINE a == <<"jalr", RA>>
  <2>1. Mere(a) /\ JumpBack = <<a>>
    BY DEF Mere, MereOps, JumpBack
  <2> HIDE DEF a
  <2> QED BY <2>1, MereLists
<1> QED BY <1>1, <1>2, PlainJoined DEF Epilogue

(* The statements that make no labels, and what they emit.                 *)
LEMMA SimplePlain ==
    /\ GenNothing \/ GenExprStmt \/ ExprEnd \/ GenVarDef \/ GenCompStmt \/ CompNext => EmitsPlain
    /\ VarStore \/ GenRetEmpty \/ GenRet \/ RetMove \/ FuncEnd => EmitsPlain
<1>1. GenNothing \/ GenExprStmt \/ ExprEnd \/ GenVarDef \/ GenCompStmt \/ CompNext => EmitsPlain
  BY DEF GenNothing, GenExprStmt, ExprEnd, GenVarDef, GenCompStmt, CompNext, EmitNothing, EmitsPlain
<1>2. CASE VarStore
  <2> DEFINE a == StoreFp(T(ret), LocalBase + Sym.offset)
  <2>1. Emit(<<a>>) /\ Mere(a)
    BY <1>2 DEF VarStore, StoreFp, Mere, MereOps
  <2> HIDE DEF a
  <2> QED BY <1>1, <2>1, OnePlain
<1>3. CASE GenRet \/ GenRetEmpty
  BY <1>1, <1>3, RestoreIsPlain DEF GenRet, GenRetEmpty, EmitNothing, EmitsPlain
<1>4. CASE RetMove
  <2> DEFINE a == <<"mv", A(0), T(ret)>>
  <2>1. (\E locals : Emit(<<a>> \o Epilogue(locals))) /\ Mere(a)
    BY <1>4 DEF RetMove, Mere, MereOps, Writers
  <2> HIDE DEF a
  <2>2. \A locals : Plain(<<a>> \o Epilogue(locals))
    BY <2>1, MereLists, RestoreIsPlain, PlainJoined
  <2> QED BY <1>1, <2>1, <2>2 DEF EmitsPlain
<1>5. CASE FuncEnd
  <2> DEFINE s == IF Node.ctype = "void" THEN RestoreFrame(FuncSize) ELSE <<>>
  <2>1. Emit(s \o JumpBack)
    BY <1>5 DEF FuncEnd
  <2>2. Plain(s)
    BY RestoreIsPlain, MereLists
  <2> HIDE DEF s
  <2> QED BY <1>1, <2>1, <2>2, RestoreIsPlain, PlainJoined DEF EmitsPlain
<1> QED BY <1>1, <1>2, <1>3, <1>4, <1>5

LEMMA SimpleSettles ==
    ASSUME Ready, Inv',
           \/ GenNothing \/ GenExprStmt \/ ExprEnd \/ GenVarDef \/ VarStore \/ GenRet
           \/ GenRetEmpty \/ RetMove \/ GenCompStmt \/ CompNext \/ FuncEnd
    PROVE  SettledNext
<1>1. UNCHANGED counts /\ EmitsPlain
  <2>1. UNCHANGED counts
    BY DEF GenNothing, GenExprStmt, ExprEnd, GenVarDef, VarStore, GenRet, GenRetEmpty, RetMove,
         GenCompStmt, CompNext, FuncEnd
  <2> QED BY <2>1, SimplePlain
<1>2. Inv /\ stage = "running"
  BY DEF Ready
<1>3. \/ Top.at = "gen" /\ Node.type # "FUNC_DEF"
      \/ Top.at \in {"exprEnd", "varStore", "retMove", "comp", "funcEnd"}
  BY DEF GenNothing, GenExprStmt, ExprEnd, GenVarDef, VarStore, GenRet, GenRetEmpty, RetMove,
       GenCompStmt, CompNext, FuncEnd, Generating, At
<1>4. Top.at # "prog" /\ Owed = {}
  BY <1>3, NothingOwed DEF Owed, Node
<1>5. CASE Done
  BY <1>1, <1>4, <1>5, PlainSettles
<1>6. ASSUME NEW g, NEW m, NEW pt \in {"eval", "gen"},
             g.at \in {"exprEnd", "varStore", "retMove", "comp"},
             Call(g, pt, m), pt = "gen" => NoFunction(m)
      PROVE  SettledNext
  <2>1. Owes(input.prog, g) = {} /\ Laid(g) = {}
    BY <1>6, NothingOwed
  <2> QED BY <1>1, <1>4, <1>6, <2>1, PlainSettles
<1>7. CASE GenExprStmt \/ GenVarDef \/ GenRet
  <2>1. \/ Done \/ Call(Resume("exprEnd"), "eval", Node.expr)
        \/ Call(Resume("varStore"), "eval", Node.expr) \/ Call(Resume("retMove"), "eval", Node.expr)
    BY <1>7 DEF GenExprStmt, GenVarDef, GenRet
  <2>2. \A pt : Resume(pt).at = pt
    BY <1>2, MovedFields
  <2> QED BY <1>5, <1>6, <2>1, <2>2
<1>8. CASE GenCompStmt
  <2>1. Become(Resume("comp")) /\ Resume("comp").at = "comp"
    BY <1>2, <1>8, MovedFields DEF GenCompStmt
  <2>2. Owes(input.prog, Resume("comp")) = {} /\ Laid(Resume("comp")) = {}
    BY <2>1, NothingOwed
  <2> QED BY <1>1, <1>4, <2>1, <2>2, PlainSettles
<1>9. CASE CompNext /\ ~Done
  <2> DEFINE g == [Top EXCEPT !.k = Top.k + 1]
             m == Node.stmts[Top.k + 1]
  <2>1. Top.at = "comp" /\ Top.k < Len(Node.stmts) /\ Call(g, "gen", m)
    BY <1>9 DEF CompNext, At
  <2>2. g.at = "comp"
    BY <1>2, <2>1, MovedFields
  <2>3. NoFunction(m)
    <3>1. Node.type = "COMP_STMT" /\ Len(Node.stmts) \in Nat /\ Top.k \in Nat
      BY <1>2, <2>1, NodeFacts, TopFacts DEF Serves, Frame
    <3>2. Top.k + 1 \in 1 .. Len(Node.stmts)
      BY <2>1, <3>1
    <3> QED BY <1>2, <1>4, <3>1, <3>2, PartsAreNoFunctions
  <2> HIDE DEF g, m
  <2> QED BY <1>6, <2>1, <2>2, <2>3
<1>10. CASE GenNothing \/ ExprEnd \/ VarStore \/ GenRetEmpty \/ RetMove \/ FuncEnd
  BY <1>5, <1>10 DEF GenNothing, ExprEnd, VarStore, GenRetEmpty, RetMove, FuncEnd
<1> QED BY <1>5, <1>7, <1>8, <1>9, <1>10

(* A step that defines one label, and one that branches to one.            *)
LEMMA PutLabel ==
    ASSUME NEW l
    PROVE  /\ IsList(<<Define(l)>>) /\ DefinedOnce(<<Define(l)>>)
           /\ Definitions(<<Define(l)>>) = {l} /\ Targets(<<Define(l)>>) = {}
<1> DEFINE a == Define(l)
<1>1. Defines(a) = {l} /\ Uses(a) = {}
  BY InstructionLabels
<1> HIDE DEF a
<1>2. IsList(<<a>>) /\ DefinedOnce(<<a>>) /\ Definitions(<<a>>) = {l} /\ Targets(<<a>>) = {}
  BY <1>1, OneLabel
<1> QED BY <1>2 DEF a

LEMMA Branch ==
    ASSUME NEW x, NEW y, NEW l, NEW a, a = <<"beq", x, y, l>>
    PROVE  /\ IsList(<<a>>) /\ DefinedOnce(<<a>>) /\ Definitions(<<a>>) = {} /\ Targets(<<a>>) = {l}
           /\ Defines(a) = {} /\ Uses(a) = {l}
<1>1. Defines(a) = {} /\ Uses(a) = {l}
  BY DEF Defines, Uses, Target, Branches
<1> QED BY <1>1, OneLabel

LEMMA IfSettles ==
    ASSUME Ready, Inv', GenIf \/ IfTest \/ IfElseBody
    PROVE  SettledNext
<1>1. Inv /\ stage = "running" /\ counts \in [LabelKinds -> Nat]
  BY DEF Ready, Inv, TypeOK
<1>2. CASE GenIf
  <2> DEFINE n == counts["else"]
             l == Label("if", counts["if"], "")
             e == Label("else", n, "")
             t == <<Define(l)>>
             g == [Resume("ifTest") EXCEPT !.k = n]
  <2>1. Top.at = "gen" /\ Node.type = "IF" /\ Count({"if", "else"}) /\ Emit(t)
        /\ Call(g, "eval", Node.if_expr)
    BY <1>2 DEF GenIf, Generating, At
  <2>2. Emits(t)
    BY <2>1, CountingEmits
  <2>3. IsList(t) /\ DefinedOnce(t) /\ Definitions(t) = {l} /\ Targets(t) = {}
    BY PutLabel
  <2>4. g.at = "ifTest" /\ g.k = n
    BY <1>1, MovedFields
  <2>5. Owed = {}
    BY <2>1, NothingOwed DEF Owed, Node
  <2>6. l # e
    BY DEF Label
  <2>7. Fresh(l, counts) /\ Numbered(l, counts') /\ Fresh(e, counts) /\ Numbered(e, counts')
    BY <1>1, <2>1, NextNumber DEF LabelKinds
  <2> HIDE DEF l, t, g
  <2>8. Owes(input.prog, g) = {e} /\ Laid(g) = {}
    BY <2>4, StmtOwes
  <2> HIDE DEF e, n
  <2>9. Honest(Owed, t, {e})
    BY <2>3, <2>5, <2>6, <2>7 DEF Honest
  <2> QED BY <2>1, <2>2, <2>8, <2>9, Calls
<1>3. CASE IfTest
  <2> DEFINE e == Label("else", Top.k, "")
             a == <<"beq", T(ret), ZERO, e>>
             t == <<a>>
             g == Resume("ifElse")
             m == Node.if_body
  <2>1. Top.at = "ifTest" /\ Emit(t) /\ Call(g, "gen", m) /\ UNCHANGED counts
    BY <1>3 DEF IfTest, At
  <2>2. Emits(t)
    BY <2>1, QuietEmits
  <2>3. IsList(t) /\ DefinedOnce(t) /\ Definitions(t) = {} /\ Targets(t) = {e}
    <3> HIDE DEF e
    <3>1. a = <<"beq", T(ret), ZERO, e>>
      OBVIOUS
    <3> HIDE DEF a
    <3> QED BY ONLY <3>1, Branch
  <2>4. g.at = "ifElse" /\ g.k = Top.k
    BY <1>1, MovedFields
  <2>5. Owed = {e}
    BY <2>1, StmtOwes DEF Owed
  <2>6. NoFunction(m)
    BY <1>1, <2>1, NodeFacts, PartsAreNoFunctions DEF Serves
  <2> HIDE DEF t, g, m
  <2>7. Owes(input.prog, g) = {e} /\ Laid(g) = {}
    BY <2>4, StmtOwes
  <2> HIDE DEF e
  <2>8. Honest(Owed, t, {e})
    BY <2>3, <2>5, PaysHonestly
  <2> QED BY <2>1, <2>2, <2>6, <2>7, <2>8, Calls
<1>4. CASE IfElseBody
  <2> DEFINE e == Label("else", Top.k, "")
             t == <<Define(e)>>
             g == F("gen", Node.else_body)
  <2>1. /\ Top.at = "ifElse" /\ Emit(t) /\ UNCHANGED counts
        /\ IF Node.else_body = NULL THEN Done ELSE Become(g)
    BY <1>4 DEF IfElseBody, At
  <2>2. Emits(t)
    BY <2>1, QuietEmits
  <2>3. IsList(t) /\ DefinedOnce(t) /\ Definitions(t) = {e} /\ Targets(t) = {}
    BY PutLabel
  <2>4. Owed = {e}
    BY <2>1, StmtOwes DEF Owed
  <2>5. Node.else_body # NULL => Owes(input.prog, g) = {} /\ Laid(g) = {}
    <3>1. Node.else_body # NULL => NoFunction(Node.else_body)
      BY <1>1, <2>1, NodeFacts, PartsAreNoFunctions DEF Serves
    <3> QED BY <1>1, <2>1, <3>1, CalledOwesNothing
  <2> HIDE DEF t, g, e
  <2>6. Honest(Owed, t, {})
    BY <2>3, <2>4, PaysHonestly
  <2> QED BY <2>1, <2>2, <2>5, <2>6, PopSettles, GoesOn DEF Done
<1> QED BY <1>2, <1>3, <1>4

LEMMA WhileSettles ==
    ASSUME Ready, Inv', GenWhile \/ WhileTest \/ WhileEnd
    PROVE  SettledNext
<1>1. Inv /\ stage = "running" /\ counts \in [LabelKinds -> Nat]
  BY DEF Ready, Inv, TypeOK
<1>2. CASE GenWhile
  <2> DEFINE n == counts["while"]
             l == Label("while", n, "start")
             e == Label("while", n, "end")
             t == <<Define(l)>>
             g == [Resume("whileTest") EXCEPT !.k = n]
  <2>1. Top.at = "gen" /\ Node.type = "WHILE" /\ Count({"while"}) /\ Emit(t)
        /\ Call(g, "eval", Node.expr)
    BY <1>2 DEF GenWhile, Generating, At
  <2>2. Emits(t)
    BY <2>1, CountingEmits
  <2>3. IsList(t) /\ DefinedOnce(t) /\ Definitions(t) = {l} /\ Targets(t) = {}
    BY PutLabel
  <2>4. g.at = "whileTest" /\ g.k = n
    BY <1>1, MovedFields
  <2>5. Owed = {}
    BY <2>1, NothingOwed DEF Owed, Node
  <2>6. l # e
    BY DEF Label
  <2>7. Fresh(l, counts) /\ Numbered(l, counts') /\ Fresh(e, counts) /\ Numbered(e, counts')
    BY <1>1, <2>1, NextNumber DEF LabelKinds
  <2> HIDE DEF t, g
  <2>8. Owes(input.prog, g) = {e} /\ Laid(g) = {l}
    BY <2>4, StmtOwes
  <2> HIDE DEF l, e, n
  <2>9. Honest(Owed, t, {e}) /\ {l} \subseteq Definitions(code) \cup Definitions(t)
    BY <2>3, <2>5, <2>6, <2>7 DEF Honest
  <2> QED BY <2>1, <2>2, <2>8, <2>9, Calls
<1>3. CASE WhileTest
  <2> DEFINE l == Label("while", Top.k, "start")
             e == Label("while", Top.k, "end")
             a == <<"beq", T(ret), ZERO, e>>
             t == <<a>>
             g == Resume("whileEnd")
             m == Node.body
  <2>1. Top.at = "whileTest" /\ Emit(t) /\ Call(g, "gen", m) /\ UNCHANGED counts
    BY <1>3 DEF WhileTest, At
  <2>2. Emits(t)
    BY <2>1, QuietEmits
  <2>3. IsList(t) /\ DefinedOnce(t) /\ Definitions(t) = {} /\ Targets(t) = {e}
    <3> HIDE DEF e
    <3>1. a = <<"beq", T(ret), ZERO, e>>
      OBVIOUS
    <3> HIDE DEF a
    <3> QED BY ONLY <3>1, Branch
  <2>4. g.at = "whileEnd" /\ g.k = Top.k
    BY <1>1, MovedFields
  <2>5. Owed = {e} /\ Laid(Top) = {l}
    BY <2>1, StmtOwes DEF Owed
  <2>6. NoFunction(m)
    BY <1>1, <2>1, NodeFacts, PartsAreNoFunctions DEF Serves
  <2>7. Laid(Top) \subseteq Definitions(code)
    BY TopSettled DEF Ready
  <2> HIDE DEF t, g, m
  <2>8. Owes(input.prog, g) = {e} /\ Laid(g) = {l}
    BY <2>4, StmtOwes
  <2> HIDE DEF e, l
  <2>9. Honest(Owed, t, {e})
    BY <2>3, <2>5, PaysHonestly
  <2> QED BY <2>1, <2>2, <2>5, <2>6, <2>7, <2>8, <2>9, Calls
<1>4. CASE WhileEnd
  <2> DEFINE l == Label("while", Top.k, "start")
             e == Label("while", Top.k, "end")
             a == <<"j", l>>
             b == Define(e)
             t == <<a, b>>
  <2>1. Top.at = "whileEnd" /\ Emit(t) /\ Done /\ UNCHANGED counts
    BY <1>4 DEF WhileEnd, At
  <2>2. Emits(t)
    BY <2>1, QuietEmits
  <2>3. Owed = {e} /\ Laid(Top) = {l}
    BY <2>1, StmtOwes DEF Owed
  <2>4. Laid(Top) \subseteq Definitions(code)
    BY TopSettled DEF Ready
  <2> HIDE DEF e, l
  <2>5. Defines(a) = {} /\ Uses(a) = {l} /\ Defines(b) = {e} /\ Uses(b) = {}
    BY DEF Defines, Uses, Define, Target, Branches
  <2> HIDE DEF a, b
  <2>6. IsList(t) /\ DefinedOnce(t) /\ Definitions(t) = {e} /\ Targets(t) = {l}
    BY <2>5, TwoLabels
  <2> HIDE DEF t
  <2>7. Honest(Owed, t, {})
    BY <2>3, <2>4, <2>6, PaysHonestly
  <2> QED BY <2>1, <2>2, <2>7, PopSettles DEF Done
<1> QED BY <1>2, <1>3, <1>4

(* The labels of a for loop.                                               *)
LEMMA ForParts ==
    ASSUME NEW k, NEW c, NEW b, NEW s, NEW e,
           c = Label("for", k, "cond"), b = Label("for", k, "body"),
           s = Label("for", k, "step"), e = Label("for", k, "end")
    PROVE  /\ Parts("for", k, {"cond", "body", "step", "end"}) = {c, b, s, e}
           /\ Parts("for", k, {"body", "step", "end"}) = {b, s, e}
           /\ Parts("for", k, {"step", "end"}) = {s, e}
           /\ Parts("for", k, {"end"}) = {e}
           /\ c # b /\ c # s /\ c # e /\ b # s /\ b # e /\ s # e
<1>1. c # b /\ c # s /\ c # e /\ b # s /\ b # e /\ s # e
  BY DEF Label
<1> QED BY <1>1 DEF Parts

LEMMA GenForSettles ==
    ASSUME Ready, Inv', GenFor
    PROVE  SettledNext
<1>1. Inv /\ stage = "running" /\ counts \in [LabelKinds -> Nat]
  BY DEF Ready, Inv, TypeOK
<1> DEFINE n == counts["for"]
           l == Label("for", n, "init")
           P == Parts("for", n, {"cond", "body", "step", "end"})
           t == <<Define(l)>>
           f == [Top EXCEPT !.k = n]
           g == [f EXCEPT !.at = "forCond"]
           h == [f EXCEPT !.at = "forInit"]
<1>2. /\ Top.at = "gen" /\ Node.type = "FOR" /\ Count({"for"}) /\ Emit(t)
      /\ Call(g, "gen", Node.init) \/ Call(h, "eval", Node.init)
  BY DEF GenFor, Generating, At
<1>3. Emits(t)
  BY <1>2, CountingEmits
<1>4. IsList(t) /\ DefinedOnce(t) /\ Definitions(t) = {l} /\ Targets(t) = {}
  BY PutLabel
<1>5. g.at = "forCond" /\ g.k = n /\ h.at = "forInit" /\ h.k = n
  BY <1>1, MovedFields
<1>6. Owed = {}
  BY <1>2, NothingOwed DEF Owed, Node
<1>7. NoFunction(Node.init)
  BY <1>1, <1>2, PartsAreNoFunctions
<1>8. l \notin P
  BY DEF Label, Parts
<1>9. \A q \in P \cup {l} : Fresh(q, counts) /\ Numbered(q, counts')
  <2>1. \A part : /\ Fresh(Label("for", n, part), counts)
                  /\ Numbered(Label("for", n, part), counts')
    BY <1>1, <1>2, NextNumber DEF LabelKinds
  <2> QED BY <2>1 DEF Parts
<1> HIDE DEF l, t, f, g, h
<1>10. /\ Owes(input.prog, g) = P /\ Laid(g) = {}
       /\ Owes(input.prog, h) = P /\ Laid(h) = {}
  BY <1>5, StmtOwes
<1> HIDE DEF P, n
<1>11. Honest(Owed, t, P)
  BY <1>4, <1>6, <1>8, <1>9 DEF Honest
<1> QED BY <1>2, <1>3, <1>7, <1>10, <1>11, Calls

LEMMA ForSettles ==
    ASSUME Ready, Inv', ForInit \/ ForCond \/ ForTest
    PROVE  SettledNext
<1> DEFINE c == Label("for", Top.k, "cond")
           b == Label("for", Top.k, "body")
           s == Label("for", Top.k, "step")
           e == Label("for", Top.k, "end")
<1>1. Inv /\ stage = "running"
  BY DEF Ready
<1>2. /\ Parts("for", Top.k, {"cond", "body", "step", "end"}) = {c, b, s, e}
      /\ Parts("for", Top.k, {"body", "step", "end"}) = {b, s, e}
      /\ Parts("for", Top.k, {"step", "end"}) = {s, e}
      /\ c # b /\ c # s /\ c # e /\ b # s /\ b # e /\ s # e
  BY ForParts
<1>3. Laid(Top) \subseteq Definitions(code)
  BY TopSettled DEF Ready
<1>4. Top.at \in {"forInit", "forCond", "forTest"} /\ UNCHANGED counts
  BY DEF ForInit, ForCond, ForTest, At
<1>5. NoFunction(Node.body)
  BY <1>1, <1>4, NodeFacts, PartsAreNoFunctions DEF Serves
<1>6. ForLabel("cond") = c /\ ForLabel("body") = b /\ ForLabel("end") = e
  BY DEF ForLabel
<1>7. /\ Top.at \in {"forInit", "forCond"} => Owed = {c, b, s, e}
      /\ Top.at = "forTest" => Owed = {b, s, e} /\ Laid(Top) = {c}
  BY <1>2, StmtOwes DEF Owed
<1>8. ASSUME NEW pt \in {"forCond", "forTest", "forStep"}
      PROVE  /\ pt = "forCond" => Owes(input.prog, Resume(pt)) = {c, b, s, e} /\ Laid(Resume(pt)) = {}
             /\ pt = "forTest" => Owes(input.prog, Resume(pt)) = {b, s, e} /\ Laid(Resume(pt)) = {c}
             /\ pt = "forStep" => Owes(input.prog, Resume(pt)) = {s, e} /\ Laid(Resume(pt)) = {c}
  <2> DEFINE g == Resume(pt)
  <2>1. g.at = pt /\ g.k = Top.k
    BY <1>1, MovedFields
  <2> HIDE DEF g
  <2>2. pt = "forCond" => Owes(input.prog, g) = {c, b, s, e} /\ Laid(g) = {}
    BY ONLY <1>2, <2>1, StmtOwes
  <2>3. pt = "forTest" => Owes(input.prog, g) = {b, s, e} /\ Laid(g) = {c}
    BY ONLY <1>2, <2>1, StmtOwes
  <2>4. pt = "forStep" => Owes(input.prog, g) = {s, e} /\ Laid(g) = {c}
    BY ONLY <1>2, <2>1, StmtOwes
  <2> QED BY <2>2, <2>3, <2>4 DEF g
<1> HIDE DEF c, b, s, e
<1>9. CASE ForInit
  <2>1. Top.at = "forInit" /\ UNCHANGED code /\ Become(Resume("forCond"))
    BY <1>9 DEF ForInit, At, EmitNothing
  <2>2. Emits(<<>>)
    BY <1>4, <2>1, QuietEmits
  <2>3. Honest(Owed, <<>>, {c, b, s, e})
    BY <1>7, <2>1, MereLists, PlainIsHonest
  <2> QED BY <1>8, <2>1, <2>2, <2>3, GoesOn
<1>10. CASE ForCond /\ input.prog.nodes[Node.cond].type = "EMPTY_EXPR"
  <2> DEFINE x == Define(c)
             y == Define(b)
             t == <<x, y>>
  <2>1. Top.at = "forCond" /\ Emit(t) /\ Call(Resume("forStep"), "gen", Node.body)
    BY <1>6, <1>10 DEF ForCond, At
  <2>2. Emits(t)
    BY <1>4, <2>1, QuietEmits
  <2>3. Defines(x) = {c} /\ Uses(x) = {} /\ Defines(y) = {b} /\ Uses(y) = {}
    BY InstructionLabels
  <2> HIDE DEF x, y
  <2>4. IsList(t) /\ DefinedOnce(t) /\ Definitions(t) = {c, b} /\ Targets(t) = {}
    BY <1>2, <2>3, TwoLabels
  <2> HIDE DEF t
  <2>5. Honest(Owed, t, {s, e})
    BY <1>2, <1>7, <2>1, <2>4, PaysHonestly
  <2> QED BY <1>5, <1>8, <2>1, <2>2, <2>4, <2>5, Calls
<1>11. CASE ForCond /\ input.prog.nodes[Node.cond].type # "EMPTY_EXPR"
  <2> DEFINE t == <<Define(c)>>
  <2>1. Top.at = "forCond" /\ Emit(t) /\ Call(Resume("forTest"), "eval", Node.cond)
    BY <1>6, <1>11 DEF ForCond, At
  <2>2. Emits(t)
    BY <1>4, <2>1, QuietEmits
  <2>3. IsList(t) /\ DefinedOnce(t) /\ Definitions(t) = {c} /\ Targets(t) = {}
    BY PutLabel
  <2> HIDE DEF t
  <2>4. Honest(Owed, t, {b, s, e})
    BY <1>2, <1>7, <2>1, <2>3, PaysHonestly
  <2> QED BY <1>8, <2>1, <2>2, <2>3, <2>4, Calls
<1>12. CASE ForTest
  <2> DEFINE x == <<"beq", T(ret), ZERO, e>>
             y == Define(b)
             t == <<x, y>>
  <2>1. Top.at = "forTest" /\ Emit(t) /\ Call(Resume("forStep"), "gen", Node.body)
    BY <1>6, <1>12 DEF ForTest, At
  <2>2. Emits(t)
    BY <1>4, <2>1, QuietEmits
  <2>3. Defines(x) = {} /\ Uses(x) = {e} /\ Defines(y) = {b} /\ Uses(y) = {}
    BY DEF Defines, Uses, Define, Target, Branches
  <2> HIDE DEF x, y
  <2>4. IsList(t) /\ DefinedOnce(t) /\ Definitions(t) = {b} /\ Targets(t) = {e}
    BY <2>3, TwoLabels
  <2> HIDE DEF t
  <2>5. Honest(Owed, t, {s, e})
    BY <1>2, <1>7, <2>1, <2>4, PaysHonestly
  <2> QED BY <1>3, <1>5, <1>7, <1>8, <2>1, <2>2, <2>5, Calls
<1> QED BY <1>9, <1>10, <1>11, <1>12

LEMMA ForStepSettles ==
    ASSUME Ready, Inv', ForStep \/ ForEnd
    PROVE  SettledNext
<1> DEFINE c == Label("for", Top.k, "cond")
           s == Label("for", Top.k, "step")
           e == Label("for", Top.k, "end")
           x == <<"j", c>>
           y == Define(e)
           back == <<x, y>>
           put == <<Define(s)>>
           g == Resume("forEnd")
<1>1. Inv /\ stage = "running"
  BY DEF Ready
<1>2. /\ Parts("for", Top.k, {"step", "end"}) = {s, e} /\ Parts("for", Top.k, {"end"}) = {e}
      /\ s # e
  BY ForParts
<1>3. Laid(Top) \subseteq Definitions(code)
  BY TopSettled DEF Ready
<1>4. Top.at \in {"forStep", "forEnd"} /\ UNCHANGED counts
  BY DEF ForStep, ForEnd, At
<1>5. ForLabel("step") = s /\ LoopBack = back
  BY DEF ForLabel, LoopBack
<1>6. /\ Top.at = "forStep" => Owed = {s, e} /\ Laid(Top) = {c}
      /\ Top.at = "forEnd" => Owed = {e} /\ Laid(Top) = {c}
  BY <1>2, StmtOwes DEF Owed
<1>7. IsList(put) /\ DefinedOnce(put) /\ Definitions(put) = {s} /\ Targets(put) = {}
  BY PutLabel
<1>8. IsList(back) /\ DefinedOnce(back) /\ Definitions(back) = {e} /\ Targets(back) = {c}
  <2> HIDE DEF c, e
  <2>1. Defines(x) = {} /\ Uses(x) = {c} /\ Defines(y) = {e} /\ Uses(y) = {}
    BY DEF Defines, Uses, Define, Target, Branches
  <2> HIDE DEF x, y
  <2> QED BY <2>1, TwoLabels
<1>9. CASE ForEnd
  <2>1. Top.at = "forEnd" /\ Emit(back) /\ Done
    BY <1>5, <1>9 DEF ForEnd, At
  <2> HIDE DEF back, c, e
  <2>2. Emits(back)
    BY <1>4, <2>1, QuietEmits
  <2>3. Honest(Owed, back, {})
    BY <1>3, <1>6, <1>8, <2>1, PaysHonestly
  <2> QED BY <2>1, <2>2, <2>3, PopSettles DEF Done
<1>10. CASE ForStep /\ input.prog.nodes[Node.step].type = "EMPTY_EXPR"
  <2> DEFINE t == put \o back
  <2>1. Top.at = "forStep" /\ Emit(t) /\ Done
    BY <1>5, <1>10 DEF ForStep, At
  <2> HIDE DEF put, back, c, s, e
  <2>2. IsList(t) /\ DefinedOnce(t) /\ Definitions(t) = {s, e} /\ Targets(t) = {c}
    BY <1>2, <1>7, <1>8, JoinedLists, JoinedLabels
  <2> HIDE DEF t
  <2>3. Emits(t)
    BY <1>4, <2>1, QuietEmits
  <2>4. Honest(Owed, t, {})
    BY <1>3, <1>6, <2>1, <2>2, PaysHonestly
  <2> QED BY <2>1, <2>3, <2>4, PopSettles DEF Done
<1>11. CASE ForStep /\ input.prog.nodes[Node.step].type # "EMPTY_EXPR"
  <2>1. Top.at = "forStep" /\ Emit(put) /\ Call(g, "eval", Node.step)
    BY <1>5, <1>11 DEF ForStep, At
  <2>2. g.at = "forEnd" /\ g.k = Top.k
    BY <1>1, MovedFields
  <2> HIDE DEF put, g
  <2>3. Owes(input.prog, g) = {e} /\ Laid(g) = {c}
    BY <1>2, <2>2, StmtOwes
  <2> HIDE DEF c, s, e
  <2>4. Emits(put)
    BY <1>4, <2>1, QuietEmits
  <2>5. Honest(Owed, put, {e})
    BY <1>2, <1>6, <1>7, <2>1, PaysHonestly
  <2> QED BY <1>3, <1>6, <2>1, <2>3, <2>4, <2>5, Calls
<1> QED BY <1>9, <1>10, <1>11

-----------------------------------------------------------------------------
(* Functions and the program.                                              *)

(* A list that starts with its only label.                                 *)
LEMMA LabelFirst ==
    ASSUME NEW s, IsList(s), 1 \in DOMAIN s, NEW l, s[1] = Define(l),
           \A i \in DOMAIN s : i # 1 => s[i][1] \notin Branches \cup {"label"}
    PROVE  DefinedOnce(s) /\ Definitions(s) = {l} /\ Targets(s) = {}
<1>1. s[1][1] = "label" /\ s[1][2] = l
  BY DEF Define
<1>2. LabelPlaces(s) = {1}
  BY <1>1 DEF LabelPlaces
<1>3. Targets(s) = {}
  BY <1>1 DEF Targets, Branches
<1> QED BY <1>1, <1>2, <1>3 DEF DefinedOnce, Definitions

(* A function pays what its activation owes: the label that is its name.   *)
LEMMA FuncDefSettles ==
    ASSUME Ready, Inv', GenFuncDef
    PROVE  SettledNext
<1> DEFINE homes == [i \in 1 .. NArg |-> StoreFp(A(i - 1), ArgHome(i - 1))]
           size  == FuncSize
           l     == NameLabel(Node.value)
           setup == << Define(l), <<"addi", SP, SP, -size>>,
                       <<"sw", RA, size - WordSize, SP>>,
                       <<"sw", FP, size - WordSize * 2, SP>>,
                       <<"addi", FP, SP, size>> >>
           t     == setup \o homes
           g     == Resume("funcEnd")
           m     == Node.body
<1>1. Inv /\ stage = "running"
  BY DEF Ready
<1>2. /\ Top.at = "gen" /\ Node.type = "FUNC_DEF" /\ Emit(t) /\ UNCHANGED counts
      /\ Call(g, "gen", m)
  BY DEF GenFuncDef, Generating, At
<1>3. Owed = {l}
  BY <1>2 DEF Owed, Owes, Node
<1>4. g.at = "funcEnd"
  BY <1>1, MovedFields
<1>5. NoFunction(m)
  BY <1>1, <1>2, PartsAreNoFunctions
<1>6. Plain(homes)
  <2>1. IsList(homes)
    BY FunctionIsList, SizesAssumption
  <2>2. \A i \in DOMAIN homes : homes[i][1] = "sw"
    BY DEF StoreFp
  <2> QED BY <2>1, <2>2 DEF Plain, Branches
<1> HIDE DEF size, l
<1>7. IsList(setup) /\ DefinedOnce(setup) /\ Definitions(setup) = {l} /\ Targets(setup) = {}
  <2>1. IsList(setup)
    BY TuplesAreLists
  <2>2. /\ DOMAIN setup = 1 .. 5 /\ setup[1] = Define(l)
        /\ setup[2][1] = "addi" /\ setup[3][1] = "sw" /\ setup[4][1] = "sw" /\ setup[5][1] = "addi"
    OBVIOUS
  <2> HIDE DEF setup
  <2>3. ASSUME NEW i \in DOMAIN setup, i # 1 PROVE setup[i][1] \notin Branches \cup {"label"}
    <3>1. i \in {2, 3, 4, 5}
      BY <2>2, <2>3
    <3> QED BY <2>2, <3>1 DEF Branches
  <2> QED BY <2>1, <2>2, <2>3, LabelFirst
<1> HIDE DEF setup, homes, g, m
<1>8. IsList(t) /\ DefinedOnce(t) /\ Definitions(t) = {l} /\ Targets(t) = {}
  BY <1>6, <1>7, PlainLabels, JoinedLists, JoinedLabels DEF Plain
<1> HIDE DEF t
<1>9. Emits(t)
  BY <1>2, QuietEmits
<1>10. Honest(Owed, t, {})
  BY <1>3, <1>8, PaysHonestly
<1>11. Owes(input.prog, g) = {} /\ Laid(g) = {}
  BY <1>4, NothingOwed
<1> QED BY <1>2, <1>5, <1>9, <1>10, <1>11, Calls

(* The names of functions are labels of their own.                         *)
LEMMA NamesApart ==
    ASSUME NEW p, Linkable(p)
    PROVE  /\ \A f \in FuncNames(p) \cup {"_start"} : NameLabel(f) = <<"func", f, "">>
           /\ \A f, h \in FuncNames(p) \cup {"_start"} : NameLabel(f) = NameLabel(h) => f = h
           /\ \A f \in FuncNames(p) \cup {"_start"} : \A n : Numbered(NameLabel(f), n)
<1>1. \A f \in FuncNames(p) \cup {"_start"} : NameLabel(f) = <<"func", f, "">>
  BY LookalikesAssumption DEF Linkable, NameLabel, Label
<1>2. \A f, h : <<"func", f, "">> = <<"func", h, "">> => f = h
  <2>1. ASSUME NEW f, NEW h, <<"func", f, "">> = <<"func", h, "">> PROVE f = h
    <3>1. <<"func", f, "">>[2] = f /\ <<"func", h, "">>[2] = h
      OBVIOUS
    <3> QED BY <2>1, <3>1
  <2> QED BY <2>1
<1>3. ASSUME NEW f \in FuncNames(p) \cup {"_start"}, NEW n PROVE Numbered(NameLabel(f), n)
  <2> DEFINE l == NameLabel(f)
  <2>1. l = <<"func", f, "">>
    BY <1>1
  <2> HIDE DEF l
  <2>2. l[1] = "func"
    BY <2>1
  <2>3. Numbered(l, n)
    BY <2>2 DEF Numbered, LabelKinds
  <2> QED BY <2>3 DEF l
<1>4. ASSUME NEW f \in FuncNames(p) \cup {"_start"}, NEW h \in FuncNames(p) \cup {"_start"},
             NameLabel(f) = NameLabel(h)
      PROVE  f = h
  BY <1>1, <1>2, <1>4
<1> QED BY <1>1, <1>3, <1>4

(* gen_asm hands the label of the next function over to its translation.   *)
LEMMA ProgSettles ==
    ASSUME Ready, Inv', GenProg, Linkable(input.prog)
    PROVE  SettledNext /\ (stage' = "done" => ctl' = <<>>)
<1> DEFINE p == input.prog
           n == Len(p.funcs)
           Rest(k) == {NameLabel(FuncName(p, i)) : i \in {h \in DOMAIN p.funcs : h > k}}
<1>1. /\ Inv /\ stage = "running" /\ Top.at = "prog" /\ UNCHANGED counts /\ UNCHANGED code
      /\ IF Top.k < n
         THEN Call([Top EXCEPT !.k = Top.k + 1], "gen", p.funcs[Top.k + 1]) /\ UNCHANGED stage
         ELSE Done
  BY DEF GenProg, At, EmitNothing, Ready
<1>2. Emits(<<>>)
  BY <1>1, QuietEmits
<1>3. \A f : f.at = "prog" => Owes(p, f) = Rest(f.k) /\ Laid(f) = {}
  BY DEF Owes, Laid
<1>4. Owed = Rest(Top.k) /\ Top.k \in Nat
  BY <1>1, <1>3, TopFacts DEF Owed, Frame
<1>5. /\ p.funcs \in Seq({m \in DOMAIN p.nodes : p.nodes[m].type = "FUNC_DEF"})
      /\ NamesOK(p)
  BY <1>1, TopFacts, ProgramFacts DEF InputOK
<1>6. n \in Nat /\ DOMAIN p.funcs = 1 .. n /\ \A i \in 1 .. n : p.nodes[p.funcs[i]].type = "FUNC_DEF"
  BY <1>5
<1>7. CASE Top.k < n
  <2> DEFINE k == Top.k
             g == [Top EXCEPT !.k = k + 1]
             m == p.funcs[k + 1]
             f == F("gen", m)
             l == NameLabel(FuncName(p, k + 1))
  <2>1. Call(g, "gen", m) /\ stage' = "running"
    BY <1>1, <1>7
  <2>2. g.at = "prog" /\ g.k = k + 1
    BY <1>1, MovedFields
  <2>3. k + 1 \in 1 .. n /\ p.nodes[m].type = "FUNC_DEF"
    BY <1>4, <1>6, <1>7
  <2>4. f.at = "gen" /\ f.node = m
    BY DEF F
  <2>5. Owes(p, f) = {l} /\ Laid(f) = {}
    <3> HIDE DEF f, m
    <3>1. Owes(p, f) = {NameLabel(p.nodes[m].value)} /\ Laid(f) = {}
      BY <2>3, <2>4 DEF Owes, Laid
    <3> QED BY <3>1 DEF FuncName, m
  <2>6. Owes(p, g) = Rest(k + 1) /\ Laid(g) = {}
    <3> HIDE DEF g
    <3> QED BY <1>3, <2>2
  <2>7. Rest(k) = Rest(k + 1) \cup {l}
    <3>1. {h \in 1 .. n : h > k} = {h \in 1 .. n : h > k + 1} \cup {k + 1}
      BY <1>4, <1>6, <2>3
    <3> DEFINE N(i) == NameLabel(FuncName(p, i))
    <3>2. \A X, Y, z : X = Y \cup {z} => {N(i) : i \in X} = {N(i) : i \in Y} \cup {N(z)}
      <4> HIDE DEF N
      <4> QED OBVIOUS
    <3> QED BY <1>6, <3>1, <3>2
  <2>8. l \notin Rest(k + 1)
    <3> SUFFICES ASSUME NEW i \in 1 .. n, i > k + 1, NameLabel(FuncName(p, i)) = l PROVE FALSE
      BY <1>6
    <3>1. FuncName(p, i) \in FuncNames(p) /\ FuncName(p, k + 1) \in FuncNames(p)
      BY <1>6, <2>3 DEF FuncNames
    <3>2. FuncName(p, i) = FuncName(p, k + 1)
      BY <3>1, NamesApart
    <3>3. i = k + 1
      BY <1>5, <1>6, <2>3, <3>2 DEF NamesOK
    <3> QED BY <1>4, <3>3
  <2>9. g \in Frame /\ f \in Frame
    BY <1>1, <1>2, <2>1, TopSettled, NewFrames DEF Emits
  <2> DEFINE R == Rest(k)
             R1 == Rest(k + 1)
  <2>10. Owed = R /\ R = R1 \cup {l} /\ l \notin R1 /\ Owes(p, g) = R1
    BY <1>4, <2>6, <2>7, <2>8
  <2> HIDE DEF R, R1, l, g
  <2>11. Honest(Owed, <<>>, Owes(p, g) \cup Owes(p, f))
    <3>1. Owed = Owes(p, g) \cup Owes(p, f)
      BY <2>5, <2>10
    <3> QED BY <3>1, MereLists, PlainIsHonest
  <2>12. Owes(p, g) \cap Owes(p, f) = {}
    BY <2>5, <2>10
  <2>13. SettledNext
    BY <1>2, <2>1, <2>5, <2>6, <2>9, <2>11, <2>12, CallSettles
  <2> QED BY <2>1, <2>13
<1>8. CASE ~(Top.k < n)
  <2>1. Done
    BY <1>1, <1>8
  <2>2. Owed = {}
    <3>1. {h \in 1 .. n : h > Top.k} = {}
      BY <1>4, <1>6, <1>8
    <3> QED BY <1>4, <1>6, <3>1
  <2>3. Honest(Owed, <<>>, {})
    BY <2>2, MereLists, PlainIsHonest
  <2>4. SettledNext
    BY <1>2, <2>1, <2>3, PopSettles DEF Done
  <2>5. ctl' = <<>>
    <3>1. Len(ctl) = 1 /\ ctl \in Seq(Frame) /\ ctl # <<>> /\ Below = Pop(ctl)
      BY <1>1, TopFacts DEF FrameOK, Top
    <3>2. Below \in Seq(Frame) /\ Len(Below) = 0
      BY <3>1, PopFacts
    <3>3. Below = <<>>
      BY <3>2
    <3> QED BY <2>1, <3>3 DEF Done
  <2> QED BY <2>4, <2>5
<1> QED BY <1>7, <1>8

(* The start-up code has the first label; everything else is still owed.   *)
LEMMA StartSettles ==
    ASSUME stage = "idle", NEW i \in Inputs, GenAsm(i), Linkable(i.prog)
    PROVE  Settled(i.prog, ctl', counts', code')
<1> DEFINE p == i.prog
           f == F("prog", NULL)
           c == <<f>>
           start == NameLabel("_start")
           main == NameLabel("main")
           s == << Define(start), <<"call", main>>, <<"li", A(7), 93>>, <<"ecall">> >>
<1>1. ctl' = c /\ code' = s
  BY DEF GenAsm, Startup
<1>2. \A h \in DOMAIN p.funcs : h \in Nat /\ h > 0
  <2>1. p.funcs \in Seq({n \in DOMAIN p.nodes : p.nodes[n].type = "FUNC_DEF"})
    BY InputsAssumption DEF InputOK, ProgramOK, HeapOK
  <2> QED BY <2>1
<1>3. Owes(p, f) = FuncLabels(p) /\ Laid(f) = {}
  <2>1. f.at = "prog" /\ f.k = 0
    BY DEF F
  <2> HIDE DEF f
  <2>2. Owes(p, f) = {NameLabel(FuncName(p, j)) : j \in {h \in DOMAIN p.funcs : h > 0}} /\ Laid(f) = {}
    BY <2>1 DEF Owes, Laid
  <2>3. {h \in DOMAIN p.funcs : h > 0} = DOMAIN p.funcs
    BY <1>2
  <2> QED BY <2>2, <2>3 DEF FuncLabels, FuncNames
<1> HIDE DEF f
<1>4. DOMAIN c = {1} /\ c[1] = f
  OBVIOUS
<1> HIDE DEF c
<1>5. Debt(p, c) = FuncLabels(p) /\ AllLaid(c) = {} /\ Apart(p, c)
  BY <1>3, <1>4 DEF Debt, AllLaid, Apart
<1>6. main \in FuncLabels(p)
  BY DEF Linkable, FuncLabels
<1>7. start \notin FuncLabels(p)
  <2> SUFFICES ASSUME NEW g \in FuncNames(p), start = NameLabel(g) PROVE FALSE
    BY DEF FuncLabels
  <2>1. g = "_start"
    BY NamesApart
  <2> QED BY <2>1 DEF Linkable
<1>8. ASSUME NEW l \in FuncLabels(p) \cup {start} PROVE \A n : Numbered(l, n)
  <2>1. PICK g \in FuncNames(p) \cup {"_start"} : l = NameLabel(g)
    BY DEF FuncLabels
  <2> QED BY <2>1, NamesApart
<1> HIDE DEF start, main
<1>9. DefinedOnce(s) /\ Definitions(s) = {start} /\ Targets(s) = {main}
  <2>1. /\ DOMAIN s = 1 .. 4 /\ s[1] = Define(start) /\ s[2] = <<"call", main>>
        /\ s[3][1] = "li" /\ s[4][1] = "ecall"
    OBVIOUS
  <2>2. s[1][1] = "label" /\ s[1][2] = start /\ s[2][1] = "call" /\ Target(s[2]) = main
    BY <2>1 DEF Define, Target
  <2> HIDE DEF s
  <2>3. \A h \in DOMAIN s : h = 1 \/ h = 2 \/ h = 3 \/ h = 4
    BY <2>1
  <2>4. LabelPlaces(s) = {1}
    BY <2>1, <2>2, <2>3 DEF LabelPlaces
  <2>5. Targets(s) = {main}
    BY <2>1, <2>2, <2>3 DEF Targets, Branches
  <2> QED BY <2>2, <2>4, <2>5 DEF DefinedOnce, Definitions
<1> HIDE DEF s
<1>10. Settled(p, c, counts', s)
  BY <1>5, <1>6, <1>7, <1>8, <1>9 DEF Settled
<1> QED BY <1>1, <1>10

(* Only the last step of gen_asm ends the translation in good order.       *)
LEMMA StageStays ==
    ASSUME GenNext, ~GenProg, stage' \in {"running", "done"}
    PROVE  stage = "running" /\ stage' = "running" /\ ~RetWild
<1>1. CASE EvalNext
  BY <1>1 DEF EvalNext, NoFreeRegister, EvalIntConst, EvalIdent, EvalLval, EvalUnary, UnaryEnd,
       EvalBinExp, BinLeft, BinInPlace, BinOneReg, BinLogical, BinTwoReg, EvalVarAsgn, AsgnLeft,
       AsgnRight, EvalFuncCall, CallNextArg, CallStoreArg, CallJump, CallMove, EvalUnknown,
       Evaluating, At, RetWild
<1>2. CASE StmtNext \/ GenFuncDef \/ FuncEnd
  BY <1>2 DEF StmtNext, GenNothing, GenExprStmt, ExprEnd, GenVarDef, VarStore, GenRetEmpty, GenRet,
       RetWild, RetMove, GenIf, IfTest, IfElseBody, GenCompStmt, CompNext, GenWhile, WhileTest, WhileEnd,
       GenFor, ForInit, ForCond, ForTest, ForStep, ForEnd, GenFuncDef, FuncEnd, Generating, At
<1> QED BY <1>1, <1>2 DEF GenNext

(* Every step of a running generator leaves the labels settled.            *)
LEMMA StepSettles ==
    ASSUME Ready, Inv', GenNext, ~GenProg, stage' = "running"
    PROVE  SettledNext
<1>1. CASE EvalNext
  BY <1>1, EvalKeepsSettled
<1>2. CASE StmtNext
  <2>1. ~RetWild
    BY StageStays
  <2> QED BY <1>2, <2>1, SimpleSettles, IfSettles, WhileSettles, GenForSettles, ForSettles, ForStepSettles
          DEF StmtNext
<1>3. CASE GenFuncDef
  BY <1>3, FuncDefSettles
<1>4. CASE FuncEnd
  BY <1>4, SimpleSettles
<1> QED BY <1>1, <1>2, <1>3, <1>4 DEF GenNext

-----------------------------------------------------------------------------
(* The invariant on labels is inductive.                                   *)
LEMMA InitLabelInv == Init => LabelInv
  BY DEF Init, LabelInv

LEMMA NextLabelInv ==
    ASSUME Inv, Inv', CodeOK, LabelInv, [Next]_vars
    PROVE  LabelInv'
<1> SUFFICES ASSUME stage' \in {"running", "done"}, Linkable(input'.prog)
             PROVE  Settled(input'.prog, ctl', counts', code') /\ (stage' = "done" => ctl' = <<>>)
  BY DEF LabelInv
<1>1. CASE stage = "idle" /\ \E i \in Inputs : GenAsm(i)
  <2>1. PICK i \in Inputs : GenAsm(i)
    BY <1>1
  <2>2. input' = i /\ stage' = "running"
    BY <2>1 DEF GenAsm
  <2>3. Settled(i.prog, ctl', counts', code')
    BY <1>1, <2>1, <2>2, StartSettles
  <2> QED BY <2>2, <2>3
<1>2. CASE GenNext
  <2>1. stage = "running"
    BY <1>2, StepPoints DEF GenNext
  <2>2. input' = input
    BY <1>2 DEF GenNext, EvalNext, NoFreeRegister, EvalIntConst, EvalIdent, EvalLval, EvalUnary,
         UnaryEnd, EvalBinExp, BinLeft, BinInPlace, BinOneReg, BinLogical, BinTwoReg, EvalVarAsgn,
         AsgnLeft, AsgnRight, EvalFuncCall, CallNextArg, CallStoreArg, CallJump, CallMove,
         EvalUnknown, StmtNext, GenNothing, GenExprStmt, ExprEnd, GenVarDef, VarStore, GenRetEmpty, GenRet,
         RetWild, RetMove, GenIf, IfTest, IfElseBody, GenCompStmt, CompNext, GenWhile, WhileTest,
         WhileEnd, GenFor, ForInit, ForCond, ForTest, ForStep, ForEnd, GenFuncDef, FuncEnd, GenProg
  <2>3. Ready /\ Linkable(input.prog)
    BY <2>1, <2>2 DEF Ready, LabelInv, CodeOK
  <2>4. CASE GenProg
    BY <2>2, <2>3, <2>4, ProgSettles DEF SettledNext
  <2>5. CASE ~GenProg
    <3>1. stage' = "running"
      BY <1>2, <2>5, StageStays
    <3>2. SettledNext
      BY <1>2, <2>3, <2>5, <3>1, StepSettles
    <3> QED BY <2>2, <3>1, <3>2 DEF SettledNext
  <2> QED BY <2>4, <2>5
<1>3. CASE Stopped \/ UNCHANGED vars
  BY <1>3 DEF Stopped, vars, LabelInv
<1> QED BY <1>1, <1>2, <1>3 DEF Next

(* LabelsResolve: whatever program with a main and with names of its own   *)
(* is translated, each label of the output is defined once, and every      *)
(* branch, jump and call of it goes to a label of the output.              *)
THEOREM LabelsFound == Spec => []LabelsResolve
<1>1. CodeOK /\ Inv /\ [Next]_vars => CodeOK'
  BY NextKeeps
<1>2. LabelInv /\ Inv /\ Inv' /\ CodeOK /\ [Next]_vars => LabelInv'
  BY NextLabelInv
<1>3. LabelInv => LabelsResolve
  <2> SUFFICES ASSUME LabelInv, stage = "done", Linkable(input.prog) PROVE Assembles
    BY DEF LabelsResolve
  <2>1. DefinedOnce(code) /\ Targets(code) \subseteq Definitions(code)
    BY DEF LabelInv, Settled, Debt
  <2>2. Labels = LabelPlaces(code)
    BY DEF Labels, LabelPlaces
  <2>3. ASSUME NEW i \in DOMAIN code, code[i][1] \in Branches
        PROVE  \E l \in Labels : code[l][2] = Target(code[i])
    <3>1. Target(code[i]) \in Definitions(code)
      BY <2>1, <2>3 DEF Targets
    <3> QED BY <2>2, <3>1 DEF Definitions
  <2> QED BY <2>1, <2>2, <2>3 DEF Assembles, DefinedOnce
<1> QED BY <1>1, <1>2, <1>3, InitCodeOK, InitLabelInv, Invariance, PTL DEF Spec


-----------------------------------------------------------------------------
(* The area of a call.                                                     *)

(* What is known of the stack besides Inv: an activation that waits for an *)
(* argument has one more to wait for, and what is above the activation of  *)
(* the program works on a function.                                        *)
Wanted(p, f) == f.at = "callArg" => f.k < Len(p.nodes[f.node].args)
InFunction(p, c) == Len(c) > 1 => p.nodes[c[2].node].type = "FUNC_DEF"
AreaOK(p, c) == InFunction(p, c) /\ \A j \in DOMAIN c : Wanted(p, c[j])
AreaInv == stage = "running" => AreaOK(input.prog, ctl)

StackMove ==
    \/ ctl' = Below
    \/ \E g : Wanted(input.prog, g) /\ Become(g)
    \/ \E g, m : \E pt \in {"eval", "gen"} : Wanted(input.prog, g) /\ Call(g, pt, m)

(* All points but one are out of the question.                             *)
LEMMA NotWaiting == \A f : f.at \in Points \ {"callArg"} => Wanted(input.prog, f)
  BY DEF Wanted

(* Only CallNextArg makes an activation wait for an argument.              *)
LEMMA EvalStackMove ==
    ASSUME Inv, EvalNext, stage' = "running"
    PROVE  StackMove
<1>1. CASE CallNextArg
  <2> DEFINE g == Resume("callArg")
             m == Node.args[Top.k + 1]
  <2>1. stage = "running" /\ Top.k < Len(Node.args) /\ Call(g, "eval", m)
    BY <1>1 DEF CallNextArg, At
  <2>2. g.k = Top.k /\ g.node = Top.node
    BY <2>1, MovedFields
  <2>3. Wanted(input.prog, g)
    BY <2>1, <2>2 DEF Wanted, Node
  <2> HIDE DEF g, m
  <2> QED BY <2>1, <2>3 DEF StackMove
<1>2. CASE ~CallNextArg
  <2>1. \/ ctl' = Below
        \/ \E g : g.at \in EvalPoints \ {"callArg"} /\ Become(g)
        \/ \E g, m : g.at \in EvalPoints \ {"callArg"} /\ Call(g, "eval", m)
    BY <1>2, EvalMoves DEF EvalMove
  <2> QED BY <2>1, NotWaiting DEF StackMove, Points
<1> QED BY <1>1, <1>2

(* A statement calls or goes on at a point of a statement.                 *)
LEMMA StmtStackMove ==
    ASSUME Inv, StmtNext \/ GenFuncDef \/ FuncEnd \/ GenProg, stage' = "running"
    PROVE  StackMove
<1>1. stage = "running" /\ Top.at \in StmtPoints
  BY StepPoints
<1>2. /\ \A pt : Resume(pt).at = pt
      /\ \A pt, k : [Resume(pt) EXCEPT !.k = k].at = pt
      /\ \A pt, k : [[Top EXCEPT !.k = k] EXCEPT !.at = pt].at = pt
      /\ \A k : [Top EXCEPT !.k = k].at = Top.at
  BY <1>1, MovedFields
<1>3. ASSUME NEW g, g.at \in StmtPoints, NEW m, NEW pt \in {"eval", "gen"},
             Call(g, pt, m)
      PROVE  StackMove
  BY <1>3, NotWaiting DEF StackMove, Points, StmtPoints, StmtWaits
<1>4. ASSUME NEW g, g.at \in StmtPoints, Become(g) PROVE StackMove
  BY <1>4, NotWaiting DEF StackMove, Points, StmtPoints, StmtWaits
<1>5. CASE Done
  BY <1>5 DEF Done, StackMove
<1>6. StmtWaits \cup {"gen", "ifElse", "comp", "whileEnd", "forCond", "forStep", "funcEnd", "prog"}
        \subseteq StmtPoints /\ {"retMove", "ifTest", "varStore", "whileTest",
               "forInit", "forTest", "forEnd", "exprEnd"} = StmtWaits
  BY DEF StmtPoints, StmtWaits
<1>7. CASE GenExprStmt \/ GenVarDef \/ GenRet
  <2>1. Done \/ \E pt \in {"exprEnd", "varStore", "retMove"} : Call(Resume(pt), "eval", Node.expr)
    BY <1>7 DEF GenExprStmt, GenVarDef, GenRet
  <2> QED BY <1>2, <1>3, <1>5, <1>6, <2>1
<1>8. CASE GenIf \/ IfTest \/ IfElseBody
  <2>1. \/ Done
        \/ Call([Resume("ifTest") EXCEPT !.k = counts["else"]], "eval", Node.if_expr)
        \/ Call(Resume("ifElse"), "gen", Node.if_body)
        \/ Become(F("gen", Node.else_body))
    BY <1>8 DEF GenIf, IfTest, IfElseBody
  <2>2. F("gen", Node.else_body).at = "gen"
    BY DEF F
  <2> DEFINE g == [Resume("ifTest") EXCEPT !.k = counts["else"]]
             f == F("gen", Node.else_body)
  <2>3. g.at = "ifTest"
    BY <1>2
  <2>4. Done \/ Call(g, "eval", Node.if_expr) \/ Call(Resume("ifElse"), "gen", Node.if_body) \/ Become(f)
    BY <2>1
  <2> HIDE DEF f, g
  <2> QED BY <1>2, <1>3, <1>4, <1>5, <1>6, <2>2, <2>3, <2>4 DEF f
<1>9. CASE GenCompStmt \/ CompNext
  <2>1. \/ Done
        \/ Become(Resume("comp"))
        \/ Top.at = "comp" /\ Call([Top EXCEPT !.k = Top.k + 1], "gen", Node.stmts[Top.k + 1])
    BY <1>9 DEF GenCompStmt, CompNext, At
  <2> DEFINE g == [Top EXCEPT !.k = Top.k + 1]
             m == Node.stmts[Top.k + 1]
  <2>2. g.at = Top.at /\ (Done \/ Become(Resume("comp")) \/ (Top.at = "comp" /\ Call(g, "gen", m)))
    BY <1>2, <2>1
  <2> HIDE DEF g, m
  <2> QED BY <1>2, <1>3, <1>4, <1>5, <1>6, <2>2
<1>10. CASE GenWhile \/ WhileTest \/ WhileEnd
  <2>1. \/ Done
        \/ Call([Resume("whileTest") EXCEPT !.k = counts["while"]], "eval", Node.expr)
        \/ Call(Resume("whileEnd"), "gen", Node.body)
    BY <1>10 DEF GenWhile, WhileTest, WhileEnd
  <2> DEFINE g == [Resume("whileTest") EXCEPT !.k = counts["while"]]
  <2>2. g.at = "whileTest"
    BY <1>2
  <2>3. Done \/ Call(g, "eval", Node.expr) \/ Call(Resume("whileEnd"), "gen", Node.body)
    BY <2>1
  <2> HIDE DEF g
  <2> QED BY <1>2, <1>3, <1>5, <1>6, <2>2, <2>3
<1>11. CASE GenFor
  <2>1. \/ Call([[Top EXCEPT !.k = counts["for"]] EXCEPT !.at = "forCond"], "gen", Node.init)
        \/ Call([[Top EXCEPT !.k = counts["for"]] EXCEPT !.at = "forInit"], "eval", Node.init)
    BY <1>11 DEF GenFor
  <2> DEFINE f == [[Top EXCEPT !.k = counts["for"]] EXCEPT !.at = "forCond"]
             g == [[Top EXCEPT !.k = counts["for"]] EXCEPT !.at = "forInit"]
  <2>2. f.at = "forCond" /\ g.at = "forInit"
    BY <1>2
  <2>3. Call(f, "gen", Node.init) \/ Call(g, "eval", Node.init)
    BY <2>1
  <2> HIDE DEF f, g
  <2> QED BY <1>3, <1>6, <2>2, <2>3
<1>12. CASE ForInit \/ ForCond \/ ForTest
  <2>1. \/ Become(Resume("forCond"))
        \/ Call(Resume("forStep"), "gen", Node.body)
        \/ Call(Resume("forTest"), "eval", Node.cond)
    BY <1>12 DEF ForInit, ForCond, ForTest
  <2> QED BY <1>2, <1>3, <1>4, <1>6, <2>1
<1>13. CASE ForStep \/ ForEnd
  <2>1. Done \/ Call(Resume("forEnd"), "eval", Node.step)
    BY <1>13 DEF ForStep, ForEnd
  <2> QED BY <1>2, <1>3, <1>5, <1>6, <2>1
<1>14. CASE GenFuncDef \/ FuncEnd
  <2>1. Done \/ Call(Resume("funcEnd"), "gen", Node.body)
    BY <1>14 DEF GenFuncDef, FuncEnd
  <2> QED BY <1>2, <1>3, <1>5, <1>6, <2>1
<1>15. CASE GenProg
  <2>1. \/ Done
        \/ Top.at = "prog" /\ Call([Top EXCEPT !.k = Top.k + 1], "gen", input.prog.funcs[Top.k + 1])
    BY <1>15 DEF GenProg, At
  <2> DEFINE g == [Top EXCEPT !.k = Top.k + 1]
             m == input.prog.funcs[Top.k + 1]
  <2>2. g.at = Top.at /\ (Done \/ (Top.at = "prog" /\ Call(g, "gen", m)))
    BY <1>2, <2>1
  <2> HIDE DEF g, m
  <2> QED BY <1>3, <1>5, <1>6, <2>2
<1>16. CASE GenNothing \/ ExprEnd \/ VarStore \/ GenRetEmpty \/ RetMove
  BY <1>5, <1>16 DEF GenNothing, ExprEnd, VarStore, GenRetEmpty, RetMove
<1>17. ~RetWild
  BY DEF RetWild
<1> QED BY <1>7, <1>8, <1>9, <1>10, <1>11, <1>12, <1>13, <1>14, <1>15, <1>16, <1>17 DEF StmtNext

(* The activation above that of the program is left alone by what it calls.*)
LEMMA MoveKeepsArea ==
    ASSUME Inv, AreaInv, stage = "running", StackMove, UNCHANGED input, Inv'
    PROVE  /\ \A j \in DOMAIN ctl' : Wanted(input.prog, ctl'[j])
           /\ Len(ctl) > 2 => InFunction(input.prog, ctl')
<1>1. /\ Below \in Seq(Frame) /\ Len(Below) = Len(ctl) - 1 /\ Len(ctl) \in Nat \ {0}
      /\ \A i \in 1 .. Len(ctl) - 1 : Below[i] = ctl[i]
  BY TopFacts, PopFacts DEF Pop
<1>2. \A i \in 1 .. Len(ctl) - 1 : Wanted(input.prog, Below[i])
  <2>1. DOMAIN ctl = 1 .. Len(ctl)
    BY TopFacts
  <2>2. \A i \in 1 .. Len(ctl) - 1 : i \in DOMAIN ctl
    BY <1>1, <2>1
  <2> QED BY <1>1, <2>2 DEF AreaInv, AreaOK
<1>3. \A f : F("eval", f).at = "eval" /\ F("gen", f).at = "gen"
  BY DEF F
<1>4. \A f, pt : pt \in {"eval", "gen"} => Wanted(input.prog, F(pt, f))
  BY <1>3, NotWaiting DEF Points, EvalPoints, StmtPoints
<1>5. CASE ctl' = Below
  BY <1>1, <1>2, <1>5 DEF AreaInv, AreaOK, InFunction
<1>6. ASSUME NEW g, Wanted(input.prog, g), Become(g)
      PROVE  /\ \A j \in DOMAIN ctl' : Wanted(input.prog, ctl'[j])
             /\ Len(ctl) > 2 => InFunction(input.prog, ctl')
  <2>1. g \in Frame
    BY <1>1, <1>6, NewFrames
  <2>2. /\ DOMAIN ctl' = 1 .. Len(ctl) /\ ctl'[Len(ctl)] = g
        /\ \A i \in 1 .. Len(ctl) - 1 : ctl'[i] = Below[i]
    BY <1>1, <1>6, <2>1 DEF Become
  <2>3. \A j \in DOMAIN ctl' : Wanted(input.prog, ctl'[j])
    BY <1>1, <1>2, <1>6, <2>1, <2>2
  <2>4. Len(ctl) > 2 => ctl'[2] = ctl[2] /\ Len(ctl') > 1
    BY <1>1, <1>6, <2>1, <2>2 DEF Become
  <2>5. Len(ctl) > 2 => InFunction(input.prog, ctl')
    BY <2>4 DEF AreaInv, AreaOK, InFunction
  <2> QED BY <2>3, <2>5
<1>7. ASSUME NEW g, NEW m, NEW pt \in {"eval", "gen"}, Wanted(input.prog, g), Call(g, pt, m)
      PROVE  /\ \A j \in DOMAIN ctl' : Wanted(input.prog, ctl'[j])
             /\ Len(ctl) > 2 => InFunction(input.prog, ctl')
  <2> DEFINE h == F(pt, m)
  <2>1. g \in Frame /\ h \in Frame
    BY <1>1, <1>7, NewFrames
  <2>2. Wanted(input.prog, h) /\ ctl' = Append(Append(Below, g), h)
    BY <1>4, <1>7 DEF Call
  <2> HIDE DEF h
  <2>3. /\ DOMAIN ctl' = 1 .. Len(ctl) + 1 /\ ctl'[Len(ctl)] = g /\ ctl'[Len(ctl) + 1] = h
        /\ \A i \in 1 .. Len(ctl) - 1 : ctl'[i] = Below[i]
    BY <1>1, <2>1, <2>2
  <2>4. \A j \in DOMAIN ctl' : Wanted(input.prog, ctl'[j])
    BY <1>1, <1>2, <1>7, <2>1, <2>2, <2>3
  <2>5. Len(ctl) > 2 => ctl'[2] = ctl[2] /\ Len(ctl') > 1
    BY <1>1, <1>7, <2>1, <2>2, <2>3 DEF Call
  <2>6. Len(ctl) > 2 => InFunction(input.prog, ctl')
    BY <2>5 DEF AreaInv, AreaOK, InFunction
  <2> QED BY <2>4, <2>6
<1> QED BY <1>5, <1>6, <1>7 DEF StackMove

(* Where the activation of the program or that above it is running.        *)
LEMMA OuterPoints ==
    ASSUME Inv, AreaInv, stage = "running"
    PROVE  /\ Len(ctl) = 1 => Top.at = "prog"
           /\ Len(ctl) = 2 => Top.at \in {"gen", "funcEnd"} /\ Node.type = "FUNC_DEF"
<1>1. Len(ctl) \in Nat \ {0} /\ FrameOK(ctl, Len(ctl)) /\ Fits(Top) /\ Top \in Frame
      /\ DOMAIN ctl = 1 .. Len(ctl)
  BY TopFacts
<1>2. Len(ctl) = 1 => Top.at = "prog"
  BY <1>1 DEF FrameOK, Top
<1>3. ASSUME Len(ctl) = 2
      PROVE  Top.at \in {"gen", "funcEnd"} /\ Node.type = "FUNC_DEF"
  <2>1. Node.type = "FUNC_DEF" /\ ctl[2] = Top
    BY <1>3 DEF AreaInv, AreaOK, InFunction, Node, Top
  <2>2. Top.at # "prog"
    BY <1>1, <1>3 DEF FrameOK, Top
  <2>3. FrameOK(ctl, 1)
    BY <1>1, <1>3 DEF Inv, StackOK
  <2>4. ctl[1].at = "prog"
    BY <2>3 DEF FrameOK
  <2>5. Top.at \notin EvalPoints
    BY <1>1, <1>3, <2>1, <2>4, PointFacts DEF FrameOK
  <2>6. Serves(Top.at, "FUNC_DEF")
    BY <1>1, <2>1, <2>2 DEF Fits, Node
  <2>7. Top.at \in StmtPoints
    BY <1>1, <2>5, PointFacts DEF Frame
  <2> QED BY <2>1, <2>2, <2>6, <2>7 DEF Serves, StmtPoints, StmtWaits
<1> QED BY <1>2, <1>3

(* What is second on a stack two have been put on.                         *)
LEMMA SecondOfTwo ==
    ASSUME NEW b \in Seq(Frame), NEW g \in Frame, NEW h \in Frame
    PROVE  /\ Len(b) = 0 => Append(Append(b, g), h)[2] = h
           /\ Len(b) = 1 => Append(Append(b, g), h)[2] = g
<1>1. /\ Append(b, g) \in Seq(Frame) /\ Len(Append(b, g)) = Len(b) + 1
      /\ Append(b, g)[Len(b) + 1] = g
  OBVIOUS
<1> DEFINE c == Append(b, g)
<1> HIDE DEF c
<1>2. /\ Append(c, h)[Len(c) + 1] = h
      /\ \A i \in 1 .. Len(c) : Append(c, h)[i] = c[i]
  BY <1>1 DEF c
<1>3. Len(b) \in Nat /\ Len(c) = Len(b) + 1 /\ c[Len(b) + 1] = g
  BY <1>1 DEF c
<1>4. /\ Len(b) = 0 => Append(c, h)[2] = h
      /\ Len(b) = 1 => Append(c, h)[2] = g
  <2>1. CASE Len(b) = 0
    <3>1. Len(c) = 1
      BY <1>3, <2>1
    <3> QED BY <1>2, <2>1, <3>1
  <2>2. CASE Len(b) = 1
    <3>1. Len(c) = 2 /\ c[2] = g
      BY <1>3, <2>2
    <3>2. 2 \in 1 .. Len(c)
      BY <3>1
    <3>3. Append(c, h)[2] = g
      BY ONLY <1>2, <3>1, <3>2
    <3> QED BY <2>2, <3>3
  <2> QED BY <1>3, <2>1, <2>2
<1> QED BY <1>4 DEF c

(* The program's activation calls functions, a function's its body.        *)
LEMMA NextAreaInv ==
    ASSUME Inv, Inv', AreaInv, [Next]_vars
    PROVE  AreaInv'
<1> SUFFICES ASSUME stage' = "running" PROVE AreaInv'
  BY DEF AreaInv
<1>1. CASE stage = "idle" /\ \E i \in Inputs : GenAsm(i)
  <2>1. ctl' = <<F("prog", NULL)>>
    BY <1>1 DEF GenAsm
  <2>2. F("prog", NULL).at = "prog" /\ Len(ctl') = 1 /\ DOMAIN ctl' = {1} /\ ctl'[1] = F("prog", NULL)
    BY <2>1 DEF F
  <2> QED BY <2>2 DEF AreaInv, AreaOK, InFunction, Wanted
<1>2. CASE GenNext
  <2>1. stage = "running" /\ StackMove
    BY <1>2, StepPoints, EvalStackMove, StmtStackMove DEF GenNext
  <2>2. UNCHANGED input
    BY <1>2 DEF GenNext, EvalNext, NoFreeRegister, EvalIntConst, EvalIdent, EvalLval, EvalUnary,
         UnaryEnd, EvalBinExp, BinLeft, BinInPlace, BinOneReg, BinLogical, BinTwoReg, EvalVarAsgn,
         AsgnLeft, AsgnRight, EvalFuncCall, CallNextArg, CallStoreArg, CallJump, CallMove,
         EvalUnknown, StmtNext, GenNothing, GenExprStmt, ExprEnd, GenVarDef, VarStore,
         GenRetEmpty, GenRet, RetWild, RetMove, GenIf, IfTest, IfElseBody, GenCompStmt, CompNext,
         GenWhile, WhileTest, WhileEnd, GenFor, ForInit, ForCond, ForTest, ForStep, ForEnd,
         GenFuncDef, FuncEnd, GenProg
  <2>3. Len(ctl) \in Nat \ {0} /\ ctl \in Seq(Frame) /\ Top \in Frame
    BY <2>1, TopFacts
  <2>4. CASE Len(ctl) > 2
    BY <2>1, <2>2, <2>4, MoveKeepsArea DEF AreaInv, AreaOK
  <2>5. CASE Len(ctl) = 2
    <3>1. Top.at \in {"gen", "funcEnd"} /\ Node.type = "FUNC_DEF"
      BY <2>1, <2>5, OuterPoints
    <3>2. GenFuncDef \/ FuncEnd
      <4>1. ~EvalNext
        BY <2>1, <3>1, EvalMoves DEF EvalMove, EvalPoints, EvalWaits
      <4>2. ~StmtNext
        BY <3>1 DEF StmtNext, GenNothing, GenExprStmt, ExprEnd, GenVarDef, VarStore,
             GenRetEmpty, GenRet, RetWild, RetMove, GenIf, IfTest, IfElseBody, GenCompStmt,
             CompNext, GenWhile, WhileTest, WhileEnd, GenFor, ForInit, ForCond, ForTest, ForStep,
             ForEnd, Generating, At
      <4>3. ~GenProg
        BY <3>1 DEF GenProg, At
      <4> QED BY <1>2, <4>1, <4>2, <4>3 DEF GenNext
    <3>3. CASE Done
      <4>1. Len(ctl') = 1
        BY <2>3, <2>5, <3>3 DEF Done, Below
      <4>2. InFunction(input.prog, ctl')
        BY <4>1 DEF InFunction
      <4> QED BY <2>1, <2>2, <4>2, MoveKeepsArea DEF AreaInv, AreaOK
    <3>4. CASE Call(Resume("funcEnd"), "gen", Node.body)
      <4> DEFINE g == Resume("funcEnd")
                 h == F("gen", Node.body)
      <4>1. g.node = Top.node /\ g \in Frame /\ h \in Frame /\ ctl' = Append(Append(Below, g), h)
            /\ Below \in Seq(Frame) /\ Len(Below) = 1
        <5>1. Below \in Seq(Frame) /\ Len(Below) = 1
          BY <2>1, <2>3, <2>5, TopFacts, PopFacts DEF Pop
        <5>2. g \in Frame /\ h \in Frame
          BY <3>4, <5>1, NewFrames
        <5>3. g.node = Top.node /\ ctl' = Append(Append(Below, g), h)
          BY <2>1, <3>4, MovedFields DEF Call
        <5> QED BY <5>1, <5>2, <5>3
      <4> HIDE DEF g, h
      <4>2. ctl'[2] = g
        BY <4>1, SecondOfTwo
      <4>3. ctl'[2].node = Top.node
        BY <4>1, <4>2
      <4>4. InFunction(input.prog, ctl')
        BY <2>2, <3>1, <4>3 DEF InFunction, Node
      <4> QED BY <2>1, <2>2, <4>4, MoveKeepsArea DEF AreaInv, AreaOK
    <3> QED BY <3>2, <3>3, <3>4 DEF GenFuncDef, FuncEnd
  <2>6. CASE Len(ctl) = 1
    <3>1. Top.at = "prog"
      BY <2>1, <2>6, OuterPoints
    <3>2. GenProg
      <4>1. ~EvalNext
        BY <2>1, <3>1, EvalMoves DEF EvalMove, EvalPoints, EvalWaits
      <4>2. ~StmtNext /\ ~GenFuncDef /\ ~FuncEnd
        BY <3>1 DEF StmtNext, GenNothing, GenExprStmt, ExprEnd, GenVarDef, VarStore,
             GenRetEmpty, GenRet, RetWild, RetMove, GenIf, IfTest, IfElseBody, GenCompStmt,
             CompNext, GenWhile, WhileTest, WhileEnd, GenFor, ForInit, ForCond, ForTest, ForStep,
             ForEnd, GenFuncDef, FuncEnd, Generating, At
      <4> QED BY <1>2, <4>1, <4>2 DEF GenNext
    <3> DEFINE g == [Top EXCEPT !.k = Top.k + 1]
               m == input.prog.funcs[Top.k + 1]
               h == F("gen", m)
    <3>3. Top.k < Len(input.prog.funcs) /\ Call(g, "gen", m)
      BY <2>1, <3>2 DEF GenProg
    <3>4. input.prog.nodes[m].type = "FUNC_DEF"
      <4>1. input.prog.funcs \in Seq({n \in DOMAIN input.prog.nodes :
                                       input.prog.nodes[n].type = "FUNC_DEF"})
        BY <2>1, TopFacts, ProgramFacts DEF InputOK
      <4>2. Top.k + 1 \in 1 .. Len(input.prog.funcs)
        BY <2>3, <3>3, <4>1 DEF Frame
      <4> QED BY <4>1, <4>2
    <3>5. g \in Frame /\ h \in Frame /\ ctl' = Append(Append(Below, g), h)
          /\ Below \in Seq(Frame) /\ Len(Below) = 0
      <4>1. Below \in Seq(Frame) /\ Len(Below) = 0
        BY <2>1, <2>3, <2>6, TopFacts, PopFacts DEF Pop
      <4>2. g \in Frame /\ h \in Frame
        BY <3>3, <4>1, NewFrames
      <4> QED BY <3>3, <4>1, <4>2 DEF Call
    <3>6. h.node = m
      BY DEF F
    <3> HIDE DEF g, h, m
    <3>7. ctl'[2] = h
      BY <3>5, SecondOfTwo
    <3>8. InFunction(input.prog, ctl')
      BY <2>2, <3>4, <3>6, <3>7 DEF InFunction
    <3> QED BY <2>1, <2>2, <3>8, MoveKeepsArea DEF AreaInv, AreaOK
  <2>7. Len(ctl) = 1 \/ Len(ctl) = 2 \/ Len(ctl) > 2
    <3>1. \A n \in Nat \ {0} : n = 1 \/ n = 2 \/ n > 2
      OBVIOUS
    <3> QED BY <2>3, <3>1
  <2> QED BY ONLY <2>4, <2>5, <2>6, <2>7, Zenon
<1>3. CASE Stopped \/ UNCHANGED vars
  BY <1>3 DEF Stopped, vars, AreaInv, InFunction, Wanted
<1> QED BY <1>1, <1>2, <1>3 DEF Next

(* A word divides the unit frames are rounded up to.                       *)
LEMMA WordCases == WordSize \in {1, 2, 4, 8, 16}
<1>1. WordSize \in 1 .. 16
  <2>1. SUFFICES ASSUME WordSize > 16 PROVE FALSE
    BY SizesAssumption
  <2>2. 16 % WordSize = 16
    BY <2>1, SizesAssumption
  <2> QED BY <2>2, WordsAssumption
<1>2. \A w \in 1 .. 16 : 16 % w = 0 => w \in {1, 2, 4, 8, 16}
  OBVIOUS
<1> QED BY <1>1, <1>2, WordsAssumption

(* Slots of a call of a function with callee locals, from one with cur.    *)
LEMMA SlotPlaces ==
    ASSUME NEW callee \in Nat, NEW cur \in Nat, NEW i \in Nat \ {0}
    PROVE  LET slot == callee + LocalBase + WordSize * i
           IN  /\ slot \in Nat
               /\ callee >= cur => slot >= LocalBase + cur
               /\ callee <= cur /\ cur % WordSize = 0 /\ i <= NTemp + NArg
                    => slot <= FrameSize(cur)
               /\ \A m \in Nat : m # i => slot # callee + LocalBase + WordSize * m
<1> DEFINE Placed(w) == LET slot == callee + LocalBase + w * i
                        IN  /\ slot \in Nat
                            /\ callee >= cur => slot >= LocalBase + cur
                            /\ callee <= cur /\ cur % w = 0 /\ i <= NTemp + NArg
                                 => slot <= FrameSize(cur)
                            /\ \A m \in Nat : m # i => slot # callee + LocalBase + w * m
<1>1. WordSize = 1 => Placed(1)
  BY SizesAssumption DEF LocalBase, FrameSize
<1>2. WordSize = 2 => Placed(2)
  BY SizesAssumption DEF LocalBase, FrameSize
<1>3. WordSize = 4 => Placed(4)
  BY SizesAssumption DEF LocalBase, FrameSize
<1>4. WordSize = 8 => Placed(8)
  BY SizesAssumption DEF LocalBase, FrameSize
<1>5. WordSize = 16 => Placed(16)
  BY SizesAssumption DEF LocalBase, FrameSize
<1> QED BY <1>1, <1>2, <1>3, <1>4, <1>5, WordCases

(* What is known where a call spills or stores an argument.                *)
LEMMA CallFacts ==
    ASSUME Inv, AreaInv, CallStep
    PROVE  /\ stage = "running" /\ Top.at \in {"eval", "callArg"} /\ Node.type = "FUNC_CALL"
           /\ CalleeLocals \in Nat /\ CurLocals \in Nat
           /\ Len(Node.args) \in Nat /\ Top.k \in Nat
           /\ Cardinality(Live) \in 0 .. NTemp /\ Cardinality(Top.spilled) \in 0 .. NTemp
           /\ Top.at = "callArg" => Top.k < Len(Node.args)
<1>1. stage = "running" /\ Top.at \in {"eval", "callArg"}
  BY DEF CallStep, Evaluating, At
<1>2. Node.type = "FUNC_CALL" /\ Len(Node.args) \in Nat
  <2>1. Top.at = "eval" => Node.type = "FUNC_CALL"
    BY DEF CallStep, Evaluating, At
  <2>2. Top.at = "callArg" => Node.type = "FUNC_CALL"
    BY <1>1, NodeFacts DEF Serves
  <2> QED BY <1>1, <2>1, <2>2, NodeFacts
<1>3. /\ InputOK(input) /\ Top \in Frame /\ Fits(Top) /\ DOMAIN ctl = 1 .. Len(ctl)
      /\ Len(ctl) \in Nat \ {0} /\ Len(ctl) \in DOMAIN ctl
  BY <1>1, TopFacts
<1>4. \A n \in DOMAIN input.prog.nodes :
        input.prog.nodes[n].type \in {"FUNC_CALL", "FUNC_DEF"} => input.frame[input.symOf[n]] \in Nat
  BY <1>3 DEF InputOK
<1>5. CalleeLocals \in Nat
  BY <1>1, <1>2, <1>3, <1>4 DEF Fits, Node, CalleeLocals
<1>6. CurLocals \in Nat
  <2>1. Len(ctl) # 1 /\ Len(ctl) # 2
    BY <1>1, OuterPoints
  <2>2. Len(ctl) > 1 /\ 2 \in DOMAIN ctl
    <3>1. \A n \in Nat \ {0} : n # 1 => n > 1 /\ 2 \in 1 .. n
      OBVIOUS
    <3> QED BY <1>3, <2>1, <3>1
  <2>3. input.prog.nodes[ctl[2].node].type = "FUNC_DEF"
    BY <1>1, <2>2 DEF AreaInv, AreaOK, InFunction
  <2>4. FrameOK(ctl, 2) /\ Fits(ctl[2])
    BY <1>1, <2>2 DEF Inv, StackOK
  <2>5. ctl[2].node \in DOMAIN input.prog.nodes
    BY <2>4 DEF FrameOK, Fits
  <2> QED BY <1>4, <2>3, <2>5 DEF CurLocals
<1>7. \A S \in SUBSET Temps : Cardinality(S) \in 0 .. NTemp
  <2>1. IsFiniteSet(Temps) /\ Cardinality(Temps) = NTemp
    BY SizesAssumption, FS_Interval DEF Temps
  <2> QED BY <2>1, FS_Subset, FS_CardinalityType, SizesAssumption
<1>8. Top.spilled \in SUBSET Temps /\ Top.k \in Nat /\ Live \in SUBSET Temps
  BY <1>3 DEF Frame, Live
<1>9. Top.at = "callArg" => Top.k < Len(Node.args)
  <2>1. Wanted(input.prog, ctl[Len(ctl)])
    BY <1>1, <1>3 DEF AreaInv, AreaOK
  <2> QED BY <2>1 DEF Wanted, Top, Node
<1> QED BY <1>1, <1>2, <1>5, <1>6, <1>7, <1>8, <1>9

(* The slots such a step stores to: of the spilled temporaries, or the one *)
(* after them and the arguments before.                                    *)
LEMMA CallStores ==
    ASSUME Inv, AreaInv, CodeOK, Next, CallStep
    PROVE  \A o \in FpStores : \E i \in Nat \ {0} :
              /\ o = SpillSlot(Top.node, i)
              /\ Top.at = "eval" => i <= Cardinality(Live)
              /\ Top.at = "callArg" => i = Cardinality(Top.spilled) + Top.k + 1
<1>1. /\ stage = "running" /\ Top.at \in {"eval", "callArg"} /\ Node.type = "FUNC_CALL"
      /\ CalleeLocals \in Nat /\ Top.k \in Nat
      /\ Cardinality(Live) \in Nat /\ Cardinality(Top.spilled) \in Nat
  BY CallFacts, SizesAssumption
<1>2. \A i \in Nat \ {0} : SpillSlot(Top.node, i) \in Nat
  BY <1>1, SlotPlaces DEF SpillSlot, SpillBase, CalleeLocals
<1>3. EvalFuncCall \/ CallStoreArg
  <2>1. Top.at \notin StmtPoints
    BY <1>1 DEF StmtPoints, StmtWaits
  <2>2. EvalNext
    BY <1>1, <2>1, StepPoints DEF Next, GenNext, Stopped
  <2>3. Supplied
    <3>1. Demand = 0
      BY <1>1 DEF Demand
    <3> QED BY <3>1 DEF Supplied
  <2> QED
    BY <1>1, <2>2, <2>3 DEF EvalNext, NoFreeRegister, EvalIntConst, EvalIdent, EvalLval, EvalUnary,
         UnaryEnd, EvalBinExp, BinLeft, BinInPlace, BinOneReg, BinLogical, BinTwoReg, EvalVarAsgn,
         AsgnLeft, AsgnRight, CallNextArg, CallJump, CallMove, EvalUnknown, Evaluating, At
<1>4. CASE EvalFuncCall
  <2> DEFINE order == Ascending(Live)
             s == [i \in 1 .. Cardinality(Live) |-> StoreFp(T(order[i]), SpillSlot(Top.node, i))]
  <2>1. Top.at = "eval" /\ Emit(s)
    BY <1>4 DEF EvalFuncCall, Evaluating, At
  <2>2. IsList(s) /\ DOMAIN s = 1 .. Cardinality(Live)
    BY <1>1, FunctionIsList
  <2>3. \A i \in 1 .. Cardinality(Live) : s[i][3] = -SpillSlot(Top.node, i)
    BY DEF StoreFp
  <2> HIDE DEF s
  <2>4. NewCode = s
    BY <2>1, <2>2, EmitFacts DEF CodeOK
  <2>5. ASSUME NEW o \in FpStores
        PROVE  \E i \in 1 .. Cardinality(Live) : o = SpillSlot(Top.node, i)
    <3>1. PICK i \in 1 .. Cardinality(Live) : o = -s[i][3]
      BY <2>2, <2>4 DEF FpStores
    <3>2. i \in Nat \ {0}
      BY <1>1
    <3>3. SpillSlot(Top.node, i) \in Nat /\ o = -(-SpillSlot(Top.node, i))
      BY <1>2, <2>3, <3>1, <3>2
    <3> QED BY <3>3
  <2> QED BY <1>1, <2>1, <2>5
<1>5. CASE CallStoreArg
  <2> DEFINE n == Cardinality(Top.spilled) + (Top.k + 1)
             a == StoreFp(T(ret), SpillSlot(Top.node, n))
  <2>1. Top.at = "callArg" /\ Emit(<<a>>) /\ a[3] = -SpillSlot(Top.node, n)
    BY <1>5 DEF CallStoreArg, ArgSlot, At, StoreFp
  <2>2. n \in Nat \ {0} /\ n = Cardinality(Top.spilled) + Top.k + 1
    BY <1>1
  <2>3. SpillSlot(Top.node, n) \in Nat
    BY <1>2, <2>2
  <2> HIDE DEF a, n
  <2>4. NewCode = <<a>>
    BY <2>1, EmitFacts, TuplesAreLists DEF CodeOK
  <2>5. ASSUME NEW o \in FpStores PROVE o = SpillSlot(Top.node, n)
    <3>1. o = -a[3]
      BY <2>4 DEF FpStores
    <3> QED BY <2>1, <2>3, <3>1
  <2> QED BY <2>1, <2>2, <2>5
<1> QED BY <1>3, <1>4, <1>5

(* Such a step keeps apart what CallAreaApart keeps apart.                 *)
LEMMA StepKeepsApart ==
    ASSUME Inv, AreaInv, CodeOK, Next, CallStep
    PROVE  /\ CalleeLocals >= CurLocals => SparesLocals
           /\ /\ CalleeLocals <= CurLocals /\ CurLocals % WordSize = 0
              /\ Len(Node.args) <= NArg
              => InsideFrame
           /\ NothingWaits => SparesPending
<1>1. /\ stage = "running" /\ Top.at \in {"eval", "callArg"} /\ Node.type = "FUNC_CALL"
      /\ CalleeLocals \in Nat /\ CurLocals \in Nat
      /\ Len(Node.args) \in Nat /\ Top.k \in Nat
      /\ Cardinality(Live) \in 0 .. NTemp /\ Cardinality(Top.spilled) \in 0 .. NTemp
      /\ Top.at = "callArg" => Top.k < Len(Node.args)
  BY CallFacts
<1>2. \A i : SpillSlot(Top.node, i) = CalleeLocals + LocalBase + WordSize * i
  BY DEF SpillSlot, SpillBase, CalleeLocals
<1>3. ASSUME NEW i \in Nat \ {0}
      PROVE  LET slot == SpillSlot(Top.node, i)
             IN  /\ CalleeLocals >= CurLocals => slot >= LocalBase + CurLocals
                 /\ CalleeLocals <= CurLocals /\ CurLocals % WordSize = 0 /\ i <= NTemp + NArg
                      => slot <= FrameSize(CurLocals)
                 /\ \A m \in Nat : m # i => slot # SpillSlot(Top.node, m)
  <2> DEFINE slot == CalleeLocals + LocalBase + WordSize * i
             other(m) == CalleeLocals + LocalBase + WordSize * m
  <2>1. /\ CalleeLocals >= CurLocals => slot >= LocalBase + CurLocals
        /\ CalleeLocals <= CurLocals /\ CurLocals % WordSize = 0 /\ i <= NTemp + NArg
             => slot <= FrameSize(CurLocals)
        /\ \A m \in Nat : m # i => slot # other(m)
    BY <1>1, SlotPlaces
  <2>2. SpillSlot(Top.node, i) = slot /\ \A m : SpillSlot(Top.node, m) = other(m)
    BY <1>2
  <2> HIDE DEF slot, other
  <2> QED BY <2>1, <2>2
<1>4. ASSUME NEW o \in FpStores
      PROVE  \E i \in Nat \ {0} :
                /\ o = SpillSlot(Top.node, i)
                /\ Len(Node.args) <= NArg => i <= NTemp + NArg
                /\ Top.at = "callArg" => i > Cardinality(Top.spilled) + Top.k
  <2>1. PICK i \in Nat \ {0} :
           /\ o = SpillSlot(Top.node, i)
           /\ Top.at = "eval" => i <= Cardinality(Live)
           /\ Top.at = "callArg" => i = Cardinality(Top.spilled) + Top.k + 1
    BY CallStores
  <2>2. Len(Node.args) <= NArg => i <= NTemp + NArg
    BY <1>1, <2>1, SizesAssumption
  <2>3. Top.at = "callArg" => i > Cardinality(Top.spilled) + Top.k
    BY <1>1, <2>1, SizesAssumption
  <2> QED BY <2>1, <2>2, <2>3
<1>5. CalleeLocals >= CurLocals => SparesLocals
  BY <1>3, <1>4 DEF SparesLocals
<1>6. CalleeLocals <= CurLocals /\ CurLocals % WordSize = 0 /\ Len(Node.args) <= NArg => InsideFrame
  BY <1>3, <1>4 DEF InsideFrame
<1>7. ASSUME NothingWaits, NEW o \in FpStores, NEW j \in DOMAIN ctl, Open(ctl[j])
      PROVE  o \notin PendingSlots(ctl[j])
  <2>1. DOMAIN ctl = 1 .. Len(ctl) /\ Len(ctl) \in Nat \ {0}
    BY <1>1, TopFacts
  <2>2. CASE j # Len(ctl)
    BY <1>7, <2>1, <2>2 DEF NothingWaits
  <2>3. CASE j = Len(ctl)
    <3>1. Top.at = "callArg" /\ ctl[j] = Top
      BY <1>1, <1>7, <2>3 DEF Open, Top
    <3>2. PICK i \in Nat \ {0} : o = SpillSlot(Top.node, i) /\ i > Cardinality(Top.spilled) + Top.k
      BY <1>4, <3>1
    <3>3. \A m \in 1 .. Cardinality(Top.spilled) + Top.k : m \in Nat /\ m # i
      BY <1>1, <3>2
    <3>4. \A m \in 1 .. Cardinality(Top.spilled) + Top.k : o # SpillSlot(Top.node, m)
      BY <1>3, <3>2, <3>3
    <3> QED BY <3>1, <3>4 DEF PendingSlots
  <2> QED BY <2>2, <2>3
<1> QED BY <1>5, <1>6, <1>7 DEF SparesPending

(* CallAreaApart: for every program, and however many registers there are, *)
(* what a call of a function stores meets no local of a caller with no     *)
(* more locals, ends inside the frame of a caller with no fewer, and meets *)
(* nothing that waits if no call around it waits with something stored.    *)
THEOREM CallsApart == Spec => CallAreaApart
<1>1. Init => AreaInv
  BY DEF Init, AreaInv
<1>2. AreaInv /\ Inv /\ Inv' /\ [Next]_vars => AreaInv'
  BY NextAreaInv
<1>3. CodeOK /\ Inv /\ [Next]_vars => CodeOK'
  BY NextKeeps
<1>4. AreaInv /\ Inv /\ CodeOK /\ [Next]_vars =>
        [ CallStep =>
            /\ CalleeLocals >= CurLocals => SparesLocals
            /\ /\ CalleeLocals <= CurLocals /\ CurLocals % WordSize = 0
               /\ Len(Node.args) <= NArg
               => InsideFrame
            /\ NothingWaits => SparesPending ]_vars
  BY StepKeepsApart
<1> QED BY <1>1, <1>2, <1>3, <1>4, InitCodeOK, Invariance, PTL DEF Spec, CallAreaApart

=============================================================================
