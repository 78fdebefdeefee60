------------------------------- MODULE Handlers -------------------------------
(***************************************************************************)
(* The instruction handlers of tla_codegen.py: what the step emitted for   *)
(* an instruction does to the registers of a thread, beside what the       *)
(* instruction does according to the macros of sass_insns.h.               *)
(*                                                                         *)
(* A straight piece of code is executed twice, instruction by instruction: *)
(* on `regs`, by the emitted steps, whose registers hold integers of any   *)
(* size, and on `words`, by the macros, whose registers hold words of      *)
(* WordBits bits (32 in the source, both here and in the literals of the   *)
(* handlers).  Registers are pairs, R4 is <<"R", 4>>, as in DefUse.        *)
(***************************************************************************)
EXTENDS DefUse

CONSTANTS
    WordBits,      \* bits of a register
    Instructions,  \* the instructions that code is made of
    Inputs,        \* special registers and words of the constant bank
    Compared,      \* the mnemonics whose two executions are compared
    Registers,     \* the registers of a thread
    Prologue,      \* the instructions that all code starts with
    Length         \* bound: instructions executed

\* The powers of two.
Power[n \in Nat] == IF n = 0 THEN 1 ELSE 2 * Power[n - 1]

Word     == Power[WordBits]
Words    == 0 .. Word - 1
Signed(w) == IF w >= Word \div 2 THEN w - Word ELSE w
SignedWords == - (Word \div 2) .. (Word \div 2) - 1

IsPredicateReg(r) == r[1] \in {"P", "UP"}

-----------------------------------------------------------------------------
(* Operands: a register with an optional sign, a number, a truth table, an *)
(* input, or one of the constant registers RZ and PT.                      *)

Reg(file, n)    == [kind |-> "reg", reg |-> <<file, n>>, neg |-> FALSE]
NegReg(file, n) == [Reg(file, n) EXCEPT !.neg = TRUE]
Imm(n)          == [kind |-> "imm", value |-> n]
Input(name)     == [kind |-> "input", name |-> name]
Lut(n)          == [kind |-> "lut", value |-> n]
Zero            == [kind |-> "zero"]
True            == [kind |-> "true"]

OperandRegs(ops) == [k \in DOMAIN ops |-> IF ops[k].kind = "reg" THEN ops[k].reg ELSE RZ]

\* An instruction with operands; regs is what the slicer sees of them.
WithOps(op, ops) ==
    [op |-> op, guard |-> "none", ops |-> ops, regs |-> OperandRegs(ops)]

Isetp == {"ISETP.LT.AND", "ISETP.LT.U32.AND", "ISETP.GE.AND", "ISETP.GE.U32.AND",
          "ISETP.GE.OR", "ISETP.NE.AND"}

\* Handlers that go through _emit_dual or write several registers on their own.
Multiple == Isetp \cup {"PLOP3.LUT", "VIMNMX"}

\* Mnemonics with a macro in sass_insns.h that means the same instruction.
WithMacro == Isetp \cup
    {"MOV", "ULDC", "IABS", "IADD3", "IMAD", "IMAD.HI.U32", "IMNMX.U32", "SHF.R.U32.HI",
     "SHF.R.S32.HI", "SHF.L.U32", "SEL", "LEA", "LEA.HI", "LEA.HI.SX32", "VIMNMX",
     "PLOP3.LUT"}

\* The operands of a mnemonic, in the forms that the kernels use: data (N) or a
\* predicate (Q); a destination (D, B), or one that is read as well (A); a count
\* that prints as itself (K); a truth table (L); RZ (Z), PT (T).  The truth table
\* of a PLOP3 is 0x80 (C).
Operands(op) ==
    CASE op \in {"MOV", "ULDC", "P2R", "MUFU.RCP", "IABS"} -> <<"D", "N">>
      [] op = "UP2UR"          -> <<"D", "T", "Z", "N">>
      [] op = "VIADD"          -> <<"D", "N", "N">>
      [] op \in {"IADD3", "IMAD"} -> <<"D", "N", "N", "N">>
      [] op = "IMAD.HI.U32"    -> <<"A", "N", "N", "N">>
      [] op \in {"IMNMX.U32", "SEL"} -> <<"D", "N", "N", "Q">>
      [] op = "VIADDMNMX"      -> <<"D", "N", "N", "N", "Q">>
      [] op = "VIMNMX"         -> <<"D", "T", "T", "N", "N", "Q">>
      [] op \in {"SHF.R.U32.HI", "SHF.R.S32.HI"} -> <<"D", "Z", "K", "N">>
      [] op = "SHF.L.U32"      -> <<"D", "N", "K", "N">>
      [] op \in {"LEA", "LEA.HI.SX32"} -> <<"D", "N", "N", "K">>
      [] op = "LEA.HI"         -> <<"D", "N", "N", "N", "K">>
      [] op = "LOP3.LUT"       -> <<"D", "N", "N", "N", "L">>
      [] op = "SYNCS.PHASECHK" -> <<"B", "N">>
      [] op \in Isetp          -> <<"B", "T", "N", "N", "Q">>
      [] op = "PLOP3.LUT"      -> <<"B", "T", "T", "T", "Q", "C", "L">>
      [] OTHER                 -> <<>>

IsRegister(o)  == o.kind = "reg" /\ o.reg \in Registers /\ o.neg \in BOOLEAN
IsData(o)      == \/ (IsRegister(o) /\ ~ IsPredicateReg(o.reg))
                  \/ o.kind = "imm" /\ o.value \in Words
                  \/ o.kind = "input" /\ o.name \in Inputs
                  \/ o.kind = "zero"
IsPredicate(o) == (IsRegister(o) /\ IsPredicateReg(o.reg)) \/ o.kind = "true"

Fits(o, form) ==
    CASE form \in {"D", "A"} -> IsData(o) /\ o.kind \in {"reg", "zero"}
      [] form = "B" -> IsPredicate(o)
      [] form = "N" -> IsData(o)
      [] form = "Q" -> IsPredicate(o)
      [] form = "K" -> o.kind = "imm" /\ o.value \in 0 .. WordBits /\ 2 * o.value < Word
      [] form = "L" -> o.kind = "lut" /\ o.value \in Nat
      [] form = "C" -> o.kind = "lut" /\ o.value = 128
      [] form = "Z" -> o.kind = "zero"
      [] form = "T" -> o.kind = "true"

\* _emit_dual does not look at the guard, so nothing under it has one.
IsInstruction(i) ==
    /\ DOMAIN i.ops = DOMAIN Operands(i.op) /\ 1 \in DOMAIN i.ops
    /\ \A k \in DOMAIN i.ops : Fits(i.ops[k], Operands(i.op)[k])
    /\ i.regs = OperandRegs(i.ops)
    /\ GuardRegs(i) \subseteq Registers
    /\ i.op \in Multiple => i.guard = "none"

ASSUME HandlersAssumption ==
    /\ WordBits \in Nat \ {0}
    /\ Length \in Nat
    /\ Prologue \in Seq(Instructions)
    /\ Registers \subseteq (STRING \X Nat) \ {RZ}
    /\ Compared \subseteq WithMacro
    /\ \A i \in Instructions : IsInstruction(i)

-----------------------------------------------------------------------------
VARIABLES
    input,   \* the words in the special registers and the constant bank
    prog,    \* the instructions executed so far
    regs,    \* registers of the emitted thread
    words,   \* registers of the machine
    exact    \* the registers written by handlers in the range they are right in

vars == <<input, prog, regs, words, exact>>

\* What the emitted text of a number says: it is read back as a signed word.
Printed(n) == IF n >= Word \div 2 THEN n - Word ELSE n

\* _op_expr
Operand(rs, o) ==
    CASE o.kind = "imm"   -> Printed(o.value)
      [] o.kind = "lut"   -> o.value
      [] o.kind = "input" -> input[o.name]
      [] o.kind = "zero"  -> 0
      [] o.kind = "true"  -> TRUE
      [] o.kind = "reg"   ->
            IF ~ o.neg THEN rs[o.reg]
            ELSE IF IsPredicateReg(o.reg) THEN ~ rs[o.reg] ELSE - rs[o.reg]

\* The same operand in the macros.
WordOperand(ws, o) ==
    CASE o.kind = "imm" -> o.value
      [] o.kind = "reg" /\ o.neg /\ ~ IsPredicateReg(o.reg) -> (- ws[o.reg]) % Word
      [] OTHER -> Operand(ws, o)

\* _pred_expr: the guard of the instruction, true if there is none.
Pred(rs, i) ==
    IsPredicated(i) =>
        \A r \in GuardRegs(i) : rs[r] = (i.guard \in {"P0", "UP0"})

-----------------------------------------------------------------------------
(* The values that the handlers write; s[k] is the value of operand k.     *)

Shl(x, n) == x * Power[n]
Shr(x, n) == x \div Power[n]

Least(x, y)    == IF x < y THEN x ELSE y
Greatest(x, y) == IF x < y THEN y ELSE x

Select(mnpred, x, y) == IF mnpred THEN Least(x, y) ELSE Greatest(x, y)

h_iabs(s) == IF s[2] < 0 THEN - s[2] ELSE s[2]
h_iadd3(s) == s[2] + s[3] + s[4]
h_imad(s) == s[2] * s[3] + s[4]
h_imad_hi_u32(s) == Shr(s[2] * s[3] + (Shl(s[1], WordBits) + s[4]), WordBits)
h_viadd(s) == s[2] + s[3]
h_imnmx_u32(s) == Select(s[4], s[2], s[3])
h_viaddmnmx(s) == Select(s[5], s[2] + s[4], s[3])
h_vimnmx(s) == Select(s[6], s[4], s[5])

h_shf_r_u32_hi(s) == Shr(Shl(s[4], WordBits) + s[2], s[3] + WordBits)
h_shf_l_u32(s) == Shr(Shl(Shl(s[4], WordBits) + s[2], s[3]), WordBits)

h_sel(s) == IF s[4] THEN s[2] ELSE s[3]
h_lea(s) == Shl(s[2], s[4]) + s[3]

\* Operators named after a fault are variants of the one that follows them; no
\* specification uses them.
\* The low word dropped before the shift.
h_lea_hi_high_only(s) == Shl(s[4], s[5]) + s[3]

h_lea_hi(s) == Shr(Shl(Shl(s[4], WordBits) + s[2], s[5]), WordBits) + s[3]
h_lea_hi_sx32(s) == Shr(Shl(s[2], s[4]), WordBits) + s[3]

\* _coerce_bool: a number counts as true unless it is zero.
Coerced(o, v) ==
    IF o.kind = "true" \/ (o.kind = "reg" /\ IsPredicateReg(o.reg)) THEN v ELSE v # 0

LogicalOp(a, b, c, lut, d) ==
    IF a THEN IF b THEN c ELSE lut ELSE IF b THEN lut ELSE d

h_lop3_lut(ops, s) ==
    LogicalOp(Coerced(ops[2], s[2]), Coerced(ops[3], s[3]), s[4], s[5], s[4])
h_plop3_lut(s) == LogicalOp(s[3], s[4], s[5], s[6], s[7])

Comparison(op, x, y) ==
    CASE op \in {"ISETP.LT.AND", "ISETP.LT.U32.AND"} -> x < y
      [] op \in {"ISETP.GE.AND", "ISETP.GE.U32.AND", "ISETP.GE.OR"} -> x >= y
      [] op = "ISETP.NE.AND" -> x # y

h_isetp(op, s) ==
    IF op = "ISETP.GE.OR" THEN Comparison(op, s[3], s[4]) \/ s[5]
    ELSE Comparison(op, s[3], s[4]) /\ s[5]

\* A handler of one destination; the others are in Emitted.
Handler(op, ops, s) ==
    CASE op \in {"MOV", "ULDC", "P2R", "MUFU.RCP"} -> s[2]
      [] op = "UP2UR"         -> s[4]
      [] op = "IABS"          -> h_iabs(s)
      [] op = "IADD3"         -> h_iadd3(s)
      [] op = "IMAD"          -> h_imad(s)
      [] op = "IMAD.HI.U32"   -> h_imad_hi_u32(s)
      [] op = "IMNMX.U32"     -> h_imnmx_u32(s)
      [] op = "VIADD"         -> h_viadd(s)
      [] op = "VIADDMNMX"     -> h_viaddmnmx(s)
      [] op \in {"SHF.R.U32.HI", "SHF.R.S32.HI"} -> h_shf_r_u32_hi(s)
      [] op = "SHF.L.U32"     -> h_shf_l_u32(s)
      [] op = "LOP3.LUT"      -> h_lop3_lut(ops, s)
      [] op = "SEL"           -> h_sel(s)
      [] op = "LEA"           -> h_lea(s)
      [] op = "LEA.HI"        -> h_lea_hi(s)
      [] op = "LEA.HI.SX32"   -> h_lea_hi_sx32(s)
      [] op = "SYNCS.PHASECHK" -> TRUE

\* The values written to the first destinations, the guard ignored.
DestinationValues(op, ops, s) ==
    CASE op \in Isetp      -> <<h_isetp(op, s), ~ h_isetp(op, s)>>
      [] op = "PLOP3.LUT"  -> <<h_plop3_lut(s), ~ h_plop3_lut(s)>>
      [] op = "VIMNMX"     -> <<h_vimnmx(s), s[4] < s[5], ~ (s[4] < s[5])>>
      [] OTHER             -> <<Handler(op, ops, s)>>

\* What the step emitted for an instruction changes: RZ and PT take no value;
\* a handler of one destination keeps the old value under a false guard, the
\* others write regardless.
Emitted(rs, i) ==
    LET s == [k \in DOMAIN i.ops |-> Operand(rs, i.ops[k])]
        v == DestinationValues(i.op, i.ops, s)
        dsts == {k \in DOMAIN v : i.ops[k].kind = "reg"}
        Kept(k) == i.op \notin Multiple /\ ~ Pred(rs, i)
    IN [r \in {i.ops[k].reg : k \in dsts} |->
            LET k == CHOOSE j \in dsts :
                        i.ops[j].reg = r /\ \A m \in dsts : i.ops[m].reg = r => m <= j
            IN IF Kept(k) THEN rs[r] ELSE v[k]]

-----------------------------------------------------------------------------
(* The macros of sass_insns.h: unsigned words, ISETP through int32_t casts *)
(* unless U32 is in its name.                                              *)

WordComparison(op, x, y) ==
    IF op = "ISETP.GE.U32.AND" \/ op = "ISETP.LT.U32.AND" THEN Comparison(op, x, y)
    ELSE Comparison(op, Signed(x), Signed(y))

RotateLeft(x, n)  == ((x * Power[n]) % (Word * Word)) + (x \div Power[2 * WordBits - n])
RotateRight(x, n) == RotateLeft(x, 2 * WordBits - n)
Concat(hi, lo)    == hi * Word + lo

\* rotate_right_64 of a negative int64_t fills with ones, which | absorbs.
SignedHigh(hi, lo, n) ==
    IF hi < Word \div 2 THEN RotateRight(Concat(hi, lo), n) \div Word
    ELSE ((hi \div Power[n]) + Word - Power[WordBits - n]) % Word

LutBit(lut, a, b, c) ==
    (lut \div Power[(IF a THEN 4 ELSE 0) + (IF b THEN 2 ELSE 0) + (IF c THEN 1 ELSE 0)])
        % 2 = 1

\* Sums that do not wrap around.
WordSumUnwrapped(s) == s[2] + s[3] + s[4]

WordSum(s) == (s[2] + s[3] + s[4]) % Word

Macro(op, s) ==
    CASE op \in {"MOV", "ULDC"} -> s[2]
      [] op = "IABS"          -> (IF Signed(s[2]) < 0 THEN - s[2] ELSE s[2]) % Word
      [] op = "IADD3"         -> WordSum(s)
      [] op = "IMAD"          -> (s[2] * s[3] + s[4]) % Word
      [] op = "IMAD.HI.U32"   -> ((s[2] * s[3] + Concat(s[1], s[4])) \div Word) % Word
      [] op = "IMNMX.U32"     -> Select(s[4], s[2], s[3])
      [] op = "SHF.R.U32.HI"  -> RotateRight(Concat(s[4], s[2]), s[3]) \div Word
      [] op = "SHF.R.S32.HI"  -> SignedHigh(s[4], s[2], s[3])
      [] op = "SHF.L.U32"     -> RotateLeft(Concat(s[4], s[2]), s[3]) % Word
      [] op = "SEL"           -> IF s[4] THEN s[2] ELSE s[3]
      [] op = "LEA"           -> (s[2] * Power[s[4]] + s[3]) % Word
      [] op = "LEA.HI"        ->
            ((Concat(s[4], s[2]) * Power[s[5]]) \div Word + s[3]) % Word
      [] op = "LEA.HI.SX32"   ->
            ((Concat(IF s[2] >= Word \div 2 THEN Word - 1 ELSE 0, s[2]) * Power[s[4]])
                \div Word + s[3]) % Word
      [] op = "VIMNMX"        -> Select(s[6], Signed(s[4]), Signed(s[5])) % Word
      [] op = "PLOP3.LUT"     -> LutBit(s[6], s[3], s[4], s[5])
      [] op \in Isetp         ->
            IF op = "ISETP.GE.OR" THEN WordComparison(op, s[3], s[4]) \/ s[5]
            ELSE WordComparison(op, s[3], s[4]) /\ s[5]

\* What an instruction changes; mnemonics without a macro are left to Handler.
Executed(ws, i) ==
    LET s == [k \in DOMAIN i.ops |-> WordOperand(ws, i.ops[k])]
    IN IF i.ops[1].kind # "reg" \/ ~ Pred(ws, i) THEN <<>>
       ELSE [r \in {i.ops[1].reg} |-> IF i.op \in Compared THEN Macro(i.op, s) ELSE ws[r]]

-----------------------------------------------------------------------------
(* Where the integers stand for the words.                                 *)

\* Operands whose sign, or whose upper bits, decide the result.
ReadAsSigned(op) ==
    CASE op \in {"ISETP.LT.AND", "ISETP.GE.AND", "ISETP.GE.OR", "ISETP.NE.AND"} -> {3, 4}
      [] op = "VIMNMX"       -> {4, 5}
      [] op \in {"IABS", "LEA.HI.SX32"} -> {2}
      [] op = "SHF.R.S32.HI" -> {4}
      [] OTHER               -> {}

ReadAsUnsigned(op) ==
    CASE op \in {"ISETP.LT.U32.AND", "ISETP.GE.U32.AND"} -> {3, 4}
      [] op = "IMNMX.U32"    -> {2, 3}
      [] op = "IMAD.HI.U32"  -> {2, 3, 4}
      [] op \in {"SHF.R.U32.HI", "SHF.L.U32"} -> {2, 4}
      [] op \in {"SHF.R.S32.HI", "LEA.HI"} -> {2}
      [] OTHER               -> {}

InRange(rs, i) ==
    /\ i.op \in Compared
    /\ \A k \in ReadAsSigned(i.op)   : Operand(rs, i.ops[k]) \in SignedWords
    /\ \A k \in ReadAsUnsigned(i.op) : Operand(rs, i.ops[k]) \in Words

\* The registers that a step leaves exact: a destination is, if the instruction
\* is compared, in range, and reads exact registers only, its guard included; it
\* is not otherwise, whatever it held.  A guard that is exact and false skips the
\* instruction on both sides.
StillExact(known, rs, i) ==
    IF GuardRegs(i) \subseteq known /\ ~ Pred(rs, i) THEN known
    ELSE IF UsesOf(i) \subseteq known /\ InRange(rs, i) THEN known \cup DefsOf(i)
    ELSE known \ DefsOf(i)

-----------------------------------------------------------------------------
Updated(rs, changes) ==
    [r \in Registers |-> IF r \in DOMAIN changes THEN changes[r] ELSE rs[r]]

Start == [r \in Registers |-> IF IsPredicateReg(r) THEN FALSE ELSE 0]

TypeOK ==
    /\ input \in [Inputs -> Words] /\ prog \in Seq(Instructions)
    /\ DOMAIN regs = Registers /\ DOMAIN words = Registers
    /\ \A r \in Registers :
          IF IsPredicateReg(r) THEN regs[r] \in BOOLEAN /\ words[r] \in BOOLEAN
          ELSE regs[r] \in Int /\ words[r] \in Words
    /\ exact \subseteq Registers

Init ==
    /\ input \in [Inputs -> Words]
    /\ prog = <<>>
    /\ regs = Start
    /\ words = Start
    /\ exact = Registers

Execute(i) ==
    /\ Len(prog) < Length
    /\ prog' = Append(prog, i)
    /\ regs' = Updated(regs, Emitted(regs, i))
    /\ words' = Updated(words, Executed(words, i))
    /\ exact' = StillExact(exact, regs, i)
    /\ UNCHANGED input

Next ==
    \E i \in Instructions :
        /\ Len(prog) < Len(Prologue) => i = Prologue[Len(prog) + 1]
        /\ Execute(i)

Spec == Init /\ [][Next]_vars

-----------------------------------------------------------------------------
\* The emitted process computes with integers what the machine computes with
\* words: a register agrees modulo 2^32, a predicate agrees, if its value was
\* computed by mnemonics of Compared alone, and no comparison, shift or minimum on
\* the way read a register that had left the range of a word.  Sums and products
\* may leave it.  Nothing is said of a value that depends on another handler: one
\* without a macro (VIADD, VIADDMNMX, UP2UR, P2R, MUFU.RCP, SYNCS.PHASECHK), LOP3.LUT,
\* whose macro combines bits where the handler combines truth values, SHF.L.U32 (see
\* HandlersShift.cfg), or a form that IsInstruction leaves out: a PLOP3 with another
\* table than 0x80, a handler of several destinations under a guard.
Agreement ==
    \A r \in exact :
        IF IsPredicateReg(r) THEN regs[r] = words[r] ELSE regs[r] % Word = words[r]

-----------------------------------------------------------------------------
(* What the slicer keeps of the code, for the registers that its last      *)
(* instruction reads.                                                      *)

Reaches(p, q) ==
    \E r \in DefsOf(prog[p]) \cap UsesOf(prog[q]) :
        \A m \in p + 1 .. q - 1 : r \in DefsOf(prog[m]) => IsPredicated(prog[m])

\* A function of the position, the instruction sliced for being the last.
KeptFor(last) ==
    LET kept[p \in 1 .. last] ==
            p = last \/ \E q \in p + 1 .. last : kept[q] /\ Reaches(p, q)
    IN {p \in 1 .. last : kept[p]}

RunOf(positions) ==
    LET run[p \in 0 .. Len(prog)] ==
            IF p = 0 THEN Start
            ELSE IF p \in positions THEN Updated(run[p - 1], Emitted(run[p - 1], prog[p]))
            ELSE run[p - 1]
    IN run[Len(prog)]

\* The tables of cfg.py tell apart what an instruction writes and reads, the
\* handlers decide what the emitted step writes and reads: an instruction finds
\* the values it reads unchanged when the code before it is sliced for it.
SliceKeepsValues ==
    prog # <<>> =>
        LET n == Len(prog)
        IN \A r \in UsesOf(prog[n]) :
              RunOf(KeptFor(n) \ {n})[r] = RunOf(1 .. n - 1)[r]
=============================================================================
