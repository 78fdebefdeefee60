----------------------------- MODULE MCHandlers -----------------------------
(***************************************************************************)
(* Code for Handlers: one instruction for each handler, on three registers *)
(* of each file.  The first operand of a SHF.R is RZ and the truth table   *)
(* of a PLOP3 is 0x80 with PT twice, as in the kernels of the repository;  *)
(* the second destination of an ISETP or a PLOP3 is PT, as everywhere in   *)
(* them.                                                                   *)
(***************************************************************************)
EXTENDS Handlers

R(n) == Reg("R", n)
P    == Reg("P", 0)

MCRegisters == {<<"R", 1>>, <<"R", 2>>, <<"R", 3>>, <<"P", 0>>, <<"UP", 0>>}

Load == {WithOps("MOV", <<R(1), Input("SR_TID.X")>>),
         WithOps("ULDC", <<R(2), Input("SR_TID.X")>>),
         WithOps("MOV", <<R(2), Imm(Word - 3)>>)}

LoadFirst == <<WithOps("MOV", <<R(1), Input("SR_TID.X")>>),
               WithOps("MOV", <<R(2), Imm(Word - 3)>>)>>

Ring ==
    {WithOps("IADD3", <<R(1), R(1), NegReg("R", 2), R(1)>>),
     WithOps("IMAD", <<R(3), R(1), R(2), R(3)>>),
     WithOps("LEA", <<R(2), R(1), R(2), Imm(1)>>),
     Guarded("!P0", WithOps("MOV", <<R(1), Imm(Word - 1)>>)),
     Guarded("P0", WithOps("SEL", <<R(3), R(1), R(2), NegReg("P", 0)>>))}

Compare ==
    {WithOps("ISETP.LT.AND", <<P, True, R(1), R(2), True>>),
     WithOps("ISETP.GE.OR", <<P, True, R(2), R(3), P>>),
     WithOps("ISETP.GE.U32.AND", <<P, True, R(1), Imm(Word - 2), True>>),
     WithOps("ISETP.LT.U32.AND", <<Reg("UP", 0), True, R(3), R(2), P>>),
     WithOps("ISETP.NE.AND", <<P, True, R(3), Zero, True>>),
     WithOps("PLOP3.LUT", <<P, True, True, True, Reg("UP", 0), Lut(128), Lut(8)>>)}

ByWord ==
    {WithOps("IABS", <<R(1), R(2)>>),
     WithOps("IMAD.HI.U32", <<R(2), R(1), R(3), Zero>>),
     WithOps("IMNMX.U32", <<R(2), R(1), R(3), P>>),
     WithOps("VIMNMX", <<R(1), True, True, R(1), R(3), P>>),
     WithOps("SHF.R.U32.HI", <<R(1), Zero, Imm(1), R(2)>>),
     WithOps("SHF.R.S32.HI", <<R(3), Zero, Imm(2), R(1)>>),
     WithOps("LEA.HI", <<R(1), R(2), R(3), R(1), Imm(1)>>),
     WithOps("LEA.HI.SX32", <<R(3), R(1), R(2), Imm(2)>>)}

\* Handlers without a macro, or that have another meaning there.
Opaque ==
    {WithOps("VIADD", <<R(1), R(2), Imm(1)>>),
     WithOps("VIADDMNMX", <<R(2), R(1), R(2), Imm(1), True>>),
     WithOps("LOP3.LUT", <<R(3), R(1), R(2), R(3), Lut(192)>>),
     WithOps("UP2UR", <<R(1), True, Zero, Imm(2)>>),
     WithOps("SYNCS.PHASECHK", <<P, R(1)>>)}

MCCompared == {i.op : i \in Load \cup Ring \cup Compare \cup ByWord}

MCInstructions == Load \cup Ring \cup Compare \cup ByWord \cup Opaque

\* SHF.L.U32 as the kernels use it most, to shift a word to the left.
ShiftCode == Load \cup {WithOps("SHF.L.U32", <<R(3), R(1), Imm(1), Zero>>),
                        WithOps("IADD3", <<R(1), R(3), R(2), Zero>>)}
ShiftCompared == MCCompared \cup {"SHF.L.U32"}
=============================================================================
