-------------------------------- MODULE DefUse --------------------------------
(***************************************************************************)
(* Which registers an instruction writes and reads, as cfg.py decides it:  *)
(* the first operands are written, how many depends on the mnemonic and,   *)
(* for some, on the number of operands; the others and the guard are read. *)
(*                                                                         *)
(* A register is a pair <<file, number>>, R4 is <<"R", 4>>.  The field     *)
(* `regs` of an instruction lists its operands in order, with RZ in place  *)
(* of a constant register or an immediate.  The tables of cfg.py are       *)
(* reduced to one mnemonic for each kind of entry.                         *)
(***************************************************************************)
EXTENDS SassInstr, FiniteSets, SequencesExt

RZ == <<"RZ", 0>>

ConstantRegs == {RZ}

\* @!P0 reads P0.
GuardRegs(i) ==
    CASE i.guard \in {"P0", "!P0"}   -> {<<"P", 0>>}
      [] i.guard \in {"UP0", "!UP0"} -> {<<"UP", 0>>}
      [] OTHER                       -> {}

WriteCount(i) ==
    CASE i.op \in {"EXIT", "BRA", "BRX", "RET", "STG"} -> 0
      [] i.op = "ELECT" -> 2
      [] i.op = "IADD3" /\ Len(i.regs) \in {5, 6} -> Len(i.regs) - 3
      [] OTHER -> 1

\* A 128-bit load fills four registers from its first operand on, IMAD.WIDE two.
MultiWriter(i, k) ==
    CASE i.op = "LDG.E.128" /\ k = 1 -> 4
      [] i.op = "IMAD.WIDE" /\ k = 1 -> 2
      [] OTHER -> 1

\* Variant of ReadWrite; no specification uses it.
ReadWriteNone(i) == {}

ReadWrite(i) == IF i.op = "IMAD.HI.U32" THEN {1} ELSE {}

AdjacentRegs(r, count) == {<<r[1], r[2] + n>> : n \in 0 .. count - 1}

Written(i) == {k \in DOMAIN i.regs : k <= WriteCount(i)}

DefsOf(i) ==
    UNION {AdjacentRegs(i.regs[k], MultiWriter(i, k)) :
              k \in {j \in Written(i) : i.regs[j] \notin ConstantRegs}}

UsesOf(i) ==
    (GuardRegs(i)
        \cup {i.regs[k] : k \in (DOMAIN i.regs \ Written(i))
                                  \cup (ReadWrite(i) \cap DOMAIN i.regs)})
    \ ConstantRegs
=============================================================================
