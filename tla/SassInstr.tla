------------------------------ MODULE SassInstr ------------------------------
(***************************************************************************)
(* SASS instructions as the CFG builder and the code generator see them,   *)
(* and the classification of terminators in cfg.py.                        *)
(*                                                                         *)
(* An instruction is a record                                              *)
(*   op      the mnemonic, one representative per handler;                 *)
(*   guard   the predicate in front of it (@P0 ...), "none" when absent;   *)
(*   operand the first operand when it is a predicate register: the        *)
(*           condition of a BRA.U, the destination of ISETP (P0) and of    *)
(*           TRY_ALLOC (UP0); "none" otherwise;                            *)
(*   arg     the register count of a USETMAXREG or the memory word that an *)
(*           ISETP compares, 0 otherwise;                                  *)
(*   targets where a branch may go: positions in the instruction sequence, *)
(*           or Nowhere for an immediate address outside the function;     *)
(*   regs    the register operands in order, for the slicer (see DefUse).  *)
(***************************************************************************)
EXTENDS Integers, Sequences

Nowhere == 0

AlwaysTruePreds == {"PT"}
PredRegisters   == {"P0", "!P0", "UP0", "!UP0"}

\* Mnemonics whose stem (before the first dot) is BRA, BRX, EXIT or RET.
IsBranch(i)   == i.op \in {"BRA", "BRA.DIV", "BRX"}
IsExit(i)     == i.op \in {"EXIT", "RET"}
IsIndirect(i) == i.op = "BRX"

\* Any guard, @PT too, makes a branch conditional; so does BRA.DIV.
IsUnconditional(i) ==
    /\ i.guard = "none"
    /\ i.op # "BRA.DIV"
    /\ i.operand \notin PredRegisters

IsPredicated(i) == i.guard \notin {"none"} \cup AlwaysTruePreds

TerminatorKind ==
    {"FALL_THROUGH", "UNCONDITIONAL", "CONDITIONAL", "EXIT", "INDIRECT"}

ClassifyTerminator(i) ==
    CASE IsExit(i) -> IF IsPredicated(i) THEN "CONDITIONAL" ELSE "EXIT"
      [] IsIndirect(i) -> "INDIRECT"
      [] IsBranch(i) /\ ~IsIndirect(i) ->
            IF IsUnconditional(i) THEN "UNCONDITIONAL" ELSE "CONDITIONAL"
      [] OTHER -> "FALL_THROUGH"

-----------------------------------------------------------------------------
(* Constructors used by the kernels that the model checker runs.           *)

Instr(op, arg) ==
    [op |-> op, guard |-> "none", arg |-> arg, targets |-> <<>>,
     operand |-> CASE op = "ISETP" -> "P0" [] op = "TRY_ALLOC" -> "UP0" [] OTHER -> "none",
     regs |-> CASE op = "ISETP" -> <<<<"P", 0>>>> [] op = "TRY_ALLOC" -> <<<<"UP", 0>>>>
                [] OTHER -> <<>>]
WithRegs(i, regs)    == [i EXCEPT !.regs = regs]
Guarded(guard, i) == [i EXCEPT !.guard = guard]

Bra(target)             == [Instr("BRA", 0) EXCEPT !.targets = <<target>>]
BraOperand(pred, target) ==
    [Bra(target) EXCEPT
        !.operand = pred,
        !.regs = <<IF pred \in {"P0", "!P0"} THEN <<"P", 0>> ELSE <<"UP", 0>>>>]
BraDiv(target)          == [Bra(target) EXCEPT !.op = "BRA.DIV"]
Brx(targets)            == [Instr("BRX", 0) EXCEPT !.targets = targets]
Exit                    == Instr("EXIT", 0)
=============================================================================
