---------------------------- MODULE MCTraceViewer ----------------------------
(***************************************************************************)
(* Two kernels, the first with two warps, and instructions of the shapes   *)
(* that traces.txt shows.                                                  *)
(***************************************************************************)
EXTENDS TraceViewer

CONSTANTS V0, V1, NoValue

MCWarps   == {[kernel |-> "fadd", warp |-> 0], [kernel |-> "fadd", warp |-> 1],
              [kernel |-> "ffma", warp |-> 0]}
MCKernels == <<"fadd", "ffma">>

Instr(op, writes, width, operands) ==
    [op |-> op, guarded |-> FALSE, writes |-> writes, width |-> width,
     operands |-> operands]

Fadd  == Instr("FADD", TRUE, 1, <<Op(<<1>>), Op(<<2>>), Op(<<3>>)>>)
Fmul  == [Instr("FMUL", TRUE, 1, <<Op(<<1>>), Op(<<1>>), Op(<<>>)>>) EXCEPT !.guarded = TRUE]
Wide  == Instr("IMAD.WIDE", TRUE, 2, <<Op(<<2>>), Op(<<1>>), Op(<<>>), Op(<<2>>)>>)
Ldg   == Instr("LDG", TRUE, 1, <<Op(<<3>>), Address(2)>>)
Stg   == Instr("STG", FALSE, 1, <<Address(2), Op(<<1>>)>>)
Isetp == Instr("ISETP", FALSE, 1, <<Op(<<>>), Op(<<>>), Op(<<3>>), Op(<<>>)>>)
Exit  == Instr("EXIT", FALSE, 1, <<>>)

TwoSources == {Fadd, Ldg}
MCInstructions == {Fadd, Fmul, Wide, Ldg, Stg, Isetp, Exit}

ShowAll == [mnemonics |-> {i.op : i \in MCInstructions}, kernels |-> {"fadd", "ffma"},
            limit |-> 0]
MCFilters == {ShowAll, [ShowAll EXCEPT !.mnemonics = {"FADD", "LDG"}],
              [ShowAll EXCEPT !.kernels = {"ffma"}, !.limit = 1]}
=============================================================================
