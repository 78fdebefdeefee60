------------------------------- MODULE MCSlicer -------------------------------
(* Graphs for Slicer and SliceComparison: every way of filling the holes   *)
(* of a few control structures with instructions that write, may write,    *)
(* read or ask for R4, or write R8, the address of a store.  Each ends,    *)
(* like the dumps of nvdisasm, with a block that loops on itself.          *)
EXTENDS SliceComparison

CONSTANT Structures   \* names of the control structures to fill

R(n) == <<"R", n>>
P0   == <<"P", 0>>

Return == WithRegs(Instr("RET", 0), <<R(4)>>)

Move   == WithRegs(Instr("MOV", 0), <<R(4), RZ>>)
Holes  ==
    {Move, Guarded("P0", Move),
     WithRegs(Instr("MOV", 0), <<R(8), RZ>>),
     WithRegs(Instr("LDG.E.128", 0), <<R(3), R(8)>>),
     WithRegs(Instr("IADD3", 0), <<R(4), R(4), R(8), RZ>>),
     WithRegs(Instr("ISETP", 0), <<P0, RZ, R(4), RZ>>),
     WithRegs(Instr("STG", 0), <<R(8), R(4)>>)}

Code(structure, a, b, c) ==
    CASE structure = "if" ->
            <<a, Guarded("P0", Bra(4)), b, c, Exit>>
      [] structure = "else" ->
            <<Guarded("P0", Bra(4)), a, Bra(5), b, c, Exit>>
      [] structure = "loop" ->
            <<a, b, Guarded("P0", Bra(2)), c, Exit>>
      [] structure = "nested loops" ->
            <<a, b, Guarded("P0", Bra(2)), c, Guarded("!P0", Bra(1)), Exit>>
      [] structure = "early exit" ->
            <<a, Guarded("P0", Return), b, Guarded("!P0", Bra(1)), c, Exit>>
      [] structure = "jump table" ->
            <<a, Brx(<<3, 5>>), b, Bra(6), c, Exit>>

Fill(structure, a, b, c) ==
    LET code == Code(structure, a, b, c)
    IN  Append(code, Bra(Len(code) + 1))

MCGraphs ==
    {BuildCfg(Fill(s, a, b, c)) : s \in Structures, a \in Holes, b \in Holes, c \in Holes}

\* Every choice of each structure leads to an exit.
ASSUME ExitsAssumption == \A g \in MCGraphs : ChoicesExit(g)
=============================================================================
