------------------------------ MODULE MCCodegen ------------------------------
(* Functions for Codegen: all those of at most MaxLen instructions over a  *)
(* small alphabet.                                                         *)
EXTENDS Codegen

CONSTANTS
    MaxLen,
    Alphabet    \* the instructions, as a set of records

P == 1 .. MaxLen

Straight == {Instr("FADD", 0), Instr("WARPSYNC", 0), Instr("TRY_ALLOC", 208)}

Control ==
    {Exit, Guarded("P0", Exit), BraDiv(1), Brx(<<>>), Guarded("P0", Brx(<<1, MaxLen>>)),
     Guarded("P0", Brx(<<>>)), Brx(<<1, MaxLen>>)}
    \cup {Guarded(g, Bra(p)) : g \in {"none", "P0"}, p \in P}
    \cup {BraOperand("!UP0", p) : p \in P}

FullAlphabet == Straight \cup Control

\* Branches and exits only: the graphs in which every conditional block ends in
\* a branch on a predicate.
BranchAlphabet ==
    {Instr("WARPSYNC", 0), Exit}
    \cup {Guarded(g, Bra(p)) : g \in {"none", "P0"}, p \in P}

\* Targets stay inside the function.
MCFunctions ==
    {p \in UNION {[1 .. n -> Alphabet] : n \in 1 .. MaxLen} :
        \A i \in DOMAIN p : \A k \in DOMAIN p[i].targets : p[i].targets[k] <= Len(p)}
=============================================================================
