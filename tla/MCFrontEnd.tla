------------------------------ MODULE MCFrontEnd ------------------------------
(* Texts for FrontEnd: every sequence of at most MaxLines lines, one of    *)
(* each kind that the passes tell apart.                                   *)
EXTENDS FrontEnd

CONSTANTS MaxLines, Kinds

Line(kind, name)    == [kind |-> kind, name |-> name, insn |-> Instr("NOP", 0), labels |-> <<>>]
InsnLine(i, labels) == [kind |-> "insn", name |-> "", insn |-> i, labels |-> labels]

Alphabet ==
    {Line("label", l) : l \in {"x", "y"}}
    \cup {Line("marker", f) : f \in {"f", "g"}}
    \cup {InsnLine(Bra(Nowhere), <<"x">>), InsnLine(Brx(<<>>), <<"y", "x">>), InsnLine(Exit, <<>>)}
    \cup {Line(k, "") : k \in Kinds}

MCTexts == UNION {[1 .. n -> Alphabet] : n \in 1 .. MaxLines}
=============================================================================
