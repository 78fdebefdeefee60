---------------------------- MODULE MCCfgBuilder ----------------------------
(* Small functions for CfgBuilder and GraphComparison: every sequence of   *)
(* at most MaxLen instructions over one of each control behaviour.         *)
EXTENDS GraphComparison

CONSTANTS MaxLen, Guards

Positions == 1 .. MaxLen

\* One plain instruction, exits and branches under every guard, branches on an
\* operand, indirect branches with and without known targets.
Alphabet ==
    {Instr("FADD", 0)}
    \cup {Guarded(g, Exit) : g \in Guards}
    \cup {Guarded(g, Bra(p)) : g \in Guards, p \in Positions \cup {Nowhere}}
    \cup {BraOperand(r, p) : r \in {"P0", "UP0"}, p \in Positions}
    \cup {BraDiv(1)}
    \cup {Guarded(g, Brx(s)) : g \in Guards, s \in {<<>>, <<1>>, <<MaxLen, 1>>}}

\* Targets stay inside the function.
MCPrograms ==
    {p \in UNION {[1 .. n -> Alphabet] : n \in 1 .. MaxLen} :
        \A i \in DOMAIN p : \A k \in DOMAIN p[i].targets : p[i].targets[k] <= Len(p)}
=============================================================================
