------------------------------ MODULE LegacyCfg ------------------------------
(***************************************************************************)
(* The control flow graph that sass/slicer.py builds, the earlier backend. *)
(*                                                                         *)
(* A label is the position of an instruction, or ExitBlock.  Two blocks    *)
(* without code stand for the entry and the exits; the others are numbered *)
(* from 0 in program order.  The successors of a block are a dictionary    *)
(* from edge names to blocks: here the sequence of its items.              *)
(***************************************************************************)
EXTENDS SassCfg

StartBlock == -2   \* _start
ExitBlock  == -1   \* _exit

IsControlInsn(i) == IsBranch(i) \/ IsExit(i)

\* A branch on a uniform predicate is a BRA.U.
IsBraU(i) == i.op = "BRA" /\ i.operand \in {"UP0", "!UP0"}

\* Operators named after a fault are variants of the one that follows them; no
\* specification uses them.
IsConditionalByGuard(i) == i.guard # "none"

IsConditional(i) == i.guard # "none" \/ IsBraU(i) \/ i.op = "BRA.DIV"

InsnTargets(i) == IF IsExit(i) THEN <<ExitBlock>> ELSE i.targets

Controls(instrs) == {p \in DOMAIN instrs : IsControlInsn(instrs[p])}

\* What follows a control instruction is a start, so blocks end where starts say.
Starts(instrs) ==
    {p + 1 : p \in Controls(instrs)}
        \cup UNION {ToSet(InsnTargets(instrs[p])) : p \in Controls(instrs)}

BlockStarts(instrs) == ({1} \cup Starts(instrs)) \cap DOMAIN instrs

\* A BRX whose targets are not known and a target without a block are refused.
Buildable(instrs) ==
    \A p \in Controls(instrs) :
        /\ InsnTargets(instrs[p]) # <<>>
        /\ ToSet(InsnTargets(instrs[p])) \subseteq DOMAIN instrs \cup {ExitBlock}

\* Conditions that one backend sees and the other does not: the first operand of
\* an unguarded branch, and an EXIT under a guard that always holds.
SeenOtherwise(i) ==
    \/ /\ IsBranch(i) /\ i.guard = "none" /\ i.operand \in PredRegisters
       /\ ~ IsBraU(i) /\ i.op # "BRA.DIV"
    \/ IsExit(i) /\ i.guard \in AlwaysTruePreds

Comparable(p) == Buildable(p) /\ \A n \in DOMAIN p : ~ SeenOtherwise(p[n])

Edge(name, number, block) == [label |-> <<name, number>>, to |-> block]

\* Numbers tell the targets of one branch apart: "true", "true1", ...
TargetEdges(i, blockAt) ==
    [n \in DOMAIN InsnTargets(i) |->
        Edge(IF IsConditional(i) THEN "true" ELSE "next", n - 1, blockAt[InsnTargets(i)[n]])]

FallEdge(i, following) ==
    CASE ~ IsControlInsn(i) -> <<Edge("next", 0, following)>>
      [] IsControlInsn(i) /\ IsConditional(i) -> <<Edge("false", 0, following)>>
      [] OTHER -> <<>>

BuildLegacyCfg(instrs) ==
    LET start == Append(Sorted(BlockStarts(instrs), Len(instrs)), Len(instrs) + 1)
        ids   == 0 .. Len(start) - 2
        blockAt == [l \in BlockStarts(instrs) \cup {ExitBlock} |->
                       IF l = ExitBlock THEN l ELSE CHOOSE k \in ids : start[k + 1] = l]
        last(k) == instrs[start[k + 2] - 1]
        falls(k) == IF k + 1 \in ids THEN FallEdge(last(k), k + 1) ELSE <<>>
        jumps(k) == IF IsControlInsn(last(k)) THEN TargetEdges(last(k), blockAt) ELSE <<>>
    IN  [k \in ids \cup {StartBlock, ExitBlock} |->
            CASE k = StartBlock -> [code |-> <<>>, succs |-> <<Edge("next", 0, 0)>>]
              [] k = ExitBlock  -> [code |-> <<>>, succs |-> <<>>]
              [] OTHER -> [code  |-> [n \in 1 .. start[k + 2] - start[k + 1] |->
                                         start[k + 1] + n - 1],
                           succs |-> falls(k) \o jumps(k)]]

Successors(g, b)   == {e.to : e \in ToSet(g[b].succs)}
Predecessors(g, b) == {a \in DOMAIN g : b \in Successors(g, a)}
=============================================================================
