----------------------------- MODULE CfgBuilder -----------------------------
(***************************************************************************)
(* _build_cfg_for_stmts: the control flow graph of one function.           *)
(*                                                                         *)
(* The input is the linearised instruction sequence with label references  *)
(* already replaced by positions, so pass 1 is the choice of `instrs`;     *)
(* passes 2 (leaders), 3 (blocks) and 4 (edges, one block per step) are    *)
(* actions.  Block ids start at 0 as in the source, positions at 1.        *)
(***************************************************************************)
EXTENDS SassCfg

CONSTANT Programs   \* the instruction sequences to build graphs of

\* A function without instructions has no graph to build.  A BRA names one place.
ASSUME ProgramsAssumption ==
    \A p \in Programs :
        /\ p # <<>> /\ p \in Seq(Range(p))
        /\ \A i \in DOMAIN p :
              /\ p[i].targets \in Seq(0 .. Len(p))
              /\ IsIndirect(p[i]) \/ Len(p[i].targets) <= 1

-----------------------------------------------------------------------------
VARIABLES
    instrs,    \* the function being built, fixed by Init
    pass,      \* "leaders", "blocks", "edges" or "done"
    leaders,
    blocks,
    next       \* the block whose edges pass 4 adds next

vars == <<instrs, pass, leaders, blocks, next>>

Init ==
    /\ instrs \in Programs
    /\ pass = "leaders"
    /\ leaders = {}
    /\ blocks = <<>>
    /\ next = 0

FindLeaders ==
    /\ pass = "leaders"
    /\ leaders' = Leaders(instrs)
    /\ pass' = "blocks"
    /\ UNCHANGED <<instrs, blocks, next>>

BuildBlocks ==
    /\ pass = "blocks"
    /\ blocks' = Partition(instrs, leaders)
    /\ pass' = "edges"
    /\ UNCHANGED <<instrs, leaders, next>>

WireEdges ==
    /\ pass = "edges"
    /\ next \in DOMAIN blocks
    /\ blocks' = WireBlock(blocks, next)
    /\ next' = next + 1
    /\ pass' = IF next + 1 \in DOMAIN blocks THEN "edges" ELSE "done"
    /\ UNCHANGED <<instrs, leaders>>

Next == FindLeaders \/ BuildBlocks \/ WireEdges

Spec == Init /\ [][Next]_vars

-----------------------------------------------------------------------------
(* Where control may go after an instruction, read from the instruction    *)
(* alone; this is the reference that the graph is compared with.           *)

AlwaysExecutes(i) ==
    /\ i.guard \in {"none"} \cup AlwaysTruePreds
    /\ ~ (IsBranch(i) /\ i.operand \in PredRegisters)

Falls(i) ==
    \/ ~ IsExit(i) /\ ~ IsBranch(i)
    \/ ~ AlwaysExecutes(i)
    \/ i.op = "BRA.DIV"

Flow(k) ==
    LET i == instrs[k]
    IN  ((IF IsBranch(i) THEN ToSet(i.targets) ELSE {})
            \cup (IF Falls(i) THEN {k + 1} ELSE {})) \cap DOMAIN instrs

LastOf(k)     == blocks[k].first + Len(blocks[k].instructions) - 1
PositionsOf(k) == blocks[k].first .. LastOf(k)

\* Every variable keeps its type through the passes.
TypeOK ==
    /\ instrs \in Programs
    /\ pass \in {"leaders", "blocks", "edges", "done"}
    /\ leaders \subseteq DOMAIN instrs
    /\ \A k \in DOMAIN blocks :
          /\ blocks[k].id = k
          /\ blocks[k].term \in TerminatorKind
          /\ ToSet(blocks[k].succs) \cup blocks[k].preds \subseteq DOMAIN blocks
    /\ next \in Nat

\* No execution is lost: after a finished build, control that can pass from
\* one instruction to another does so inside a block, between neighbours, or
\* along an edge from the last instruction of a block to the first of another.
NoFlowLost ==
    pass = "done" =>
        \A k \in DOMAIN blocks : \A p \in PositionsOf(k) : \A q \in Flow(p) :
            \/ p # LastOf(k) /\ q = p + 1
            \/ p = LastOf(k) /\ \E s \in ToSet(blocks[k].succs) : blocks[s].first = q

\* No execution is invented: every edge of a finished graph, and every step
\* inside a block, is a move that the instruction allows.  (A comment of
\* _ALWAYS_TRUE_PREDS says that branches on PT "are truly unconditional".)
NoFlowInvented ==
    pass = "done" =>
        \A k \in DOMAIN blocks :
            /\ \A s \in ToSet(blocks[k].succs) : blocks[s].first \in Flow(LastOf(k))
            /\ \A p \in PositionsOf(k) \ {LastOf(k)} : p + 1 \in Flow(p)

\* The order of successors is an interface: the code generator takes the first
\* successor of a conditional block for the taken path and the second for the
\* fall-through, so a two-way block lists its branch target first.
TakenComesFirst ==
    \A k \in DOMAIN blocks :
        blocks[k].term = "CONDITIONAL" /\ Len(blocks[k].succs) = 2 =>
            /\ blocks[blocks[k].succs[1]].first = Last(blocks[k].instructions).targets[1]
            /\ blocks[k].succs[2] = k + 1
=============================================================================
