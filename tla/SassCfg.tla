------------------------------- MODULE SassCfg -------------------------------
(***************************************************************************)
(* The control flow graph of one function: the passes of                   *)
(* _build_cfg_for_stmts as operators, and the two later passes that        *)
(* rewrite a graph before code generation: the rebuilding step of          *)
(* slice_cfg and collapse_try_alloc_retry.                                 *)
(*                                                                         *)
(* A graph is a function from block ids 0 .. n-1 (as in the source) to     *)
(* records; `first` is the position of the block's first instruction in    *)
(* the function and stands for its address, successors are in the order    *)
(* in which their edges were added, predecessors are a set.                *)
(***************************************************************************)
EXTENDS SassInstr, FiniteSets, SequencesExt

\* Targets of the branches that name a position of the function.  _branch_target
\* reads one target of a BRA and the whole target list of a BRX.
BranchTargets(instrs) ==
    (UNION {ToSet(instrs[i].targets) : i \in {j \in DOMAIN instrs : IsBranch(instrs[j])}})
        \ {Nowhere}

\* Operators named after a fault are variants of the one that follows them; no
\* specification uses them.
LeadersWithoutTargets(instrs) ==
    {1} \cup {i \in 2 .. Len(instrs) :
                 ClassifyTerminator(instrs[i - 1]) # "FALL_THROUGH"}

Leaders(instrs) ==
    {1} \cup BranchTargets(instrs)
        \cup {i \in 2 .. Len(instrs) :
                 ClassifyTerminator(instrs[i - 1]) # "FALL_THROUGH"}

\* sorted(): the members of S among 1 .. n.
Sorted(S, n) ==
    LET upto[p \in 0 .. n] ==
            IF p = 0 THEN <<>>
            ELSE IF p \in S THEN Append(upto[p - 1], p) ELSE upto[p - 1]
    IN  upto[n]

\* The items of s at the positions in S, in their order.
Selected(s, S) ==
    LET order == Sorted(S, Len(s)) IN [n \in DOMAIN order |-> s[order[n]]]

\* Block k holds the instructions from the k-th leader up to the next one.
Partition(instrs, leaders) ==
    LET start == Append(Sorted(leaders, Len(instrs)), Len(instrs) + 1)
    IN  [k \in 0 .. Len(start) - 2 |->
            [id |-> k,
             first |-> start[k + 1],
             instructions |-> SubSeq(instrs, start[k + 1], start[k + 2] - 1),
             term |-> ClassifyTerminator(instrs[start[k + 2] - 1]),
             succs |-> <<>>,
             preds |-> {}]]

\* _add_edge is idempotent.
AddEdge(blocks, src, dst) ==
    IF Contains(blocks[src].succs, dst) THEN blocks
    ELSE [blocks EXCEPT ![src].succs = Append(@, dst),
                        ![dst].preds = @ \cup {src}]

\* Blocks that start at the position; none for Nowhere.
BlockAt(blocks, position) == {k \in DOMAIN blocks : blocks[k].first = position}

AddEdgeTo(blocks, src, position) ==
    IF BlockAt(blocks, position) = {} THEN blocks
    ELSE AddEdge(blocks, src, CHOOSE dst \in BlockAt(blocks, position) : TRUE)

AddFallThroughUnchecked(blocks, src) == AddEdge(blocks, src, src + 1)

AddFallThrough(blocks, src) ==
    IF src + 1 \in DOMAIN blocks THEN AddEdge(blocks, src, src + 1) ELSE blocks

AddTargets(blocks, k) ==
    LET targets == Last(blocks[k].instructions).targets
        added[n \in 0 .. Len(targets)] ==
            IF n = 0 THEN blocks ELSE AddEdgeTo(added[n - 1], k, targets[n])
    IN  added[Len(targets)]

WireBlockAlwaysFalling(blocks, k) == AddFallThrough(AddTargets(blocks, k), k)

WireBlockFallFirst(blocks, k) == AddTargets(AddFallThrough(blocks, k), k)

WireBlock(blocks, k) ==
    LET last == Last(blocks[k].instructions)
        targeted == AddTargets(blocks, k)
    IN  CASE blocks[k].term = "EXIT" -> blocks
          [] blocks[k].term = "INDIRECT" ->
                IF IsUnconditional(last) THEN targeted ELSE AddFallThrough(targeted, k)
          [] blocks[k].term = "UNCONDITIONAL" -> targeted
          [] blocks[k].term = "CONDITIONAL" ->
                AddFallThrough(IF IsExit(last) THEN blocks ELSE targeted, k)
          [] blocks[k].term = "FALL_THROUGH" -> AddFallThrough(blocks, k)

BuildCfg(instrs) ==
    LET blocks == Partition(instrs, Leaders(instrs))
        n == Cardinality(DOMAIN blocks)
        wired[k \in 0 .. n] == IF k = 0 THEN blocks ELSE WireBlock(wired[k - 1], k - 1)
    IN  wired[n]

\* cfg.exit_blocks: EXIT blocks and blocks that end in a predicated EXIT.
ExitBlocks(blocks) ==
    {k \in DOMAIN blocks : /\ Len(blocks[k].instructions) > 0
                           /\ IsExit(Last(blocks[k].instructions))}

-----------------------------------------------------------------------------
(* slice_cfg, the rebuilding step: the same blocks, labels, edges and      *)
(* terminator kinds, with only the important instructions.                 *)

RebuildSlice(blocks, important) ==
    [k \in DOMAIN blocks |->
        [blocks[k] EXCEPT
            !.instructions = Selected(@, {i \in DOMAIN @ : blocks[k].first + i - 1 \in important})]]

\* The default slice of the command line: the seeds are the WARPSYNC and
\* USETMAXREG instructions; unguarded, with an immediate count, they read no
\* register, and control dependencies are off, so nothing else is important.
SeedOps == {"WARPSYNC", "TRY_ALLOC", "DEALLOC"}

Seeds(instrs) == {i \in DOMAIN instrs : instrs[i].op \in SeedOps}

DefaultSlice(instrs) == RebuildSlice(BuildCfg(instrs), Seeds(instrs))

-----------------------------------------------------------------------------
(* collapse_try_alloc_retry, one block.                                    *)

TryAllocAt(bb) == {i \in DOMAIN bb.instructions : bb.instructions[i].op = "TRY_ALLOC"}

FirstOf(S) == CHOOSE i \in S : \A j \in S : i <= j

CollapseBlock(blocks, k) ==
    LET bb    == blocks[k]
        back  == SelectInSeq(bb.succs, LAMBDA s : s <= k)
        retry == bb.succs[back]
        other == SelectInSeq(bb.succs, LAMBDA s : s # retry)
    IN  IF bb.term # "CONDITIONAL" \/ TryAllocAt(bb) = {} \/ back = 0 THEN blocks
        ELSE IF other = 0 THEN blocks
        ELSE [blocks EXCEPT
                ![k] = [bb EXCEPT
                          !.instructions = SubSeq(bb.instructions, 1, FirstOf(TryAllocAt(bb))),
                          !.term = "FALL_THROUGH",
                          !.succs = <<bb.succs[other]>>],
                ![retry].preds = @ \ {k}]

CollapseTryAllocRetry(blocks) ==
    LET n == Cardinality(DOMAIN blocks)
        collapsed[k \in 0 .. n] ==
            IF k = 0 THEN blocks ELSE CollapseBlock(collapsed[k - 1], k - 1)
    IN  collapsed[n]
=============================================================================
