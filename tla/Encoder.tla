------------------------------- MODULE Encoder -------------------------------
(***************************************************************************)
(* SassCFGCodegen._encode_cfg: from a control flow graph to the step       *)
(* definitions of the emitted process, together with the TLAThread methods *)
(* it calls (allocateState, setState, appendInstruction, ...).             *)
(*                                                                         *)
(* The template thread is a record                                         *)
(*   cur     current_state, the label the next definition will test;      *)
(*   states  Len(pc_states): how many labels have been allocated;          *)
(*   defs    thread_definitions, in order: [name, from, def], where def is *)
(*           a definition of SassProcess and `from`, a history field, the  *)
(*           block and the index of the instruction it was emitted for     *)
(*           (index 0: for the control flow at the end of the block);      *)
(*   log     the <<block, index>> pairs logged as UNSUPPORTED.             *)
(*                                                                         *)
(* A label is a pair <<prefix, number>>: bb_4_L_x_29 is <<"bb", 4>>,       *)
(* state_7 is <<"state", 7>>, start is <<"start", 0>>.                     *)
(***************************************************************************)
EXTENDS SassCfg

StartLabel == <<"start", 0>>
ErrorLabel == <<"error", 0>>

NewThread == [cur |-> StartLabel, states |-> 1, defs |-> <<>>, log |-> {}]

-----------------------------------------------------------------------------
(* TLAThread.                                                              *)

\* Operators named after a fault are variants of the one that follows them; no
\* specification uses them.
SetStateForgotten(th, label) == th

SetState(th, label) == [th EXCEPT !.cur = label]

\* allocateState: a named label, or state_N with N the labels so far.
AllocateState(th) == [th EXCEPT !.states = @ + 1]
FreshLabelOffByOne(th) == <<"state", th.states + 1>>
FreshLabel(th)    == <<"state", th.states>>

UniqueName(th, prefix) == <<prefix, th.states>>

AddDefinition(th, from, name, def) ==
    [th EXCEPT !.defs = Append(@, [name |-> name, from |-> from, def |-> def])]

\* An instruction with the label it tests and the one it moves to.
Placed(def, at, to) ==
    [field \in DOMAIN def \cup {"at", "to"} |->
        CASE field = "at" -> at [] field = "to" -> to [] OTHER -> def[field]]

\* The current label read after the push.
AppendInstructionLate(th, from, prefix, def) ==
    LET pushed == SetState(AllocateState(th), FreshLabel(th))
    IN  AddDefinition(pushed, from, UniqueName(pushed, prefix),
                      Placed(def, pushed.cur, FreshLabel(th)))

\* appendInstruction: move to a fresh label; the name is taken after the push.
AppendInstruction(th, from, prefix, def) ==
    LET pushed == SetState(AllocateState(th), FreshLabel(th))
    IN  AddDefinition(pushed, from, UniqueName(pushed, prefix),
                      Placed(def, th.cur, FreshLabel(th)))

\* stopInstruction allocates no label.
StopInstruction(th, id) ==
    AddDefinition(th, <<id, 0>>, UniqueName(th, "stop"), [kind |-> "stop", at |-> th.cur])

\* The fall-through forgotten.
AppendBranchTakenOnly(th, id, pred, taken, fall) ==
    AddDefinition(th, <<id, 0>>, <<"goto", th.cur>>,
                  [kind |-> "stutter", at |-> th.cur, to |-> taken])

\* IF pred THEN goto taken ELSE goto fall, as a branch on P0.  UP0 is FALSE in
\* the initial state, and the definition emitted for TRY_ALLOC does not write it.
AppendBranchInstruction(th, id, pred, taken, fall) ==
    LET whenTrue  == IF pred \in {"P0", "!UP0"} THEN taken ELSE fall
        whenFalse == IF pred \in {"!P0", "!UP0"} THEN taken ELSE fall
    IN  AddDefinition(th, <<id, 0>>, <<"branch", taken, fall>>,
                      [kind |-> "branch", at |-> th.cur,
                       taken |-> whenTrue, fall |-> whenFalse])

-----------------------------------------------------------------------------
(* SassCFGCodegen.                                                         *)

EmitGoto(th, id, target) ==
    AddDefinition(th, <<id, 0>>, <<"goto", th.cur>>,
                  [kind |-> "stutter", at |-> th.cur, to |-> target])

EmitIndirectBranch(th, id, targets) ==
    AddDefinition(th, <<id, 0>>, <<"brx", th.cur>>,
                  [kind |-> "brx", at |-> th.cur, targets |-> targets])

\* The handler table, reduced to one mnemonic per effect.  The guard of the
\* instruction is not part of any of these four definitions.
HandledOps == {"WARPSYNC", "ISETP", "TRY_ALLOC", "DEALLOC"}

EmitInstruction(th, from, i) ==
    CASE i.op = "WARPSYNC" ->
            AppendInstruction(th, from, "warpsync", [kind |-> "stutter"])
      [] i.op = "ISETP" ->
            AppendInstruction(th, from, "isetp", [kind |-> "setp", addr |-> i.arg])
      [] i.op = "TRY_ALLOC" ->
            AppendInstruction(th, from, "usetmaxreg", [kind |-> "inc", count |-> i.arg])
      [] i.op = "DEALLOC" ->
            AppendInstruction(th, from, "usetmaxreg", [kind |-> "dec", count |-> i.arg])
      [] OTHER -> [th EXCEPT !.log = @ \cup {from}]

\* _branch_pred: the guard, else the first operand if it is a predicate register,
\* whatever the instruction is.
BranchPred(i) ==
    IF IsPredicated(i) THEN i.guard
    ELSE IF i.operand \in PredRegisters THEN i.operand ELSE "none"

\* block_states
BlockLabel(id) == IF id = 0 THEN StartLabel ELSE <<"bb", id>>

\* To the next block in program order, whatever the graph says.
GotoNextBlock(th, bb) ==
    IF bb.succs = <<>> THEN th ELSE EmitGoto(th, bb.id, BlockLabel(bb.id + 1))

\* Nothing for a block whose instructions were all sliced away.
GotoFirstUnlessEmpty(th, bb) ==
    IF bb.succs = <<>> \/ bb.instructions = <<>> THEN th
    ELSE EmitGoto(th, bb.id, BlockLabel(bb.succs[1]))

GotoFirst(th, bb) ==
    IF bb.succs = <<>> THEN th ELSE EmitGoto(th, bb.id, BlockLabel(bb.succs[1]))

EncodeTerminator(th, bb) ==
    LET last  == Last(bb.instructions)
        pred  == BranchPred(last)
        taken == BlockLabel(bb.succs[1])
        fall  == BlockLabel(bb.succs[2])
    IN  CASE bb.term = "EXIT" -> StopInstruction(th, bb.id)
          [] bb.term = "FALL_THROUGH" ->
                GotoFirst(EmitInstruction(th, <<bb.id, Len(bb.instructions)>>, last), bb)
          [] bb.term = "UNCONDITIONAL" -> GotoFirst(th, bb)
          [] bb.term = "CONDITIONAL" ->
                IF pred # "none" /\ Len(bb.succs) > 1
                THEN AppendBranchInstruction(th, bb.id, pred, taken, fall)
                ELSE GotoFirst(th, bb)
          [] bb.term = "INDIRECT" ->
                IF bb.succs = <<>> THEN StopInstruction(th, bb.id)
                ELSE EmitIndirectBranch(th, bb.id,
                                        {BlockLabel(s) : s \in ToSet(bb.succs)})

\* The template thread after each of the first n instructions of a block.
EmittedUpTo(th, bb, n) ==
    LET emitted[k \in 0 .. n] ==
            IF k = 0 THEN th
            ELSE EmitInstruction(emitted[k - 1], <<bb.id, k>>, bb.instructions[k])
    IN  emitted

EmitFirst(th, bb, n) == EmittedUpTo(th, bb, n)[n]

\* The last instruction but one skipped.
EncodeBodyShort(th, bb) ==
    IF Len(bb.instructions) = 1 THEN th ELSE EmitFirst(th, bb, Len(bb.instructions) - 2)

EncodeBody(th, bb) == EmitFirst(th, bb, Len(bb.instructions) - 1)

EncodeBlock(th0, bb) ==
    LET th == SetState(th0, BlockLabel(bb.id))
    IN  IF bb.instructions = <<>> THEN GotoFirst(th, bb)
        ELSE EncodeTerminator(EncodeBody(th, bb), bb)

\* Every block but the first allocates its label before any is encoded.
AllocateBlockStates(cfg) ==
    [NewThread EXCEPT !.states = 1 + Cardinality(DOMAIN cfg \ {0})]

EncodeCfg(cfg) ==
    FoldLeft(LAMBDA th, k : EncodeBlock(th, cfg[k]), AllocateBlockStates(cfg),
             [k \in 1 .. Cardinality(DOMAIN cfg) |-> k - 1])

\* What the emitted step(t) is a disjunction of.
DefinitionsOf(th) == {th.defs[k].def : k \in DOMAIN th.defs}
=============================================================================
