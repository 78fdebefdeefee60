------------------------------- MODULE Codegen -------------------------------
(***************************************************************************)
(* The code generator as a computation over the graphs that the pipeline   *)
(* can hand to it, one block per step, and what its output must satisfy.   *)
(***************************************************************************)
EXTENDS Encoder

CONSTANTS
    Functions,   \* the instruction sequences to lower
    Slicings     \* a subset of {"whole", "sliced"}

\* What sass2tla.py makes of a function before it calls generate, and the graph
\* that generate may be given instead, "sliced or unsliced".
Lower(f, slicing) ==
    IF slicing = "whole" THEN BuildCfg(f) ELSE CollapseTryAllocRetry(DefaultSlice(f))

\* Blocks are numbered from 0, edges lead to blocks, and a conditional block has
\* at most a taken successor and a fall-through.
IsGraph(g) ==
    /\ Cardinality(DOMAIN g) \in Nat
    /\ DOMAIN g = 0 .. Cardinality(DOMAIN g) - 1
    /\ \A k \in DOMAIN g :
          /\ g[k].id = k
          /\ g[k].term \in TerminatorKind
          /\ g[k].instructions \in Seq(ToSet(g[k].instructions))
          /\ g[k].succs \in Seq(DOMAIN g)
          /\ g[k].term = "CONDITIONAL" => Len(g[k].succs) <= 2

ASSUME GraphsAssumption == \A f \in Functions, slicing \in Slicings : IsGraph(Lower(f, slicing))

\* The labels allocated so far.
AllocatedLabel(graph, th) ==
    {StartLabel} \cup {<<"bb", id>> : id \in DOMAIN graph \ {0}}
                 \cup {<<"state", n>> : n \in 0 .. th.states - 1}

VARIABLES
    cfg,      \* the graph, fixed by Init
    next,     \* id of the block to encode next
    thread    \* the template thread

vars == <<cfg, next, thread>>

Init ==
    /\ \E f \in Functions, slicing \in Slicings : cfg = Lower(f, slicing)
    /\ next = 0
    /\ thread = AllocateBlockStates(cfg)

EncodeNext ==
    /\ next \in DOMAIN cfg
    /\ thread' = EncodeBlock(thread, cfg[next])
    /\ next' = next + 1
    /\ UNCHANGED cfg

Next == EncodeNext

Spec == Init /\ [][Next]_vars

-----------------------------------------------------------------------------
(* Properties of the emitted definitions.                                  *)

Defs == thread.defs

\* The labels a definition can move the program counter to.
TargetsOf(d) ==
    CASE d.kind = "branch" -> {d.taken, d.fall}
      [] d.kind = "brx"    -> d.targets
      [] d.kind = "stop"   -> {d.at}
      [] OTHER             -> {d.to}

\* The flow definition that ends the encoding of a block, if any.
FlowOf(id) == {k \in DOMAIN Defs : Defs[k].from = <<id, 0>>}

TerminatorKept(bb) ==
    bb.instructions # <<>> /\ ClassifyTerminator(Last(bb.instructions)) = bb.term

\* Definitions only mention labels that have been allocated.
TypeOK ==
    /\ next \in 0 .. Cardinality(DOMAIN cfg)
    /\ thread.states \in Nat
    /\ \A k \in DOMAIN Defs :
          /\ Defs[k].from[1] \in 0 .. next - 1
          /\ {Defs[k].def.at} \cup TargetsOf(Defs[k].def) \subseteq AllocatedLabel(cfg, thread)

\* step(t) is a disjunction of all definitions, so two of them that test the
\* same label would give a thread a choice that the kernel does not have: the
\* current_state bookkeeping keeps every label to one definition.
OneDefinitionPerLabel ==
    \A j, k \in DOMAIN Defs : Defs[j].def.at = Defs[k].def.at => j = k

\* A thread that enters a block at its label runs the definitions of the block's
\* instructions in program order and nothing else before the block's flow: each
\* definition moves to the label that the next one of the block tests.
BlocksAreChains ==
    \A k \in DOMAIN Defs :
        IF k = 1 \/ Defs[k - 1].from[1] # Defs[k].from[1]
        THEN Defs[k].def.at = BlockLabel(Defs[k].from[1])
        ELSE /\ TargetsOf(Defs[k - 1].def) = {Defs[k].def.at}
             /\ Defs[k].from[2] # 0 => Defs[k - 1].from[2] < Defs[k].from[2]
             /\ Defs[k - 1].from[2] # 0

\* Control leaves a block only towards its successors in the graph, and a
\* thread stops only in a block that the graph gives no successor or an EXIT.
FlowStaysInGraph ==
    \A id \in 0 .. next - 1 : \A k \in FlowOf(id) :
        LET d == Defs[k].def
        IN  IF d.kind = "stop" THEN cfg[id].term = "EXIT" \/ cfg[id].succs = <<>>
            ELSE TargetsOf(d) \subseteq {BlockLabel(s) : s \in ToSet(cfg[id].succs)}

\* A thread that can move on in the graph is never stuck in the emitted model:
\* once everything is encoded, a label that a definition leads to is tested by
\* a definition, or belongs to a block without successors.
NoDeadLabel ==
    next = Cardinality(DOMAIN cfg) =>
        \A k \in DOMAIN Defs : \A label \in TargetsOf(Defs[k].def) :
            \/ \E j \in DOMAIN Defs : Defs[j].def.at = label
            \/ \E id \in DOMAIN cfg :
                  /\ cfg[id].succs = <<>>
                  /\ label = BlockLabel(id) \/ Defs[k].from[1] = id

\* The instructions in a graph that have a handler are all emitted ("Unsupported
\* instructions are logged as UNSUPPORTED and skipped", the others are not).
HandledInstructionsEmitted ==
    \A id \in 0 .. next - 1 : \A k \in DOMAIN cfg[id].instructions :
        cfg[id].instructions[k].op \in HandledOps =>
            \E j \in DOMAIN Defs : Defs[j].from = <<id, k>>

\* The kind of a block is decided when the graph is built and its last
\* instruction is read after slicing: in a block where the two still agree, no
\* instruction with a handler is lost.
EmittedWithTerminator ==
    \A id \in {k \in 0 .. next - 1 : TerminatorKept(cfg[k])} :
        \A k \in DOMAIN cfg[id].instructions :
            cfg[id].instructions[k].op \in HandledOps =>
                \E j \in DOMAIN Defs : Defs[j].from = <<id, k>>

\* A branch on a predicate that some instruction may write (UP0 stays FALSE) keeps
\* all of its outcomes, in the block where the slicer left it.
PredicatedBranchesEmitted ==
    \A id \in {k \in 0 .. next - 1 : TerminatorKept(cfg[k])} :
        LET last == Last(cfg[id].instructions)
        IN  cfg[id].succs # <<>> /\ IsBranch(last) /\ BranchPred(last) \in {"P0", "!P0"} =>
                {BlockLabel(s) : s \in ToSet(cfg[id].succs)} =
                    UNION {TargetsOf(Defs[k].def) : k \in FlowOf(id)}
=============================================================================
