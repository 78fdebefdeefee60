---------------------------- MODULE SassProcess ----------------------------
(***************************************************************************)
(* The concurrent process that the pipeline emits for one kernel: a grid   *)
(* of threads that all run the same step definitions, share one register   *)
(* pool per CTA (thread block), and trade registers with that pool through *)
(* USETMAXREG.TRY_ALLOC (incReg) and USETMAXREG.DEALLOC (decReg).          *)
(*                                                                         *)
(* The emitted module has one disjunct of `step(t)` per definition that    *)
(* the code generator appended.  Here the definitions are data: a set of   *)
(* records, one per emitted definition, with the program counter label the *)
(* definition tests and the labels it moves to.                            *)
(*                                                                         *)
(* Abstracted: of the register files only one predicate per thread is      *)
(* kept, because registers matter to control only through the branches,    *)
(* and of each word of memory only the truth of the comparison the kernel  *)
(* makes with it.  Memory is not initialised by the emitted Init and no    *)
(* definition writes it.                                                   *)
(***************************************************************************)
EXTENDS SassGrid

CONSTANTS
    Addr,           \* the memory words the kernel compares
    Label,          \* program counter labels
    Start,          \* the label "start"
    ErrorState,     \* the label "error"
    Definitions     \* the emitted step definitions

\* The shape of the emitted definitions, by the method that emits each.
DefinitionType ==
         [kind : {"stutter"}, at : Label, to : Label]
    \cup [kind : {"setp"}, at : Label, to : Label, addr : Addr]
    \cup [kind : {"inc", "dec"}, at : Label, to : Label, count : RegCount]
    \cup [kind : {"branch"}, at : Label, taken : Label, fall : Label]
    \cup [kind : {"brx"}, at : Label, targets : SUBSET Label]
    \cup [kind : {"stop"}, at : Label]

ASSUME ProgramAssumption ==
    /\ Start \in Label
    /\ ErrorState \in Label
    /\ Definitions \subseteq DefinitionType

-----------------------------------------------------------------------------
VARIABLES
    mem,                  \* truth of the comparison at each address
    pcs,                  \* program counter of each thread
    numRegThread,         \* registers each thread holds
    BlockToRegPoolCount,  \* registers in the pool of each CTA
    seenRegInstr,         \* whether the thread has executed a USETMAXREG
    regs_predicate        \* the predicate register of each thread

vars == <<mem, pcs, numRegThread, BlockToRegPoolCount, seenRegInstr,
          regs_predicate>>

Init ==
    /\ mem \in [Addr -> BOOLEAN]
    /\ pcs = [t \in Thread |-> Start]
    /\ numRegThread = [t \in Thread |-> InitReg]
    /\ BlockToRegPoolCount = [b \in CTA |-> RegPerCTA]
    /\ seenRegInstr = [t \in Thread |-> FALSE]
    /\ regs_predicate = [t \in Thread |-> FALSE]

\* pcTransition(current, next)
Goto(t, from, to) == pcs[t] = from /\ pcs' = [pcs EXCEPT ![t] = to]

UnchangedRegisters == UNCHANGED <<numRegThread, BlockToRegPoolCount, seenRegInstr>>

-----------------------------------------------------------------------------
(* One operator per kind of definition.                                    *)

\* WARPSYNC, gotos, instructions whose result is discarded.
Stutter(t, d) ==
    /\ d.kind = "stutter"
    /\ Goto(t, d.at, d.to)
    /\ UNCHANGED <<mem, regs_predicate>> /\ UnchangedRegisters

\* An instruction that writes a predicate from a memory word.
SetPredicate(t, d) ==
    /\ d.kind = "setp"
    /\ Goto(t, d.at, d.to)
    /\ regs_predicate' = [regs_predicate EXCEPT ![t] = mem[d.addr]]
    /\ UNCHANGED mem /\ UnchangedRegisters

\* Variants of the operators below with a fault each; no specification uses them.
\* Without the guard.
IncRegUnguarded(t, count) ==
    /\ BlockToRegPoolCount' = [BlockToRegPoolCount EXCEPT
          ![ThreadToBlockIndex[t]] = @ - (count - numRegThread[t])]
    /\ numRegThread' = [numRegThread EXCEPT ![t] = count]

\* A grant of what the pool has, when that is less.
IncRegPartial(t, count) ==
    LET pool == BlockToRegPoolCount[ThreadToBlockIndex[t]]
    IN  IncRegUnguarded(t, IF numRegThread[t] + pool < count THEN numRegThread[t] + pool
                                                             ELSE count)

\* The pool updated with the wrong sign.
IncRegWrongSign(t, count) ==
    /\ BlockToRegPoolCount' = [BlockToRegPoolCount EXCEPT
          ![ThreadToBlockIndex[t]] = @ + (count - numRegThread[t])]
    /\ numRegThread' = [numRegThread EXCEPT ![t] = count]

DecRegWrongSign(t, count) == IncRegWrongSign(t, count)

\* The difference stored in place of the count.
DecRegStoresDelta(t, count) == IncRegUnguarded(t, numRegThread[t] - count)

\* A release held back by a pool that is already full.
DecRegGuarded(t, count) ==
    /\ BlockToRegPoolCount[ThreadToBlockIndex[t]] + numRegThread[t] - count <= RegPerCTA
    /\ IncRegUnguarded(t, count)

\* The guard of incReg: pool + delta = regPerCTA \/ pool + delta < regPerCTA.
IncGuard(t, count) ==
    LET pool == BlockToRegPoolCount[ThreadToBlockIndex[t]]
        delta == count - numRegThread[t]
    IN  pool + delta = RegPerCTA \/ pool + delta < RegPerCTA

IncReg(t, count) ==
    LET b == ThreadToBlockIndex[t]
        delta == count - numRegThread[t]
    IN  /\ IncGuard(t, count)
        /\ BlockToRegPoolCount' = [BlockToRegPoolCount EXCEPT ![b] = @ - delta]
        /\ numRegThread' = [numRegThread EXCEPT ![t] = count]

DecReg(t, count) ==
    LET b == ThreadToBlockIndex[t]
        delta == numRegThread[t] - count
    IN  /\ numRegThread' = [numRegThread EXCEPT ![t] = count]
        /\ BlockToRegPoolCount' = [BlockToRegPoolCount EXCEPT ![b] = @ + delta]

\* _emitSeenRegInstr: the change of registers, the flag and the pc, in one step.
EmitSeenRegInstr(t, d) ==
    /\ Goto(t, d.at, d.to)
    /\ seenRegInstr' = [seenRegInstr EXCEPT ![t] = TRUE]
    /\ UNCHANGED <<mem, regs_predicate>>

TryAlloc(t, d) ==
    /\ d.kind = "inc"
    /\ IncReg(t, d.count)
    /\ EmitSeenRegInstr(t, d)

Dealloc(t, d) ==
    /\ d.kind = "dec"
    /\ DecReg(t, d.count)
    /\ EmitSeenRegInstr(t, d)

Branch(t, d) ==
    /\ d.kind = "branch"
    /\ IF regs_predicate[t] THEN Goto(t, d.at, d.taken) ELSE Goto(t, d.at, d.fall)
    /\ UNCHANGED <<mem, regs_predicate>> /\ UnchangedRegisters

\* BRX: nondeterministic over the successors of the block.
IndirectBranch(t, d) ==
    /\ d.kind = "brx"
    /\ \E target \in d.targets : Goto(t, d.at, target)
    /\ UNCHANGED <<mem, regs_predicate>> /\ UnchangedRegisters

\* EXIT: a self-loop that changes nothing.
Stop(t, d) ==
    /\ d.kind = "stop"
    /\ pcs[t] = d.at
    /\ UNCHANGED vars

StepBy(t, d) ==
    \/ Stutter(t, d)
    \/ SetPredicate(t, d)
    \/ TryAlloc(t, d)
    \/ Dealloc(t, d)
    \/ Branch(t, d)
    \/ IndirectBranch(t, d)
    \/ Stop(t, d)

step(t) == \E d \in Definitions : StepBy(t, d)

Next == \E t \in Thread : step(t)

Spec == Init /\ [][Next]_vars

\* Weak fairness of each thread: "each thread must make progress when progress
\* is available".
FairSpec == Spec /\ \A t \in Thread : WF_vars(step(t))

-----------------------------------------------------------------------------
(* Properties.                                                             *)

LabelsOf(kind) == {d.at : d \in {e \in Definitions : e.kind = kind}}

Stopped(t) == pcs[t] \in LabelsOf("stop")

\* The kernels of the compilers the tool is used on: no DEALLOC asks for more
\* registers than a thread starts with.
DeallocsBelowInit == \A d \in Definitions : d.kind = "dec" => d.count <= InitReg

\* Every variable keeps its type; the pool counters may be negative in general.
TypeOK ==
    /\ mem \in [Addr -> BOOLEAN]
    /\ pcs \in [Thread -> Label]
    /\ numRegThread \in [Thread -> RegCount \cup {InitReg}]
    /\ BlockToRegPoolCount \in [CTA -> Int]
    /\ seenRegInstr \in [Thread -> BOOLEAN]
    /\ regs_predicate \in [Thread -> BOOLEAN]

Pool == INSTANCE RegPool WITH held <- numRegThread, free <- BlockToRegPoolCount

\* incReg and decReg each write two variables from a stale copy of one: through
\* every interleaving, the registers of a CTA's threads and of its pool add up
\* to what they were at the launch, and no other CTA's registers move.
PoolConservation == Pool!Conservation

\* The process implements the pool that the notes describe: no thread takes
\* registers that its CTA's pool does not have, whichever instruction asks.
RefinesRegPool == Pool!Spec

\* The special registers and memory are shared constants, so all threads follow one
\* path, but for jump tables, whose cases meet again in the kernel of the run:
\* whatever the interleaving, and however long TRY_ALLOC made some of them wait,
\* those that stop agree on everything.
FinalStatesAgree ==
    \A t, u \in Thread :
        Stopped(t) /\ Stopped(u) =>
            /\ pcs[t] = pcs[u]
            /\ numRegThread[t] = numRegThread[u]
            /\ regs_predicate[t] = regs_predicate[u]

\* In a kernel without an endless loop a thread is held up by the pool only: a
\* release, a branch, a label without a definition or another CTA never stop it,
\* and it ends at an EXIT or at a TRY_ALLOC that is never granted.
OnlyTryAllocWaits == \A t \in Thread : <>[](Stopped(t) \/ pcs[t] \in LabelsOf("inc"))

-----------------------------------------------------------------------------
(* What the notes and the comments say, where the code does otherwise.     *)

\* "not letting the pc increment after the inc instruction unless the cta pool
\* has enough registers": a thread at a TRY_ALLOC is held back only by a pool
\* with too few registers.
EnoughRegistersSuffice ==
    \A t \in Thread : \A d \in {e \in Definitions : e.kind = "inc"} :
        /\ pcs[t] = d.at
        /\ BlockToRegPoolCount[ThreadToBlockIndex[t]] >= d.count - numRegThread[t]
        => IncGuard(t, d.count)

\* "Every thread that incs their registers must eventually not be in that state",
\* the temporal property UsetmaxregProgress that the tool emits for each TRY_ALLOC.
UsetmaxregProgress ==
    \A t \in Thread : \A l \in LabelsOf("inc") : pcs[t] = l ~> pcs[t] # l
=============================================================================
