# TLA+ models of tlaplusgen

`tlaplusgen` turns one GPU kernel, disassembled to SASS, into a TLA+ module: a
concurrent process with one copy of the kernel per thread, in which the threads of
a CTA trade registers with a pool through `USETMAXREG`. This directory models the
translator, its two backends, the trace viewer beside it and the process that it
emits, checks them with TLC, and proves the central facts with TLAPS. Paths below
are relative to the repository.

## 1. Inventory

Flow of one invocation (`src/sass2tla.py`):

    text -> cleaner -> parser -> build_cfgs -> slice_cfg -> collapse_try_alloc_retry
         -> SassCFGCodegen.generate -> TLASassProcess (print) -> module + invariants

Everything up to printing is one Python thread without shared state between stages:
each stage receives a value and returns a new one (`collapse_try_alloc_retry`
changes its argument). The concurrency is in the *emitted* process, and in the
warps whose trace `trace_viewer.py` reads. With `--backend gpucode` the first five
stages are those of another package, of which `sass/slicer.py` is a copy, and
`sass/gpucode_adapter.py` converts its graphs.

| Component | State | Operations | What is hard | What makes it correct |
|---|---|---|---|---|
| Cleaner, parser, `build_cfgs` (`sass/cleaner.py`, `sass/parser.py`, `sass/cfg.py` 334-413, 1153-1166) | lines, statements, the function being read, `label_to_addr` | classify a line, parse it, split at markers, resolve labels | lines dropped at three places between a label and its instruction, two functions of one name, labels without an instruction | functions are the sections of the text, branches follow their labels |
| CFG builder (`sass/cfg.py` 76-545) | blocks, `leaders` | classify terminators, find leaders, partition, wire edges | two sources of leaders, conditional exits, guards that always hold, a successor order that later stages rely on | the graph allows exactly the moves of the instructions |
| Slicer (`sass/cfg.py` 562-1090) | `rd`, `rd_in`, `important`, `worklist`, dominators, frontiers | reaching definitions, data walk, post-dominance, control rounds, rebuild | four fixpoints that must end, guarded writes, loops, unordered worklist | the slice is the closure of the seeds under dependency, and is returned |
| Earlier slicer (`sass/slicer.py`) | the same, in its own form | own graph, own tables, own dominators, own rounds | a second implementation that drifts | keeps the same instructions as `slice_cfg` |
| gpucode adapter (`sass/gpucode_adapter.py`) | none | convert blocks, terminators, edges | edges by name on one side, by position on the other | both backends build the same graph |
| Retry collapsing (`sass/cfg.py` 1098-1145) | graph, in place | drop the loop that retries `TRY_ALLOC` | recognises the loop by one backward edge | only the retry disappears |
| Code generator: control (`tla_codegen.py` 273-385, `tla_thread.py`) | `current_state`, `pc_states`, `thread_definitions`, `block_states` | allocate labels, append instructions, branches, gotos, stops | labels allocated ahead of use, blocks emptied or cut by the slicer, terminators read after slicing | one definition per label, each block one chain, control stays in the graph |
| Code generator: handlers (`tla_codegen.py` 388-879) | registers of one thread | operand, guard, value, destinations of each mnemonic | unbounded integers for 32-bit words, signed and unsigned reads, two destinations | the emitted step does what the macros of `sass_insns.h` say |
| Emitted process (`tla_sass.py`, `tla_thread.py`) | `pcs`, `numRegThread`, `BlockToRegPoolCount`, `seenRegInstr`, register files, `mem` | step of a thread: handler, `incReg`, `decReg`, branch, stop | all interleavings of threads over shared counters, threads that wait | registers are conserved, pools not overdrawn, waiting threads get through |
| Trace viewer (`trace_viewer.py`) | the entry being read, entries, `gpr_states` of each warp | read a line, show or follow an entry | entries end in three ways, registers are matched to values by position, two copies of the update | what is shown is what the trace says |
| Command line (`sass2tla.py`) | none | pipeline, emitted invariants | invariants that do not say what the notes say | emitted invariants hold of correct kernels |
| Module printer (`tla_module.py`) | expression trees | print | `Spec == Init` | what is printed means what was built |

`PROJECT.json` lists the hazards of each at the line where they bite.

## 2. Modules

| Module | Models | Code |
|---|---|---|
| `FrontEnd` | from the lines of a disassembly to the instructions of its functions, one line or statement per step | `sass/cleaner.py`, `sass/parser.py` 557-617, `sass/cfg.py` 334-413, 1153-1166 |
| `SassInstr` | an instruction, `_is_branch` ... `_classify_terminator` | `sass/cfg.py` 76-191 |
| `SassCfg` | the passes of `_build_cfg_for_stmts`, the rebuilding step of `slice_cfg`, `collapse_try_alloc_retry`, as operators on graphs | `sass/cfg.py` 365-545, 1059-1174 |
| `CfgBuilder` | the same passes as a computation: leaders, blocks, then the edges of one block per step | `sass/cfg.py` 365-545 |
| `LegacyCfg` | the graph of the earlier backend, with a start and an exit block | `sass/slicer.py` |
| `GpucodeAdapter` | the conversion of such a graph | `sass/gpucode_adapter.py` 195-313 |
| `GraphComparison` | `BackendsAgree`: `CfgBuilder` beside `GpucodeAdapter` | |
| `DefUse` | `defs_of`, `uses_of` and their tables | `sass/cfg.py` 559-772 |
| `Slicer` | `slice_cfg` with `compute_reaching_definitions`, `_compute_dominators_for_blocks`, `_compute_dominance_frontiers`; one step per instruction, block or runner visited | `sass/cfg.py` 792-1057 |
| `LegacySlicer` | def-use, reaching definitions, post-dominators, frontiers and rounds of the earlier slicer, as operators | `sass/slicer.py` |
| `SliceComparison` | `LegacySliceAgrees`: `Slicer` beside `LegacySlicer` | |
| `Encoder` | `_encode_cfg`, `_encode_block` and the `TLAThread` methods they call | `tla_codegen.py` 273-385, `tla_thread.py` 38-280 |
| `Codegen` | the encoder over every graph of the pipeline, one block per step | `sass2tla.py` 77-84, `tla_codegen.py` 273-288 |
| `Handlers` | straight code executed twice: by the emitted steps on integers and by the macros on words | `tla_codegen.py` 388-879, `sass/sass_insns.h` |
| `RegisterSum`, `SassGrid` | a sum over threads; the launch geometry | `tla_sass.py` 668-806 |
| `RegPool` | what the notes promise of a register pool, without program counters (abstract specification) | `invariants.txt` 3a |
| `SassProcess` | the emitted process: `Init`, one operator per kind of step definition, `incReg`, `decReg` | `tla_sass.py`, `tla_thread.py`, `tla_codegen.py` 340-370, 793-803, 876 |
| `TraceReplay` | what a reader of a trace may know, entry by entry (abstract specification) | |
| `TraceViewer` | the traced warps and the tracer as environment, `parse_trace` line by line, `main` entry by entry | `trace_viewer.py` |
| `MCFrontEnd`, `MCCfgBuilder`, `MCCodegen`, `MCSlicer`, `MCHandlers`, `MCSassProcess`, `MCTraceViewer` | finite instances | |
| `Lemmas` | facts about naturals, sequences and loops that settle; what `BuildCfg`, the rebuilding of a slice, `CollapseTryAllocRetry` and the earlier backend return | |
| `FrontEnd_proofs`, `CfgBuilder_proofs`, `Slicer_proofs`, `Codegen_proofs`, `Handlers_proofs`, `SassProcess_proofs`, `TraceViewer_proofs` | theorems about the module of that name | |

They compose as the program does: `MCSassProcess` takes an instruction sequence,
builds its graph with `BuildCfg`, collapses it, encodes it with `EncodeCfg` and runs
`SassProcess` on the definitions that come out. `Codegen` and `MCSlicer` take their
graphs from `BuildCfg`. `GraphComparison` and `SliceComparison` put the two
implementations of one stage side by side in one state. `Handlers` reads what an
instruction defines and uses from `DefUse`, so a disagreement between the tables of
the slicer and the handlers of the code generator shows. `SassProcess` implements
`RegPool` under `held <- numRegThread, free <- BlockToRegPoolCount`; `TraceViewer`
implements `TraceReplay` under `entries <- Given`, the entries with the values they
hold.

Choices that hold everywhere:

- An instruction is a record; one mnemonic stands for all that the code treats
  alike. Behind `FrontEnd`, labels are positions in the function. Guards `@P0`,
  `@!P0`, `@PT` are told apart; `UPT` behaves as `PT`.
- Definitions of the emitted module are data (records with the label they test and
  the labels they set), because the emitted `step(t)` is their disjunction.
- Of the registers `SassProcess` keeps one predicate per thread, of each memory word
  the truth of the one comparison made with it. The emitted `Init` does not constrain
  `mem` and nothing writes it, so its values are arbitrary and fixed. The values of
  the other registers are the subject of `Handlers`, where one thread suffices: no
  handler reads another thread's registers.
- `ThreadToBlockIndex` is an emitted variable that no step changes; here a constant.
  `ThreadToWarpGroup` is emitted in the same way and read by no step; it is left out.
- `USETMAXREG` counts are immediates, as in every kernel of the repository.
- `Slicer` identifies an instruction by its position (the source by `id(instr)`), and
  pops any element of the worklist: the source pops the last of a list built from a
  set, whose order is not fixed. Operands have one register each, which is what
  `uses_of` sees; the upper half of a 64-bit address is not read there either.
- A line of `FrontEnd` is a record that says which patterns of the cleaner and the
  parser it matches; the regular expressions and the grammar of operands are not
  spelled out. A dropped instruction still counts for the addresses of those after it.
- A register of `Handlers` is a word of `WordBits` bits, in the macros and in the
  literals 32 of the handlers alike. `exact` is the set of the registers that both
  executions must agree on. A destination leaves it when its instruction is not one of
  `Compared`, reads a register that has left it, or depends on the sign or on the upper
  bits of an operand that is outside the range of a word; it comes back with the next
  value that is none of these. `StillExact` decides this, and `Agreement` speaks of
  `exact` only.
- Operators named after a fault (`KillNothing`, `IncRegWrongSign`, `SetStateForgotten`
  ...) are not used by any specification. Each is a plausible bug, substituted for the
  operator that follows it to make sure that a property notices.

## 3. Runs

All passing runs are exhaustive within their bounds.

| Run | Instance | Shows |
|---|---|---|
| `FrontEnd` | all texts of at most 4 lines over two labels, two markers, direct and indirect branch, `EXIT`, and lines that the cleaner, the parser or both drop; 150,991 states | `FunctionsAreSections`: no instruction is lost to a neighbouring function and a second function of one name replaces the first; `BranchesFollowLabels`: a label reaches the next instruction past everything that was dropped; `FailsForDanglingLabelsOnly`: the only text that ends the tool has a direct branch to a label without an instruction |
| `CfgBuilder` | all functions of at most 3 instructions over plain, `EXIT`, `BRA`, `BRA` on an operand, `BRA.DIV`, `BRX`, guarded and not; 83,882 states | `NoFlowLost` and `NoFlowInvented`: edges are exactly the moves of the instructions; `TakenComesFirst`: the order that the code generator depends on; `BackendsAgree`: the other backend, through the adapter, yields the same blocks, edges and order |
| `Codegen` | the same lengths, whole or sliced and collapsed; 35,317 states | `OneDefinitionPerLabel`, `BlocksAreChains`, `FlowStaysInGraph`, `NoDeadLabel`: the emitted definitions walk the graph and nothing else; `EmittedWithTerminator`, `PredicatedBranchesEmitted`: nothing is lost where the slicer left the terminator |
| `Slicer` | 6 control structures (if, if/else, loop, nested loops, early exit from a loop by a guarded `RET`, jump table), each followed by the trap `.L: BRA .L` that disassembled functions end with, 3 holes, 7 fillings each, with and without `keep_control`; 142,601 states | `ReachingIsExact`, `FrontiersAreControlDependencies`, `SliceComplete`, `SliceMinimal` against definitions by paths; `WorklistCoversGaps`, `ReachingGrows`, `SliceReturns`; `LegacySliceAgrees`: the earlier slicer keeps the same instructions |
| `Handlers` | all code of at most 5 instructions, the first two of which load registers, over one instruction for each handler, on 3-bit words; 163,536 states | `Agreement`: the emitted integers and the words of the macros agree in every register that was computed by compared mnemonics from integers in range, beside registers that were not; `SliceKeepsValues`: slicing straight code for an instruction leaves it the values that its handler reads |
| `SassProcess` | 2 CTAs of 2 threads, producer/consumer kernel with two `DEALLOC`s around a jump table, a retry loop and a second `TRY_ALLOC`; 16,384 states | `PoolConservation`, `FinalStatesAgree`, `RefinesRegPool` (implements the abstract pool); under fairness, `OnlyTryAllocWaits`: every thread ends at an `EXIT` or waits at a `TRY_ALLOC` |
| `TraceViewer` | 3 warps of 2 kernels, traces of at most 2 instructions of 7 shapes (one and two destinations, guarded, load, store, comparison, no operands), lanes on or off, 3 filters; about a million states | `EntriesAreExecuted`: each instruction comes out as one entry, however entries are separated; `WrittenIsKnown`, `ShownDestinations`: destinations are followed exactly; `ReplaysTrace`: filters decide what is printed, never what is known |

The runs that end in a violation each confront one sentence of the documentation
with the code:

| Run | Property | Sentence | Code |
|---|---|---|---|
| `CodegenSliced` | `HandledInstructionsEmitted` | `README.md:100` unsupported instructions (only) are skipped | `tla_codegen.py:305` takes what the slicer left last for the terminator |
| `SassProcessGuard` | `EnoughRegistersSuffice` | `invariants.txt:9` held back unless the pool has enough | `tla_sass.py:737` compares `pool + delta` with the pool's initial size |
| `SassProcessProgress` | `UsetmaxregProgress` | `invariants.txt:8` "Every thread that incs their registers must eventually not be in that state", emitted at `sass2tla.py:128` | the same guard is harder to pass the more the others give back: after a `DEALLOC` of both threads of a CTA, both wait for 184 registers for ever with 752 in the pool, under weak fairness |
| `HandlersShift` | `Agreement` | `sass_insns.h:158` `SHF_L_U32`: the low word of the rotated pair | `tla_codegen.py:713` keeps the high word; a left shift of a word with `RZ` above it gives 0 |
| `TraceViewerSources` | `KnownIsTrue` | `trace_viewer.py:212` sources "reflect pre-execution values ... Map them by position" | `trace_viewer.py:215` and 220 drop a register each, so sources get their neighbour's value |

### Why the bounds are enough

- Three instructions hold a leader of either kind, a self-loop, a backward and a
  forward edge, a duplicate edge, and a block that the slicer empties between two
  that it does not. Edges depend on two neighbouring blocks and a target only.
- Four lines hold a marker, a label, something dropped and the instruction it names;
  or two sections of one name; or a branch across a marker. Lines interact only
  through the labels pending and the section open.
- The slicer's fixpoints need definitions that meet at a join, go round a loop or
  nested loops, and are (not) ended by a guarded write; every combination of such
  instructions fills every structure. Two registers suffice, one of them with its
  128-bit neighbours, because registers do not interact in the transfer function.
- Three more instructions behind the two that load registers let a value leave the
  range of a word, be used again, and be compared. Three bits have a sign, a carry and
  a word that is neither 0 nor the largest; the handlers are uniform in the width.
- Two instructions of a trace are enough for an entry to be flushed by each of the
  four things that flush one, for a warp to read what it or another has written, and
  for a filter to skip the one and show the other.
- Two threads of one CTA interact through one counter; the second CTA shows that
  pools do not leak. `RegPerThread = 4` in `SassProcess` keeps the pool smaller than what
  the kernel moves, so its boundary is crossed in both directions; the other two runs
  give the pool one full set of registers per thread (`--regs_per_thread` is a free
  choice).

### Deadlock and fairness

`CHECK_DEADLOCK FALSE` is given where the modelled computation ends: the front end
(with the graph of every function or a failure), the CFG builder, the code generator
and the slicer terminate, the code of `Handlers` has a bounded length, the trace
viewer stops after the last entry or at its limit, and the kernels of the three
runs of `SassProcess` contain a `TRY_ALLOC` at which all threads can wait for ever. That
nothing else stops a thread is `OnlyTryAllocWaits`; that the `TRY_ALLOC` does is the
finding of `SassProcessProgress`.

`SassProcess!FairSpec` is weak fairness of every thread, which is what `NOTES.md`
(36-51) asks of the schedule: "each thread must make progress when progress is
available". Weak fairness is enough for `OnlyTryAllocWaits`, because only the guard of a
`TRY_ALLOC` can be disabled by another thread. It is also enough for a counterexample to
`UsetmaxregProgress` to mean something: at its end no thread can take a step, so no
stronger fairness would help. The emitted module does not state it (`enableWeakFairness`
exists and is not called; the printed `Spec` is `Init` alone, `tla_module.py:868`).
`Slicer!FairSpec` is weak fairness of the single Python thread: it takes its next step
while it has one.

## 4. Proofs

Checked by TLAPS for all values of the constants. Two things shape most of them:

- Induction over the naturals is taken from the least counterexample
  (`Lemmas!LeastNat`), because the induction theorems of the library take an
  operator as a parameter, which no backend instantiates.
- A loop of the code is a recursive function in the model (`AddTargets`, `LabelToAddr`,
  `PostDoms`, `SumUpTo` ...); a loop that runs until nothing changes, one of as many rounds
  as could change something. Its equations are not its definition for the provers, which see a
  `CHOOSE`; a lemma shows that a function with these equations exists (one that is
  longer by one exists if a shorter one does), and everything else follows from the
  equations.

### Front end: `FrontEnd_proofs`, from `TextsAssumption`

The assumption says that a text is a sequence of lines of the kinds that the cleaner
tells apart, and that the record of an instruction has a place for its targets. A line
that begins with `.function` is a directive in a file that has not been cleaned
(section 5), so it is not among those kinds.

- `TypeCorrect`, `SectionsAreRead`, `LabelsAreFollowed`, `OnlyDanglingLabelsFail`: the
  four invariants of the run, for every text of every length.
- The inductive invariant says what has been handed on at each pass: the output of the
  cleaner is the list (`Lists`: in the order of the text, each line once) of the lines
  before `line` that it keeps (`CleanInv`); the statements are those that parse
  (`ParseInv`); the function being read consists of those behind the last marker, and
  each function finished so far is the program of the last section of its name
  (`BuildInv`).
- `LabelsAreFollowed` is the hard one: a label stands for an address, and an address for
  an index. It rests on `AddressesIncrease`: between two markers a disassembler counts
  addresses up, also over instructions that are dropped, so an address names one
  instruction of a function. It does not need labels to be unique in a text.

### Graph: `CfgBuilder_proofs` and `Lemmas`, from `ProgramsAssumption`

A function has at least one instruction; targets are positions of it or nowhere, and
whatever is not an indirect branch has at most one.

- `TypesAreCorrect`, `FlowIsKept`, `FlowIsNotInvented`, `TakenPathsComeFirst`: the four
  invariants of the builder itself, for every instruction sequence. `FlowIsNotInvented`
  has the hypothesis that no branch is guarded by `@PT`, without which it is false
  (section 5); the other three hold of such branches too.
- The invariant (`OnTheWay`): the blocks are those of `Partition`, and those before
  `next` have exactly the edges that their last instruction asks for (`WiredUpTo`).
- `BothBackendsAgree`: what the adapter makes of the earlier backend's graph is the
  builder's, for every instruction sequence that the earlier backend accepts
  (`Buildable`) and of which both see the same conditions (`Comparable`; section 5 has
  the differences). Leaders and starts are the same positions (`StartsAreLeaders`), so
  the blocks are the same (`LegacyBlocks`); the dictionary of edges lists the
  fall-through first and the adapter turns the pair round (`EdgesAre`, `OrderedAre`), so
  the edges are the same in the same order (`SuccessorsAre`). The order is what needs
  the hypothesis: where one side sees a condition and the other does not, one of them
  has an edge more.
- `PassesBuildCfg`: the passes, one block per step, end with the graph that the operator
  `BuildCfg` returns, so what is shown of one holds of the other.

### Slicer: `Slicer_proofs`, from `GraphsAssumption` and `KeepControlAssumption`

`IsCfg` says that the blocks of a graph partition its instructions and that edges lead to
blocks. `BuildCfgIsCfg` proves it of `BuildCfg(f)` for every instruction sequence.

- `TypeCorrect`; `ReachingMonotone`: `ReachingGrows` is not provable from the types, since
  `rd[p] := Transfer(p)` could shrink. The invariant adds
  `PostFixpoint == \A p : rd[p] \subseteq Transfer(p)`, which a visit keeps because
  `Transfer` is monotone in `rd` (`TransferMonotone`). `SliceClosed`:
  `WorklistCoversGaps`, with `NothingFollowed` for the base case.
- `ReachingDefinitionsAreExact`: `ReachInv` says that nothing is found that no path
  brings (`NoneInvented`) and that what a pass has gone over without a change is stable
  (`StableBehind`). The converse is that a stable `rd` is closed under the edges of which
  the reference takes the least closure (`ClosureLeast`: `ClosureOf` returns the least
  closed set).
- `ControlDependenciesFound`: the theory is that of the blocks that every path to an
  exit must pass (`MustPass`): they are totally ordered by each other
  (`InevitableChain`), the iteration over the reversed graph computes them
  (`FixpointIsExact`), the nearest is `Ipdom` (`IpdomIs`), and the walk of a `runner` up
  the chain (`WalkGoesOn`, `WalkMeets`) collects exactly the blocks between a branch and
  where its ways meet again. `DomInv` carries this through the phases.
- `SlicesAreComplete` and `SlicesAreMinimal`: a finished slice is the closure of the seeds
  under data and control dependency, whichever element of the worklist is popped.
  `SliceInv` adds that what is kept is needed, and that at the end nothing waits and the
  branches that control what is kept are kept.
- `SlicersAgree`: the earlier slicer keeps the same instructions. `LegacySliceAgrees` has
  as premises what the two must see alike: conditions (`Comparable`), results and operands
  (`ReadAlike`), and no kept instruction has an address that the earlier one does not read
  (`UnreadAddresses`). TLC found the last to be false of some states of the run and the
  first two true of all; section 5 says where instructions outside the run differ.
  The theorem assumes that each graph is `BuildCfg` of a program whose operands are
  listed, as the pipeline's are. Its proof follows the earlier slicer stage by stage:
  its graph is the builder's with two more blocks (`LegacyIsView`); each of its five loops
  repeats a pass that raises a bounded measure or changes nothing, so it has settled
  after as many passes as the bound (`Lemmas!Settles`), and what it settles on is the
  reference by paths: reaching definitions (`ReadDefinitionsAre`), post-dominators
  (`PostDomsAre`), the nearest of them (`IdomsAre`), the walks and frontiers (`WalkUpIs`,
  `FrontiersAre`), and the rounds (`SliceRoundsAre`). Both slices are then the least set
  with the seeds that dependencies do not lead out of (`SameSlice`). No pass of the two
  visits blocks in the same order or from the same sets, so nothing shorter relates them.
- The theorems of the last three items assume `ExitsReached`: in graphs that are sliced
  with `keep_control`, every block leads somewhere, and where a block leads to several
  others, or is an exit itself, each of these reaches an exit (`ChoicesExit`). Blocks from
  which no exit is reached may be there, if control runs on among them without a choice:
  every dump under `examples` ends with such a block, `.L_x_0: BRA .L_x_0`, which the
  cleaner keeps, and the graphs of `MCSlicer` do too. The hypothesis holds of the graphs
  of all 17 functions under `examples`. It excludes a branch into a loop that no path
  leaves, on which the walk does not end (section 5), and a block without a successor that
  is no exit, such as a `BRX` whose targets are not listed. Trapped blocks have no
  post-dominator (`NoExitNoChoice`, `DependsIsLive`) and no walk starts at them; the theory
  above is that of the others (`Live`). TLC evaluates the hypothesis for the run
  (`ExitsAssumption`). Without `keep_control` it is empty. The other four theorems do
  without it.

### Code generator: `Codegen_proofs`, from `GraphsAssumption`

Blocks are numbered from 0, edges lead to blocks, terminators are of one of the five kinds,
and a conditional block has at most two successors. `LoweredIsGraph` proves this
of every instruction sequence, whole or sliced and collapsed, so it is no assumption about
the pipeline but a consequence of the stages before.

- `TypeCorrect`, `Deterministic`, `ProgramOrder`, `AlongEdges`, `NoThreadStuck`,
  `HandledAreEmitted`, `OutcomesAreEmitted`: all seven invariants of the run, for every
  graph of every size, whatever the slicer has removed from its blocks.
- None is inductive as it stands: that two definitions test different labels
  rests on which labels are still free, and that no label is dead on what the encoder
  will do next. `IInv` says, between two blocks (`Between`), that tests only use the
  labels of encoded blocks and numbered ones below the counter, that every encoded
  block is entered at its label or has no successor, and that every label led to is a
  block's or tested. Inside a block (`Inside`) the same holds but for the one label in
  `current_state`, to which the last definition leads and which nothing tests yet.
  `Emit` shows that one instruction keeps `Inside`, `Body` carries it over any number of
  instructions, `Terminator` closes the block in each of its forms, and `Block` takes
  `Between` from one block to the next.
- The last two say that something *is* emitted, so they need the converse of the bounds
  above: what a block has emitted is never taken away (`Grown`), and each definition it
  needs is among what its own instructions added (`BodyEmits`, `TerminatorEmits`).

### Handlers: `Handlers_proofs`, from `HandlersAssumption`

A word has at least one bit, registers are numbered and none is `RZ`, only mnemonics
with a macro are compared, and an instruction has operands of the forms that its
mnemonic has in the kernels (`Operands`). An instruction whose handler goes through
`_emit_dual` has no guard (section 5).

- `HandlersTypeOK`, `EmittedAgrees`, `SliceKeepsWhatIsRead`: the three invariants of the
  run, for every width of a word, every register file and all code.
- `Agreement` speaks of remainders; what a step keeps is `Matched`: in the registers of
  `exact` each integer differs from its word by a multiple of `Word` (`StandsFor`), and
  predicates are equal. Sums and products keep this by arithmetic modulo `Word`
  (`CongruentSum`, `CongruentProduct`). What is compared, shifted to the right or chosen
  from must *be* the word, or the word read as signed, and inside its range it is
  (`InRangeIs`); the upper operand of a shift may still be off by a multiple
  (`AddedMultiple`, `ScaledHighWord`). One lemma for each kind of handler, `ValuesAreRight` for all.
- Nothing in these proofs knows the width: `PowerSum` splits a word at a shift count, and
  `ShiftedRight` shows that the rotation in the macro and the division in the handler
  give the same word.
- `EmittedAgrees` has the hypothesis that `SHF.L.U32` is not compared, whose handler
  keeps the wrong half (`HandlersShift`). What else may be compared are the mnemonics of
  `WithMacro`; `VIADD`, `VIADDMNMX`, `UP2UR`, `P2R`, `MUFU.RCP` and `SYNCS.PHASECHK` have no
  macro, and `LOP3.LUT` has one that computes something else (section 5). Code may use
  them, and the theorem is silent about the registers that depend on their results, and
  about those alone. Not in any code it speaks of are a `PLOP3` with another table than
  0x80 and a guarded handler of several destinations (`IsInstruction`).
- `SliceKeepsWhatIsRead` follows two runs of the code, one of the slice: they agree on
  every register whose value still reaches an instruction that is kept (`LiveAgree`). It
  needs that the tables and the handlers say the same: an instruction writes what
  `DefsOf` lists (`DefsAre`), and its value depends on what `UsesOf` lists and nothing
  else (`ValueDepends`), the first operand of `IMAD.HI.U32` included.

### Emitted process: `SassProcess_proofs`, from `GridAssumption` and `ProgramAssumption`

A launch has threads and counts are natural; definitions have the shape of the methods
that emit them.

- `TypeCorrect`; `Conservation`: for every kernel, also for those that `DeallocsBelowInit`
  below excludes. A step resizes one thread by `n` and its CTA's pool by `-n`
  (`StepResizes`); the sum over the threads of that CTA changes by the same `n` and no
  other sum changes (`CtaSumUpdate`, from the recursive function of `RegisterSum`).
- `PoolRefinement`, assuming `DeallocsBelowInit` (no `DEALLOC` above `InitReg`; the
  kernels of the repository use 0x18, 0x28 and 0x60, `InitReg` is 200): the process
  implements `RegPool`. The inductive invariant is
  `IInv == TypeOK /\ PoolConservation /\ WithinInit`, where `WithinInit` says that no
  thread holds more than its initial registers. `WithinInit` alone is not
  inductive: that the guard of `incReg` lets no thread grow needs conservation, which
  ties the pool counter in the guard to what the threads hold. So the refinement holds
  for a poor reason: the guard that `SassProcessGuard` and `SassProcessProgress` refute
  refuses more than the notes ask for, so that the pool is never low when a `DEALLOC`,
  which has no guard, takes registers from it.
- `FinalStates`: threads interact through the pool only, and the pool decides when a
  thread goes on, never where it goes. `OnOnePath` says that there is one run of a
  single thread on which every thread stands somewhere; a step takes its thread to the
  next point of that run, or makes the run longer by one. (It quantifies over runs, so
  TLC cannot evaluate it; it is proved.) There are two hypotheses. `LabelsAreUnique`, that
  each label has one definition, is what `Codegen_proofs!Deterministic` proves of
  everything the code generator emits. `NoJumpTableChoice`, that no `BRX` has several
  targets, is a condition on the kernel: two threads may leave a jump table by different
  cases and stop at different `EXIT`s. In the kernel of the run the cases of its jump
  table meet again, so there TLC finds the property to hold without it.

### Trace viewer: `TraceViewer_proofs`

From `TraceViewerAssumption` (there are warps, each of a kernel of the launch order) and
`InstructionsAssumption` (an instruction writes one register or two, and what it writes
are the registers that its first operand names, as the viewer expects).

- `Refinement`: `main` updates the registers of a warp in two places, for entries that are
  shown (`display_entry`) and for those that a filter skips (`update_state`). The proof
  rests on the two being equal.
- `ParsingIsFaithful`: a relation (`Leads`) says which entries come of the lines that are
  still unread, given the entries made and the one that is open. `ParseInv` says that
  they are the instructions executed; `LineIsFaithful` shows that reading a line takes
  one step along the relation, `InstructionIsFaithful` that the lines the tracer adds
  extend it by one entry.
- `WritesAreKnown`, `DestinationsAreShown`, `TypesAreCorrect`: `ViewInv`. Destinations are
  followed exactly although sources are not (`TraceViewerSources`), since the values that
  a trace prints last belong to the destinations.

### Only model-checked

Liveness under fairness (`OnlyTryAllocWaits`, `SliceReturns`), which is out of the prover's
reach. Every invariant, action property and refinement that a run checks is stated by a
theorem, under the hypotheses named above.

## 5. Differences between documents and code that have no run

The CFG and the code generator:

- A branch under `@PT` gets a fall-through edge (`cfg.py:133`), although
  `_ALWAYS_TRUE_PREDS` (`cfg.py:112`) is described as making it truly unconditional.
  `NoFlowInvented` fails on such input; `CfgBuilder.cfg` leaves the guard out.
- `BRA.DIV` has two edges (`cfg.py:136`), but without a predicate only the taken one is
  emitted (`tla_codegen.py:320`). A predicated `EXIT` has its fall-through edge alone
  (`cfg.py:529`), so it is emitted as a goto and nobody exits (`tla_codegen.py:319`).
  `PredicatedBranchesEmitted` is about branches on a register whose block has a
  successor.
- `stopInstruction` names its definition after the label count and allocates no label
  (`tla_thread.py:216`): two `EXIT` blocks in a row give two definitions of one name.
- `collapse_try_alloc_retry` takes any edge to an earlier block for the retry and drops
  every instruction behind the `TRY_ALLOC` (`cfg.py:1129`), where its docstring
  (`cfg.py:1098-1112`) speaks of the retry loop only.
- With `keep_control`, `_compute_dominance_frontiers` (`cfg.py:925`) runs for ever where
  a branch leads into a loop that no path leaves: no `runner` in it meets the condition
  that ends the walk. `MCSlicer` has no such graph, and the theorems of `Slicer_proofs`
  about control dependency exclude it (`ChoicesExit`). The trap at the end of a dump,
  which no branch leads to, does no harm.

The register pool:

- `DecGTCurr` and `IncLTCurr` (`sass2tla.py:192`, 205) are strict, the notes
  (`invariants.txt:28`) allow equality.
- `WARPSYNC` is emitted as a step that waits for nobody, so the emitted invariant that
  `setmaxnreg` is all-or-nothing in a warp group (`sass2tla.py:144`, `invariants.txt:16`)
  fails as soon as one thread of a group moves first.
- A second `USETMAXREG` without a `BAR.SYNC` between should be an error
  (`invariants.txt:5`); the flag is kept (`tla_sass.py:79`, 637) and nothing reads it.

The handlers (`tla_codegen.py`). `LOP3.LUT` is in `MCHandlers` and not compared, the
others are outside its instances:

- `LOP3.LUT` (717-737) takes its first two sources for truth values and yields the third
  source or the table itself: with the table 192 (0xc0, the bitwise and of the first two)
  and sources 1, 2 and 0 the emitted result is 0, as the macro's, but with sources 1, 3
  and 0 it is 0 where the bitwise and is 1. `sass_insns.h:135` calls `logical_op3`, whose
  body is not in the repository; `LutBit` takes it for the lookup of a table, bit by bit,
  as the name `immLut` says. `README.md:94` lists `LOP3.LUT` among the variants "modeled
  with full TLA+ semantics", and `tla_codegen.py:4` promises "exactly the instruction
  semantics defined in sass/sass_insns.h". No property compares its results.
- `_emit_dual` (522) ignores the guard: `@P0 PLOP3.LUT` always writes.
- `PLOP3` (739) computes one fixed function: for the table 0x40 the result is TRUE where
  the macro gives FALSE, and where its first sources differ it is the table itself.
- `!PT` as an operand is TRUE.
- `IADD3` (601) with two predicate destinations reads a destination as a summand.
- `ISETP.EQ` ends with an `AssertionError` (`Index.__eq__`, `tla_module.py:204`), `P2R`
  with `KeyError: 'PR'`.
- What `_append_multi_reg_instr` writes, and the base registers of memory accesses, are
  not recorded by `record_reg_access`, so `RegInRange` does not cover them.
- The second destination of an `ISETP` is no definition for the slicer.

The two backends and the two slicers agree on every program that they read alike
(`BothBackendsAgree`, `SlicersAgree`). They differ on:

- a predicated `EXIT`, which the adapter calls an `EXIT`; a sliced graph, whose blocks
  it classifies by the last instruction kept; `keep_control`, which it ignores; and the
  name `cfgs` (`sass2tla.py:77`), which `--backend gpucode` leaves undefined;
- `BRA !P2, label` without a guard, unconditional in `sass/slicer.py` and counted there
  as a write of `P2`; the address of `STG`, which it never reads; the result of
  `IMAD.HI.U32`, which `cfg.py` counts as read and `reads` (`slicer.py:949`) does not,
  although `READ_WRITE` lists it; `CALL.REL.NOINC`,
  control there and falling through in `cfg.py`; `@PT`, predicated there; a target
  outside the function, a `KeyError` there and no edge in `cfg.py`; the order of the
  edges of a guarded `BRX`. `test_slicer_comparison.py:7` says that both slicers should
  produce equivalent graphs.

The front end and the viewer:

- The docstring of the cleaner says that label-only lines and the trailing BRA trap are
  removed (`cleaner.py:11-12`); the code keeps both, and the stages behind it need the
  labels. The model follows the code.
- A cleaned file that is cleaned again loses its `.function` markers, and its functions
  become one (`cleaner.py:91`; `parser.py:2` reads cleaned output).
- A kernel that is launched twice shares the state of its registers with its first
  launch (`trace_viewer.py:300`).

## 6. Not modelled

- The grammar of operands (`sass/parser.py` 1-556): it decides how an operand is read,
  not what happens; a line is a record of the patterns it matches.
- The text of the printed module (`tla_module.py`): layout and order of declarations.
  What a literal, a shift, `Min` and `Max` mean is part of `Handlers`.
- Loads of 64-bit constants, addresses in memory and floating point among the handlers:
  the memory of the emitted process is arbitrary, so no property tells them apart.
- The resolution of `RET` through chains of `MOV` in `sass/slicer.py`.
- The conversion of operands and the rewriting of files by `gpucode_adapter.py`: they
  serve a package that is not in the repository.
- Uniform registers, predicates and printing of the trace viewer; the state of the
  general registers is modelled, the others are handled alike.
- Traversals and dumps of the graph (`cfg.py` 295-325, 1182-1377) and argument parsing
  (`sass2tla.py`): they change no state that another component reads.
- Tests and examples: read for what the code is meant to do.

## 7. Plan

Sections 2 to 4 are done. What would come next:

1. **Kernel machine.** An abstract specification of one kernel at the level of
   instructions, and the emitted process as its refinement (labels mapped to positions):
   `Codegen_proofs` gives the static half of it.
2. **Retry collapsing.** A comparison of the register instructions on all paths before
   and after `collapse_try_alloc_retry`, for graphs on which its docstring holds.
3. **Earlier slicer.** Its resolution of `RET`.
4. **Proofs.** The invariant of the kernel machine of item 1, from `Codegen_proofs`.
