----------------------------- MODULE TraceViewer -----------------------------
(***************************************************************************)
(* trace_viewer.py: reads the register trace of a program and shows, for   *)
(* one thread, the registers of each instruction before and after it.      *)
(*                                                                         *)
(* In phase "run" the traced program runs and the tracer writes a line at  *)
(* a time, as in docs/traces.txt (the tracer is not part of the            *)
(* repository).  In phase "parse" parse_trace turns the lines into         *)
(* entries, in phase "view" main goes through the entries, showing those   *)
(* that the user asked for and following the others silently.              *)
(*                                                                         *)
(* A trace gives an instruction Reg0, Reg1, ...: first its destination (as *)
(* many as its width), then its other registers in order, addresses left   *)
(* out, all of them as they are after the instruction.                     *)
(***************************************************************************)
EXTENDS Integers, Sequences, FiniteSets, SequencesExt, TLC

CONSTANTS
    Warps,         \* records [kernel, warp]; the CTA is part of the warp
    Kernels,       \* kernels in the order in which they are launched
    Instructions,  \* what a warp may execute
    Registers,     \* register numbers of the thread that is shown
    Values,        \* what a register may hold
    Unknown,       \* a register the viewer knows nothing of
    Filters,       \* the entries to show: records [mnemonics, kernels, limit]
    TraceLength    \* bound: entries of a trace

ASSUME TraceViewerAssumption ==
    /\ Warps # {} /\ TraceLength \in Nat /\ Kernels \in Seq(Range(Kernels))
    /\ \A w \in Warps : w = [kernel |-> w.kernel, warp |-> w.warp] /\ w.kernel \in Range(Kernels)
    /\ Unknown \notin Values

(***************************************************************************)
(* An instruction is a record                                              *)
(*   op        the mnemonic;                                               *)
(*   guarded   whether it has a predicate in front;                        *)
(*   writes    whether its stem is one that writes a register: FALSE for   *)
(*             those in _NO_GPR_DST and _UREG_DST;                         *)
(*   width     registers of the destination, 1 or 2;                       *)
(*   operands  for each operand, its register numbers and whether it is an *)
(*             address.                                                    *)
(***************************************************************************)
Op(refs)   == [refs |-> refs, address |-> FALSE]
Address(r) == [refs |-> <<r>>, address |-> TRUE]

Refs(operands) == FlattenSeq([k \in DOMAIN operands |-> operands[k].refs])

\* Those that the tracer lists.
ListedRefs(operands) ==
    FlattenSeq([k \in DOMAIN operands |->
                   IF operands[k].address THEN <<>> ELSE operands[k].refs])

Destinations(i) ==
    IF i.writes /\ Refs(i.operands) # <<>>
    THEN {Refs(i.operands)[1] + n : n \in 0 .. i.width - 1} ELSE {}

\* What an instruction writes is a value, not an address.
ASSUME InstructionsAssumption ==
    /\ Registers \subseteq Int
    /\ \A i \in Instructions :
          /\ i.width \in {1, 2}
          /\ i.operands \in Seq([refs : Seq(Registers), address : BOOLEAN])
          /\ Destinations(i) \subseteq Registers
          /\ Destinations(i) # {} =>
                 /\ ListedRefs(i.operands) # <<>>
                 /\ ListedRefs(i.operands)[1] = Refs(i.operands)[1]

-----------------------------------------------------------------------------
VARIABLES
    phase,      \* "run", "parse" or "view"
    filter,     \* the arguments, fixed by Init
    machine,    \* registers of each warp, as they are
    launched,   \* kernels launched
    trace,      \* lines written and not read yet
    executed,   \* what was really executed, with the registers before and after
    current,    \* the entry being put together, <<>> if there is none
    kernel,     \* current_kernel
    entries,    \* entries read
    count,      \* entries gone through
    known,      \* gpr_states: what the viewer believes of each register
    shown       \* what was shown: the entry's place and the values printed

running == <<machine, launched, executed>>
parsing == <<current, kernel, entries>>
viewing == <<count, known, shown>>
vars == <<phase, filter, trace, running, parsing, viewing>>

-----------------------------------------------------------------------------
(* The traced program and the tracer.                                      *)

\* Registers listed in an entry: destinations, then the others.
Listed(i) ==
    LET refs == ListedRefs(i.operands)
    IN IF ~ i.writes \/ refs = <<>> THEN refs
       ELSE [n \in 1 .. i.width |-> refs[1] + n - 1] \o Tail(refs)

\* Numbered from 0, as in the trace; a lane that is switched off is left out.
RegLines(i, regs, active) ==
    [n \in DOMAIN Listed(i) |->
        [line |-> "reg", index |-> n - 1,
         value |-> IF active THEN {regs[Listed(i)[n]]} ELSE {}]]

EntryLines(w, i, regs, active) ==
    <<[line |-> "header", warp |-> w.warp, instr |-> i]>>
        \o (IF i.width = 1 THEN <<>> ELSE <<[line |-> "width", width |-> i.width]>>)
        \o RegLines(i, regs, active)

KernelOf(n) == Kernels[n]

\* f, and g where f gives nothing.
Over(f, g) ==
    [x \in DOMAIN f \cup DOMAIN g |-> IF x \in DOMAIN f THEN f[x] ELSE g[x]]

Launch ==
    /\ phase = "run" /\ launched < Len(Kernels)
    /\ launched' = launched + 1
    /\ trace' = Append(trace, [line |-> "kernel", name |-> KernelOf(launched + 1)])
    /\ UNCHANGED <<phase, filter, machine, executed, parsing, viewing>>

\* The instruction of a lane that is switched off changes no register of it.
RunInstr(w, i) ==
    /\ phase = "run" /\ Len(executed) < TraceLength
    /\ launched > 0 /\ KernelOf(launched) = w.kernel
    /\ \E active \in BOOLEAN, blank \in BOOLEAN, new \in [Destinations(i) -> Values] :
          LET after == IF active THEN Over(new, machine[w]) ELSE machine[w]
          IN /\ machine' = [machine EXCEPT ![w] = after]
             /\ executed' = Append(executed,
                   [warp |-> w, instr |-> i, active |-> active,
                    before |-> machine[w], after |-> after])
             /\ trace' = trace \o EntryLines(w, i, after, active)
                               \o (IF blank THEN <<[line |-> "blank"]>> ELSE <<>>)
    /\ UNCHANGED <<phase, filter, launched, parsing, viewing>>

FinishRun ==
    /\ phase = "run"
    /\ phase' = "parse"
    /\ UNCHANGED <<filter, trace, running, parsing, viewing>>

-----------------------------------------------------------------------------
(* parse_trace, one line per step.  Whatever is being put together is      *)
(* flushed by a blank line, a kernel line, a header and the end.           *)

Reading(kind) == phase = "parse" /\ trace # <<>> /\ Head(trace).line = kind

\* Operators named after a fault are variants of the one that follows them; no
\* specification uses them.
\* Nothing is ever handed over but by the end of the file.
FlushAtEnd == entries' = IF trace = <<>> THEN entries \o current ELSE entries

Flush == entries' = entries \o current

\* The entry before stays open.
OpenedBeside(e) == current \o <<e>>

Opened(e) == <<e>>

ReadBlank ==
    /\ Reading("blank")
    /\ Flush /\ current' = <<>> /\ trace' = Tail(trace)
    /\ UNCHANGED <<phase, filter, running, kernel, viewing>>

ReadKernel ==
    /\ Reading("kernel")
    /\ Flush /\ current' = <<>> /\ trace' = Tail(trace)
    /\ kernel' = Head(trace).name
    /\ UNCHANGED <<phase, filter, running, viewing>>

ReadHeader ==
    /\ Reading("header")
    /\ Flush /\ trace' = Tail(trace)
    /\ current' = Opened([warp |-> [kernel |-> kernel, warp |-> Head(trace).warp],
                          instr |-> Head(trace).instr, width |-> 1, regs |-> <<>>])
    /\ UNCHANGED <<phase, filter, running, kernel, viewing>>

ReadWidth ==
    /\ Reading("width")
    /\ current' = IF current = <<>> THEN <<>>
                  ELSE <<[current[1] EXCEPT !.width = Head(trace).width]>>
    /\ trace' = Tail(trace)
    /\ UNCHANGED <<phase, filter, running, kernel, entries, viewing>>

ReadReg ==
    /\ Reading("reg")
    /\ current' = IF current = <<>> THEN <<>>
                  ELSE <<[current[1] EXCEPT
                            !.regs = Over([n \in {Head(trace).index} |-> Head(trace).value], @)]>>
    /\ trace' = Tail(trace)
    /\ UNCHANGED <<phase, filter, running, kernel, entries, viewing>>

EndOfFile ==
    /\ phase = "parse" /\ trace = <<>>
    /\ Flush /\ current' = <<>>
    /\ phase' = "view"
    /\ UNCHANGED <<filter, trace, running, kernel, viewing>>

-----------------------------------------------------------------------------
(* What the viewer makes of an entry.                                      *)

\* The second register of a wide destination forgotten.
DstGprsNarrow(e) ==
    IF e.instr.writes /\ Refs(e.instr.operands) # <<>>
    THEN <<Refs(e.instr.operands)[1]>> ELSE <<>>

\* analyze_regs
DstGprs(e) ==
    IF e.instr.writes /\ Refs(e.instr.operands) # <<>>
    THEN [n \in 1 .. IF e.width >= 2 THEN 2 ELSE 1 |-> Refs(e.instr.operands)[1] + n - 1]
    ELSE <<>>

SrcGprs(e) == Range(Refs(e.instr.operands)) \ Range(DstGprs(e))

\* The text is split twice at a blank and the last part searched: that drops
\* the mnemonic and the first operand, or the guard and the mnemonic.
SrcOrdered(e) ==
    LET i    == e.instr
        refs == Refs(IF i.guarded \/ Len(i.operands) <= 1 THEN i.operands
                     ELSE Tail(i.operands))
    IN IF i.writes /\ refs # <<>> THEN Tail(refs) ELSE refs

RegIndex(e, n) == IF e.instr.writes THEN e.width + n - 1 ELSE n - 1

\* Destinations counted from one.
DstIndexFromOne(n) == n

DstIndex(n) == n - 1

HasValue(e, index) == index \in DOMAIN e.regs /\ e.regs[index] # {}
ValueAt(e, index)  == CHOOSE v \in e.regs[index] : TRUE

\* Places in SrcOrdered that give register r a value.
SourcePlaces(e, r) ==
    {n \in DOMAIN SrcOrdered(e) :
        /\ SrcOrdered(e)[n] = r /\ r \notin Range(DstGprs(e))
        /\ HasValue(e, RegIndex(e, n))}

DestinationPlaces(e, r) ==
    {n \in DOMAIN DstGprs(e) : DstGprs(e)[n] = r /\ HasValue(e, DstIndex(n))}

AfterSources(e, k) ==
    [r \in Registers |->
        IF SourcePlaces(e, r) = {} THEN k[r]
        ELSE ValueAt(e, RegIndex(e, Max(SourcePlaces(e, r))))]

AfterDestinations(e, k) ==
    [r \in Registers |->
        IF DestinationPlaces(e, r) = {} THEN k[r]
        ELSE ValueAt(e, DstIndex(Max(DestinationPlaces(e, r))))]

\* Entries that are not shown leave the sources alone.
UpdateStateDst(e, k) == AfterDestinations(e, k)

UpdateState(e, k) == AfterDestinations(e, AfterSources(e, k))

\* display_entry keeps the state in the same way.
DisplayState(e, k) == AfterDestinations(e, AfterSources(e, k))

Before(e, k) ==
    [r \in Range(DstGprs(e)) \cup SrcGprs(e) |->
        IF k[r] = Unknown /\ SourcePlaces(e, r) # {}
        THEN ValueAt(e, RegIndex(e, Min(SourcePlaces(e, r)))) ELSE k[r]]

Wanted(e) == e.instr.op \in filter.mnemonics /\ e.warp.kernel \in filter.kernels

Stopped == filter.limit > 0 /\ Len(shown) >= filter.limit

DisplayEntry ==
    /\ phase = "view" /\ count + 1 \in DOMAIN entries /\ ~ Stopped
    /\ LET e == entries[count + 1]
           k == known[e.warp]
       IN /\ Wanted(e)
          /\ known' = [known EXCEPT ![e.warp] = DisplayState(e, k)]
          /\ shown' = Append(shown,
                [at |-> count + 1, before |-> Before(e, k),
                 after |-> [r \in DOMAIN Before(e, k) |-> DisplayState(e, k)[r]]])
    /\ count' = count + 1
    /\ UNCHANGED <<phase, filter, trace, running, parsing>>

UpdateEntry ==
    /\ phase = "view" /\ count + 1 \in DOMAIN entries /\ ~ Stopped
    /\ LET e == entries[count + 1]
       IN /\ ~ Wanted(e)
          /\ known' = [known EXCEPT ![e.warp] = UpdateState(e, known[e.warp])]
    /\ count' = count + 1
    /\ UNCHANGED <<phase, filter, trace, running, parsing, shown>>

-----------------------------------------------------------------------------
Init ==
    /\ phase = "run" /\ filter \in Filters
    /\ machine \in {[w \in Warps |-> [r \in Registers |-> v]] : v \in Values}
    /\ launched = 0 /\ trace = <<>> /\ executed = <<>>
    /\ current = <<>> /\ kernel = "" /\ entries = <<>>
    /\ count = 0 /\ known = [w \in Warps |-> [r \in Registers |-> Unknown]] /\ shown = <<>>

Next ==
    \/ Launch \/ FinishRun
    \/ \E w \in Warps, i \in Instructions : RunInstr(w, i)
    \/ ReadBlank \/ ReadKernel \/ ReadHeader \/ ReadWidth \/ ReadReg \/ EndOfFile
    \/ DisplayEntry \/ UpdateEntry

Spec == Init /\ [][Next]_vars

-----------------------------------------------------------------------------
TypeOK ==
    /\ phase \in {"run", "parse", "view"} /\ filter \in Filters
    /\ machine \in [Warps -> [Registers -> Values]]
    /\ launched \in 0 .. Len(Kernels)
    /\ count \in 0 .. Len(entries)
    /\ Len(current) <= 1
    /\ \A w \in Warps, r \in Registers : known[w][r] \in Values \cup {Unknown}
    /\ \A n \in DOMAIN shown : shown[n].at \in 1 .. count

\* Every instruction of the trace comes out as one entry of its own kernel and
\* warp with exactly the values that its lines give, whether the entries are
\* separated by blank lines, kernel lines or nothing.
EntriesAreExecuted ==
    phase = "view" =>
        /\ Len(entries) = Len(executed)
        /\ \A n \in DOMAIN entries :
              LET e == entries[n]
                  x == executed[n]
              IN /\ e.warp = x.warp /\ e.instr = x.instr /\ e.width = x.instr.width
                 /\ DOMAIN e.regs = 0 .. Len(Listed(x.instr)) - 1
                 /\ \A k \in DOMAIN e.regs :
                       e.regs[k] = IF x.active THEN {x.after[Listed(x.instr)[k + 1]]}
                                   ELSE {}

\* The place of the last instruction read that wrote r, 0 if there is none.
LastWrite(w, r) ==
    Max({0} \cup {n \in 1 .. count : /\ executed[n].warp = w /\ executed[n].active
                                     /\ r \in Destinations(executed[n].instr)})

\* What the viewer believes of a register that an instruction has written is
\* what that instruction left there, until another instruction names it.
WrittenIsKnown ==
    \A w \in Warps, r \in Registers :
        LET n == LastWrite(w, r)
        IN n > 0 /\ (\A m \in n + 1 .. count :
                        executed[m].warp = w =>
                            r \notin Range(Refs(executed[m].instr.operands)))
             => known[w][r] = executed[n].after[r]

\* The value shown for a destination after an instruction is the one that the
\* instruction wrote.
ShownDestinations ==
    \A n \in DOMAIN shown :
        LET x == executed[shown[n].at]
        IN x.active => \A r \in Destinations(x.instr) : shown[n].after[r] = x.after[r]

\* The comment above the code of the sources: source registers of the trace
\* hold the values from before the instruction, to be mapped by position.
\* What the viewer knows of a register is what the register holds.
KnownIsTrue ==
    phase = "view" =>
        \A n \in DOMAIN shown :
            LET x == executed[shown[n].at]
            IN \A r \in DOMAIN shown[n].after :
                  shown[n].after[r] \in {Unknown, x.after[r]}

-----------------------------------------------------------------------------
(* The viewer replays the trace, whatever it is asked to show.             *)

EntryValues(e) ==
    [r \in {q \in Registers : SourcePlaces(e, q) # {} \/ DestinationPlaces(e, q) # {}} |->
        IF DestinationPlaces(e, r) # {}
        THEN ValueAt(e, DstIndex(Max(DestinationPlaces(e, r))))
        ELSE ValueAt(e, RegIndex(e, Max(SourcePlaces(e, r))))]

Given == [n \in DOMAIN entries |->
             [warp |-> entries[n].warp, gives |-> EntryValues(entries[n])]]

Replay == INSTANCE TraceReplay WITH entries <- Given

\* Filters and limits decide what is printed, never what is known afterwards.
ReplaysTrace == Replay!Spec
=============================================================================
