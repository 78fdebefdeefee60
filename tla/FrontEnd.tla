------------------------------- MODULE FrontEnd -------------------------------
(***************************************************************************)
(* From the text of a disassembly to the instruction sequences of its      *)
(* functions: clean drops the lines that are neither labels, function      *)
(* markers nor instructions, _parse_line turns the rest into statements,   *)
(* build_cfgs collects the statements of each function, and pass 1 of      *)
(* _build_cfg_for_stmts replaces labels by instructions.  One line or      *)
(* statement is handled per step.                                          *)
(*                                                                         *)
(* A line is a record; `kind` says which patterns it matches:              *)
(*   "label"     .L_x_0:                                                   *)
(*   "marker"    Function : k, .text.k: or kernel_k:                       *)
(*   "function"  .function k, the form in which clean writes a marker      *)
(*   "insn"      an instruction                                            *)
(*   "unmatched" one that the pattern of the cleaner does not match        *)
(*   "unparsed"  one that the grammar of the parser does not accept        *)
(*   "other"     a directive, a comment or an empty line                   *)
(* with the `name` of a label or function, and for an instruction `insn`   *)
(* (as in SassInstr, without targets) and the labels its operands name.    *)
(***************************************************************************)
EXTENDS SassCfg

CONSTANT Texts   \* the disassemblies to read

LineKind == {"label", "marker", "function", "insn", "unmatched", "unparsed", "other"}

\* A text is a sequence of lines.  One that starts with .function in the file is a
\* directive for clean.
IsText(t) ==
    /\ t \in Seq(ToSet(t))
    /\ \A n \in DOMAIN t : /\ t[n].kind \in LineKind \ {"function"}
                          /\ "targets" \in DOMAIN t[n].insn

ASSUME TextsAssumption == \A t \in Texts : IsText(t)

-----------------------------------------------------------------------------
VARIABLES
    text,           \* the lines of the file, fixed by Init
    phase,          \* "clean", "parse", "build", "done" or "failed"
    line,           \* the line or statement that is read next
    out,            \* the lines that clean keeps
    statements,     \* program.statements
    current_func,   \* the function that statements now belong to
    current_stmts,
    functions       \* the instructions of each function

vars == <<text, phase, line, out, statements, current_func, current_stmts, functions>>

\* A disassembler counts addresses from 0 in each function, whether or not the
\* front end reads the instruction.
Address(t, n) ==
    Cardinality({m \in 1 .. n - 1 :
        /\ t[m].kind \in {"insn", "unmatched", "unparsed"}
        /\ \A k \in m .. n : t[k].kind # "marker"})

-----------------------------------------------------------------------------
(* The cleaner and the parser, one line.                                   *)

\* What later passes read of a line.
Kept(t, n) ==
    [kind    |-> IF t[n].kind = "marker" THEN "function" ELSE t[n].kind,
     name    |-> t[n].name,
     insn    |-> t[n].insn,
     labels  |-> t[n].labels,
     address |-> Address(t, n),
     at      |-> n]

\* Labels are looked for first, as every line that starts with a dot is skipped;
\* so is the form that clean gives a marker.
Cleaned(t, n) ==
    IF t[n].kind \in {"label", "marker", "insn", "unparsed"} THEN <<Kept(t, n)>> ELSE <<>>

\* Operators named after a fault are variants of the one that follows them; no
\* specification uses them.
ParsedLineUnchecked(l) == <<l>>

ParsedLine(l) == IF l.kind = "unparsed" THEN <<>> ELSE <<l>>

CleanLine ==
    /\ phase = "clean"
    /\ line \in DOMAIN text
    /\ out' = out \o Cleaned(text, line)
    /\ line' = line + 1
    /\ UNCHANGED <<text, phase, statements, current_func, current_stmts, functions>>

CleanDone ==
    /\ phase = "clean" /\ line \notin DOMAIN text
    /\ phase' = "parse" /\ line' = 1
    /\ UNCHANGED <<text, out, statements, current_func, current_stmts, functions>>

ParseLine ==
    /\ phase = "parse"
    /\ line \in DOMAIN out
    /\ statements' = statements \o ParsedLine(out[line])
    /\ line' = line + 1
    /\ UNCHANGED <<text, phase, out, current_func, current_stmts, functions>>

ParseDone ==
    /\ phase = "parse" /\ line \notin DOMAIN out
    /\ phase' = "build" /\ line' = 1
    /\ UNCHANGED <<text, out, statements, current_func, current_stmts, functions>>

-----------------------------------------------------------------------------
(* Pass 1: labels name the address of the next instruction, an address the *)
(* last instruction that has it.                                           *)

InstructionsOf(stmts) ==
    Selected(stmts, {n \in DOMAIN stmts : stmts[n].kind = "insn"})

\* A dictionary with the keys of `new` set.
Updated(dict, new) ==
    [x \in DOMAIN dict \cup DOMAIN new |-> IF x \in DOMAIN new THEN new[x] ELSE dict[x]]

NoLabels == [label_to_addr |-> <<>>, pending |-> {}]

\* Labels that stay pending behind their instruction.
LinearisePendingKept(map, s) ==
    IF s.kind = "label" THEN [map EXCEPT !.pending = @ \cup {s.name}]
    ELSE [map EXCEPT !.label_to_addr = Updated(@, [l \in map.pending |-> s.address])]

Linearise(map, s) ==
    IF s.kind = "label" THEN [map EXCEPT !.pending = @ \cup {s.name}]
    ELSE [label_to_addr |-> Updated(map.label_to_addr, [l \in map.pending |-> s.address]),
          pending |-> {}]

LabelToAddr(stmts) ==
    LET map[n \in 0 .. Len(stmts)] ==
            IF n = 0 THEN NoLabels ELSE Linearise(map[n - 1], stmts[n])
    IN  map[Len(stmts)].label_to_addr

AddrToIdx(instrs, address) ==
    SelectLastInSeq(instrs, LAMBDA s : s.address = address)

TargetIndex(instrs, labels, l) ==
    IF l \in DOMAIN labels THEN AddrToIdx(instrs, labels[l]) ELSE Nowhere

ProgramOf(stmts) ==
    LET instrs == InstructionsOf(stmts)
        labels == LabelToAddr(stmts)
    IN  [n \in DOMAIN instrs |->
            [insn |-> [instrs[n].insn EXCEPT !.targets =
                          [k \in DOMAIN instrs[n].labels |->
                              TargetIndex(instrs, labels, instrs[n].labels[k])]],
             at   |-> instrs[n].at]]

\* Indirect branches not told apart.
LabelsMissingAnywhere(stmts) ==
    \E n \in DOMAIN stmts :
        /\ stmts[n].kind = "insn"
        /\ \E k \in DOMAIN stmts[n].labels : stmts[n].labels[k] \notin DOMAIN LabelToAddr(stmts)

\* _resolve_target looks the label of a direct branch up without asking whether
\* it is there; the targets of an indirect one are asked for.
LabelsMissing(stmts) ==
    \E n \in DOMAIN stmts :
        /\ stmts[n].kind = "insn"
        /\ IsBranch(stmts[n].insn) /\ ~ IsIndirect(stmts[n].insn)
        /\ \E k \in DOMAIN stmts[n].labels : stmts[n].labels[k] \notin DOMAIN LabelToAddr(stmts)

-----------------------------------------------------------------------------
(* build_cfgs                                                              *)

\* The function read so far replaces an earlier one of its name; nothing is kept
\* for a marker that no statement follows.
Flush ==
    IF current_stmts = <<>> THEN functions
    ELSE Updated(functions, [f \in {current_func} |-> ProgramOf(current_stmts)])

BuildStatement ==
    /\ phase = "build"
    /\ line \in DOMAIN statements
    /\ statements[line].kind # "function"
    /\ current_stmts' = Append(current_stmts, statements[line])
    /\ line' = line + 1
    /\ UNCHANGED <<text, phase, out, statements, current_func, functions>>

\* The statements of the function before it still count for the next.
BuildMarkerLate ==
    /\ phase = "build"
    /\ line \in DOMAIN statements
    /\ statements[line].kind = "function"
    /\ ~ LabelsMissing(current_stmts)
    /\ functions' = Flush
    /\ current_func' = statements[line].name
    /\ line' = line + 1
    /\ UNCHANGED <<text, phase, out, statements, current_stmts>>

BuildMarker ==
    /\ phase = "build"
    /\ line \in DOMAIN statements
    /\ statements[line].kind = "function"
    /\ ~ LabelsMissing(current_stmts)
    /\ functions' = Flush
    /\ current_func' = statements[line].name
    /\ current_stmts' = <<>>
    /\ line' = line + 1
    /\ UNCHANGED <<text, phase, out, statements>>

BuildDone ==
    /\ phase = "build" /\ line \notin DOMAIN statements
    /\ ~ LabelsMissing(current_stmts)
    /\ functions' = Flush
    /\ phase' = "done"
    /\ UNCHANGED <<text, line, out, statements, current_func, current_stmts>>

\* A KeyError ends the tool.
BuildFails ==
    /\ phase = "build"
    /\ line \in DOMAIN statements => statements[line].kind = "function"
    /\ LabelsMissing(current_stmts)
    /\ phase' = "failed"
    /\ UNCHANGED <<text, line, out, statements, current_func, current_stmts, functions>>

-----------------------------------------------------------------------------
Init ==
    /\ text \in Texts
    /\ phase = "clean"
    /\ line = 1
    /\ out = <<>>
    /\ statements = <<>>
    /\ current_func = "unknown_kernel"
    /\ current_stmts = <<>>
    /\ functions = <<>>

Next ==
    \/ CleanLine \/ CleanDone
    \/ ParseLine \/ ParseDone
    \/ BuildStatement \/ BuildMarker \/ BuildDone \/ BuildFails

Spec == Init /\ [][Next]_vars

-----------------------------------------------------------------------------
(* The functions of a text, read from its lines alone.                     *)

SectionStarts == {0} \cup {n \in DOMAIN text : text[n].kind = "marker"}

SectionName(s) == IF s = 0 THEN "unknown_kernel" ELSE text[s].name

\* The lines from a marker to the next.
SectionLines(s) ==
    {n \in DOMAIN text : s < n /\ \A m \in s + 1 .. n : m \notin SectionStarts}

IsStatement(n) == text[n].kind \in {"label", "insn"}

Sections == {s \in SectionStarts : \E n \in SectionLines(s) : IsStatement(n)}

\* The section that the name stands for in the end.
SectionOf(f) ==
    CHOOSE s \in Sections : /\ SectionName(s) = f
                            /\ \A r \in Sections : SectionName(r) = f => r <= s

InsnLines(s) == {n \in SectionLines(s) : text[n].kind = "insn"}

\* The instructions that a label of the section may stand in front of: the next
\* one that is read.
Labelled(s, l) ==
    {n \in InsnLines(s) :
        \E m \in SectionLines(s) :
            /\ m < n /\ text[m].kind = "label" /\ text[m].name = l
            /\ \A k \in m .. n - 1 : k \notin InsnLines(s)}

Dangling(s) ==
    \E n \in InsnLines(s) :
        /\ IsBranch(text[n].insn) /\ ~ IsIndirect(text[n].insn)
        /\ \E k \in DOMAIN text[n].labels : Labelled(s, text[n].labels[k]) = {}

\* Every variable keeps its type, and what a pass reads next is at most one past
\* its input.
TypeOK ==
    /\ text \in Texts
    /\ phase \in {"clean", "parse", "build", "done", "failed"}
    /\ line \in 1 .. Len(text) + 1
    /\ \A n \in DOMAIN out : out[n].kind \in LineKind \ {"marker", "unmatched", "other"}
    /\ \A n \in DOMAIN statements : statements[n].kind \in {"label", "function", "insn"}
    /\ \A n \in DOMAIN current_stmts : current_stmts[n].kind \in {"label", "insn"}
    /\ \A f \in DOMAIN functions : \A n \in DOMAIN functions[f] :
          ToSet(functions[f][n].insn.targets) \subseteq 0 .. Len(functions[f])

\* A function is what stands behind its marker and in front of the next, and
\* nothing else: each has the instructions of the last section of its name that
\* holds any statement, in the order of the text.
FunctionsAreSections ==
    phase = "done" =>
        /\ DOMAIN functions = {SectionName(s) : s \in Sections}
        /\ \A f \in DOMAIN functions :
              /\ {functions[f][n].at : n \in DOMAIN functions[f]} = InsnLines(SectionOf(f))
              /\ \A m, n \in DOMAIN functions[f] :
                    m < n => functions[f][m].at < functions[f][n].at

\* A branch goes to an instruction that its label stands in front of in its own
\* function, past lines that were dropped, and through the addresses that stand
\* for labels in between.
BranchesFollowLabels ==
    phase = "done" =>
        \A f \in DOMAIN functions : \A n \in DOMAIN functions[f] :
            LET i == functions[f][n]
                labels == text[i.at].labels
                targets == i.insn.targets
            IN  \A k \in DOMAIN labels :
                   IF Labelled(SectionOf(f), labels[k]) = {} THEN targets[k] = Nowhere
                   ELSE /\ targets[k] \in DOMAIN functions[f]
                        /\ functions[f][targets[k]].at \in Labelled(SectionOf(f), labels[k])

\* The tool gives up on a text for one reason: a function has a direct branch to
\* a label that no instruction of the function follows.  Where every label has
\* one it does not.
FailsForDanglingLabelsOnly ==
    phase \in {"failed", "done"} =>
        (phase = "failed" <=> \E s \in Sections : Dangling(s))
=============================================================================
