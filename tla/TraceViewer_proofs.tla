-------------------------- MODULE TraceViewer_proofs --------------------------
(***************************************************************************)
(* The viewer replays the trace: for every trace, every filter and every   *)
(* limit, what it knows of the registers of a warp is what the entries     *)
(* read so far give, shown or not.  display_entry and update_state are two *)
(* copies of one computation; the proof rests on their being equal.        *)
(***************************************************************************)
EXTENDS TraceViewer, Lemmas

\* Nothing is known before the file has been read to its end.
CountStartsLate == phase # "view" => count = 0

\* Following an entry, the sources first and the destinations after them, gives
\* its warp the values that the entry holds.
LEMMA FollowingLearns ==
    ASSUME NEW e, NEW k
    PROVE  /\ UpdateState(e, k) =
                Replay!Learn([warp |-> e.warp, gives |-> EntryValues(e)], k)
           /\ DisplayState(e, k) =
                Replay!Learn([warp |-> e.warp, gives |-> EntryValues(e)], k)
<1> DEFINE g == EntryValues(e)
           learned == Replay!Learn([warp |-> e.warp, gives |-> g], k)
           s == AfterSources(e, k)
           d == AfterDestinations(e, s)
<1>1. d = [r \in Registers |->
              IF DestinationPlaces(e, r) # {}
              THEN ValueAt(e, DstIndex(Max(DestinationPlaces(e, r))))
              ELSE IF SourcePlaces(e, r) # {}
                   THEN ValueAt(e, RegIndex(e, Max(SourcePlaces(e, r))))
                   ELSE k[r]]
  BY DEF AfterDestinations, AfterSources
<1>2. learned = [r \in Registers |-> IF r \in DOMAIN g THEN g[r] ELSE k[r]]
  BY DEF Replay!Learn
<1>3. ASSUME NEW r \in Registers
      PROVE  (IF r \in DOMAIN g THEN g[r] ELSE k[r]) =
              IF DestinationPlaces(e, r) # {}
              THEN ValueAt(e, DstIndex(Max(DestinationPlaces(e, r))))
              ELSE IF SourcePlaces(e, r) # {}
                   THEN ValueAt(e, RegIndex(e, Max(SourcePlaces(e, r))))
                   ELSE k[r]
  BY DEF EntryValues
<1>4. learned = d
  BY <1>1, <1>2, <1>3
<1> QED
  BY <1>4 DEF UpdateState, DisplayState

LEMMA CountInvariant == Spec => []CountStartsLate
<1>1. Init => CountStartsLate
  BY DEF Init, CountStartsLate
<1>2. CountStartsLate /\ [Next]_vars => CountStartsLate'
  <2> SUFFICES ASSUME CountStartsLate, [Next]_vars
               PROVE  CountStartsLate'
    OBVIOUS
  <2> USE DEF CountStartsLate, viewing
  <2>1. CASE Launch             BY <2>1 DEF Launch
  <2>2. CASE FinishRun          BY <2>2 DEF FinishRun
  <2>3. CASE \E w \in Warps, i \in Instructions : RunInstr(w, i)
    BY <2>3 DEF RunInstr
  <2>4. CASE ReadBlank          BY <2>4 DEF ReadBlank
  <2>5. CASE ReadKernel         BY <2>5 DEF ReadKernel
  <2>6. CASE ReadHeader         BY <2>6 DEF ReadHeader
  <2>7. CASE ReadWidth          BY <2>7 DEF ReadWidth
  <2>8. CASE ReadReg            BY <2>8 DEF ReadReg
  <2>9. CASE EndOfFile          BY <2>9 DEF EndOfFile
  <2>10. CASE DisplayEntry      BY <2>10 DEF DisplayEntry
  <2>11. CASE UpdateEntry       BY <2>11 DEF UpdateEntry
  <2>12. CASE UNCHANGED vars    BY <2>12 DEF vars
  <2> QED
    BY <2>1, <2>2, <2>3, <2>4, <2>5, <2>6, <2>7, <2>8, <2>9, <2>10, <2>11, <2>12
       DEF Next
<1> QED
  BY <1>1, <1>2, PTL DEF Spec

\* The property of the run, for every trace, filter and limit.
THEOREM Refinement == Spec => ReplaysTrace
<1>1. Init => Replay!Init
  BY DEF Init, Replay!Init
<1>2. CountStartsLate /\ [Next]_vars => [Replay!Next]_<<Given, count, known>>
  <2> SUFFICES ASSUME CountStartsLate, [Next]_vars
               PROVE  [Replay!Next]_<<Given, count, known>>
    OBVIOUS
  <2>1. ASSUME UNCHANGED <<entries, count, known>>
        PROVE  UNCHANGED <<Given, count, known>>
    BY <2>1 DEF Given, EntryValues
  <2>2. ASSUME phase = "parse", UNCHANGED <<count, known>>
        PROVE  Replay!Next
    BY <2>2 DEF CountStartsLate, Replay!Next, Replay!Parse
  <2>3. ASSUME count + 1 \in DOMAIN entries, UNCHANGED entries, count' = count + 1,
               NEW k, k = known[entries[count + 1].warp],
               \/ known' = [known EXCEPT ![entries[count + 1].warp] =
                                              DisplayState(entries[count + 1], k)]
               \/ known' = [known EXCEPT ![entries[count + 1].warp] =
                                              UpdateState(entries[count + 1], k)]
        PROVE  Replay!Next
    <3> DEFINE e == entries[count + 1]
               g == [warp |-> e.warp, gives |-> EntryValues(e)]
    <3>1. Given' = Given
      BY <2>3 DEF Given, EntryValues
    <3>2. count + 1 \in DOMAIN Given /\ Given[count + 1] = g
      BY <2>3 DEF Given
    <3>3. known' = [known EXCEPT ![g.warp] = Replay!Learn(g, known[g.warp])]
      BY <2>3, FollowingLearns
    <3>4. Replay!Read
      BY <2>3, <3>1, <3>2, <3>3 DEF Replay!Read
    <3> QED
      BY <3>4 DEF Replay!Next
  <2> USE DEF running, parsing, viewing
  <2>4. CASE Launch             BY <2>1, <2>4 DEF Launch
  <2>5. CASE FinishRun          BY <2>1, <2>5 DEF FinishRun
  <2>6. CASE \E w \in Warps, i \in Instructions : RunInstr(w, i)
    BY <2>1, <2>6 DEF RunInstr
  <2>7. CASE ReadBlank          BY <2>2, <2>7 DEF ReadBlank, Reading
  <2>8. CASE ReadKernel         BY <2>2, <2>8 DEF ReadKernel, Reading
  <2>9. CASE ReadHeader         BY <2>2, <2>9 DEF ReadHeader, Reading
  <2>10. CASE ReadWidth         BY <2>2, <2>10 DEF ReadWidth, Reading
  <2>11. CASE ReadReg           BY <2>2, <2>11 DEF ReadReg, Reading
  <2>12. CASE EndOfFile         BY <2>2, <2>12 DEF EndOfFile
  <2>13. CASE DisplayEntry      BY <2>3, <2>13 DEF DisplayEntry
  <2>14. CASE UpdateEntry       BY <2>3, <2>14 DEF UpdateEntry
  <2>15. CASE UNCHANGED vars    BY <2>1, <2>15 DEF vars
  <2> QED
    BY <2>4, <2>5, <2>6, <2>7, <2>8, <2>9, <2>10, <2>11, <2>12, <2>13, <2>14, <2>15
       DEF Next
<1> QED
  BY <1>1, <1>2, CountInvariant, PTL DEF Spec, ReplaysTrace, Replay!Spec

-----------------------------------------------------------------------------
(* Instructions.                                                           *)

OperandTypes == [refs : Seq(Registers), address : BOOLEAN]

\* The registers of a sequence of operands.
LEMMA RefsOfOperands ==
    ASSUME NEW ops \in Seq(OperandTypes)
    PROVE  /\ Refs(ops) \in Seq(Registers)
           /\ ListedRefs(ops) \in Seq(Registers)
           /\ Range(Refs(ops)) = UNION {Items(ops[k].refs) : k \in DOMAIN ops}
           /\ Range(ListedRefs(ops)) \subseteq Range(Refs(ops))
<1> DEFINE all == [k \in DOMAIN ops |-> ops[k].refs]
           listed == [k \in DOMAIN ops |-> IF ops[k].address THEN <<>> ELSE ops[k].refs]
<1>1. /\ Len(ops) \in Nat /\ DOMAIN ops = 1 .. Len(ops)
      /\ \A k \in DOMAIN ops : ops[k] \in OperandTypes
    BY LenProperties
<1>2. \A k \in DOMAIN ops : ops[k].refs \in Seq(Registers)
    BY <1>1 DEF OperandTypes
<1>3. <<>> \in Seq(Registers)
    BY EmptySeq
<1>4. all \in [1 .. Len(ops) -> Seq(Registers)] /\ listed \in [1 .. Len(ops) -> Seq(Registers)]
    BY <1>1, <1>2, <1>3
<1>5. all \in Seq(Seq(Registers)) /\ listed \in Seq(Seq(Registers))
    BY <1>1, <1>4, SeqDef
<1>6. Refs(ops) \in Seq(Registers) /\ ListedRefs(ops) \in Seq(Registers)
    BY <1>5, FlattenItems DEF Refs, ListedRefs
<1>7. Items(Refs(ops)) = UNION {Items(all[k]) : k \in DOMAIN all}
    BY <1>5, FlattenItems DEF Refs
<1>8. {Items(all[k]) : k \in DOMAIN all} = {Items(ops[k].refs) : k \in DOMAIN ops}
    OBVIOUS
<1>9. Items(ListedRefs(ops)) = UNION {Items(listed[k]) : k \in DOMAIN listed}
    BY <1>5, FlattenItems DEF ListedRefs
<1>10. \A k \in DOMAIN ops : Items(listed[k]) \subseteq Items(all[k])
    BY EmptyAndSingle
<1>11. DOMAIN listed = DOMAIN ops /\ DOMAIN all = DOMAIN ops
    OBVIOUS
<1> HIDE DEF all, listed
<1>12. Items(ListedRefs(ops)) \subseteq Items(Refs(ops))
    BY <1>7, <1>9, <1>10, <1>11
<1> QED  BY <1>6, <1>7, <1>8, <1>12 DEF Range, Items

\* The operands after the first have no registers that the operands do not have.
LEMMA RefsOfTail ==
    ASSUME NEW ops \in Seq(OperandTypes), ops # <<>>
    PROVE  /\ Refs(Tail(ops)) \in Seq(Registers)
           /\ Range(Refs(Tail(ops))) \subseteq Range(Refs(ops))
<1>1. IsSequence(ops) /\ Tail(ops) \in Seq(OperandTypes)
    BY SequenceIs, HeadTailProperties
<1>2. /\ Len(ops) \in Nat \ {0} /\ DOMAIN Tail(ops) = 1 .. Len(ops) - 1
      /\ \A k \in 1 .. Len(ops) - 1 : Tail(ops)[k] = ops[k + 1]
      /\ DOMAIN ops = 1 .. Len(ops)
    BY <1>1, TailItems, SequenceDomain
<1>3. \A k \in 1 .. Len(ops) - 1 : k + 1 \in 1 .. Len(ops)
    BY <1>2
<1>4. \A k \in DOMAIN Tail(ops) : Items(Tail(ops)[k].refs) \subseteq Range(Refs(ops))
    <2>1. \A k \in DOMAIN ops : Items(ops[k].refs) \subseteq Range(Refs(ops))
        BY RefsOfOperands
    <2> QED  BY <1>2, <1>3, <2>1
<1>5. /\ Refs(Tail(ops)) \in Seq(Registers)
      /\ Range(Refs(Tail(ops))) = UNION {Items(Tail(ops)[k].refs) : k \in DOMAIN Tail(ops)}
    BY <1>1, RefsOfOperands
<1> QED  BY <1>4, <1>5

\* What an entry of instruction i lists: its destinations come first.
LEMMA ListedRegisters ==
    ASSUME NEW i \in Instructions
    PROVE  /\ Listed(i) \in Seq(Registers)
           /\ \A n \in 0 .. i.width - 1 :
                 Destinations(i) # {} =>
                     n + 1 \in DOMAIN Listed(i) /\ Listed(i)[n + 1] = Refs(i.operands)[1] + n
<1> DEFINE refs == ListedRefs(i.operands)
           first == [n \in 1 .. i.width |-> refs[1] + n - 1]
<1>1. /\ i.width \in {1, 2} /\ i.operands \in Seq(OperandTypes)
      /\ Registers \subseteq Int /\ Destinations(i) \subseteq Registers
      /\ Destinations(i) # {} => refs # <<>> /\ refs[1] = Refs(i.operands)[1]
    BY InstructionsAssumption DEF OperandTypes
<1>2. refs \in Seq(Registers) /\ Refs(i.operands) \in Seq(Registers)
    BY <1>1, RefsOfOperands
<1>3. CASE ~ i.writes \/ refs = <<>>
    <2>1. Destinations(i) = {}
        BY <1>1, <1>3 DEF Destinations
    <2> QED  BY <1>2, <1>3, <2>1 DEF Listed
<1>4. CASE i.writes /\ refs # <<>>
    <2>1. Listed(i) = first \o Tail(refs)
        BY <1>4 DEF Listed
    <2>2. Refs(i.operands) # <<>>
        <3>1. Range(refs) \subseteq Range(Refs(i.operands))
            BY <1>1, RefsOfOperands
        <3>2. 1 \in DOMAIN refs
            BY <1>2, <1>4, SequenceIs, SequenceDomain
        <3>3. refs[1] \in Range(Refs(i.operands))
            BY <3>1, <3>2 DEF Range
        <3>4. Range(<<>>) = {}
            BY EmptyAndSingle DEF Range
        <3> QED  BY <3>3, <3>4
    <2>3. Destinations(i) = {Refs(i.operands)[1] + n : n \in 0 .. i.width - 1}
        BY <1>4, <2>2 DEF Destinations
    <2>4. Destinations(i) # {} /\ refs[1] = Refs(i.operands)[1]
        BY <1>1, <2>3
    <2> HIDE DEF refs
    <2>5. refs[1] \in Int
        <3>1. Len(refs) \in Nat \ {0} /\ refs \in [1 .. Len(refs) -> Registers]
            BY <1>2, <1>4, LenProperties, EmptySeq
        <3>2. 1 \in 1 .. Len(refs) /\ Registers \subseteq Int
            BY <1>1, <3>1
        <3>3. refs[1] \in Registers
            BY <3>1, <3>2
        <3> QED  BY <3>2, <3>3
    <2>6. \A n \in 1 .. i.width : refs[1] + n - 1 \in Registers
        <3>1. \A n \in 1 .. i.width : n - 1 \in 0 .. i.width - 1 /\ refs[1] + (n - 1) = refs[1] + n - 1
            BY <1>1, <2>5
        <3> QED  BY <1>1, <2>3, <2>4, <3>1
    <2>7. first \in Seq(Registers) /\ Len(first) = i.width
        BY <1>1, <2>6
    <2>8. Tail(refs) \in Seq(Registers)
        BY <1>2, <1>4, HeadTailProperties
    <2>9. IsSequence(first) /\ IsSequence(Tail(refs))
        BY <2>7, <2>8, SequenceIs
    <2>10. Joins(Listed(i), first, Tail(refs)) /\ Len(Tail(refs)) \in Nat
        BY <2>1, <2>9, ConcatItems, SequenceDomain
    <2>11. Listed(i) \in Seq(Registers)
        BY <2>1, <2>7, <2>8, ConcatProperties
    <2>12. ASSUME NEW n \in 0 .. i.width - 1
           PROVE  n + 1 \in DOMAIN Listed(i) /\ Listed(i)[n + 1] = refs[1] + n
        <3>1. n + 1 \in 1 .. i.width /\ refs[1] + (n + 1) - 1 = refs[1] + n
            BY <1>1, <2>5
        <3>2. first[n + 1] = refs[1] + n
            BY <3>1
        <3> HIDE DEF first
        <3>3. n + 1 \in 1 .. i.width + Len(Tail(refs))
            BY <1>1, <3>1, <2>10
        <3> QED  BY <2>7, <2>10, <3>1, <3>2, <3>3 DEF Joins
    <2> QED  BY <2>4, <2>11, <2>12
<1> QED  BY <1>3, <1>4

-----------------------------------------------------------------------------
(* What parse_trace makes of a line and of several lines.                  *)

Flushed(s) == s.entries \o s.current

NewEntry(k, line) ==
    [warp |-> [kernel |-> k, warp |-> line.warp], instr |-> line.instr, width |-> 1,
     regs |-> <<>>]

Parsed(s, line) ==
    CASE line.line = "blank"  ->
            [entries |-> Flushed(s), current |-> <<>>, kernel |-> s.kernel]
      [] line.line = "kernel" ->
            [entries |-> Flushed(s), current |-> <<>>, kernel |-> line.name]
      [] line.line = "header" ->
            [entries |-> Flushed(s), current |-> <<NewEntry(s.kernel, line)>>,
             kernel |-> s.kernel]
      [] line.line = "width"  ->
            [entries |-> s.entries, kernel |-> s.kernel,
             current |-> IF s.current = <<>> THEN <<>>
                         ELSE <<[s.current[1] EXCEPT !.width = line.width]>>]
      [] line.line = "reg"    ->
            [entries |-> s.entries, kernel |-> s.kernel,
             current |-> IF s.current = <<>> THEN <<>>
                         ELSE <<[s.current[1] EXCEPT
                                    !.regs = Over([n \in {line.index} |-> line.value], @)]>>]

\* The parser's states through some lines.
AreStates(st, s, lines, t) ==
    /\ st[0] = s
    /\ \A k \in 1 .. Len(lines) : st[k] = Parsed(st[k - 1], lines[k])
    /\ st[Len(lines)] = t

Leads(s, lines, t) == \E st : AreStates(st, s, lines, t)

LEMMA NoLines ==
    ASSUME NEW s, NEW t
    PROVE  Leads(s, <<>>, t) <=> s = t
<1>1. Len(<<>>) = 0
    BY EmptyAndSingle
<1>2. AreStates([k \in {0} |-> s], s, <<>>, s)
    BY <1>1 DEF AreStates
<1>3. \A st : AreStates(st, s, <<>>, t) => s = t
    BY <1>1 DEF AreStates
<1> QED  BY <1>2, <1>3 DEF Leads

LEMMA OneLine ==
    ASSUME NEW s, NEW line
    PROVE  Leads(s, <<line>>, Parsed(s, line))
<1> DEFINE st == [k \in 0 .. 1 |-> IF k = 0 THEN s ELSE Parsed(s, line)]
<1>1. Len(<<line>>) = 1 /\ <<line>>[1] = line
    BY EmptyAndSingle
<1>2. st[0] = s /\ st[1] = Parsed(s, line)
    OBVIOUS
<1>3. \A k \in 1 .. 1 : k = 1 /\ k - 1 = 0
    OBVIOUS
<1> HIDE DEF st
<1>4. AreStates(st, s, <<line>>, Parsed(s, line))
    BY <1>1, <1>2, <1>3 DEF AreStates
<1> QED  BY <1>4 DEF Leads

LEMMA MoreLines ==
    ASSUME NEW a, IsSequence(a), NEW b, IsSequence(b), NEW r, NEW s, NEW t,
           Leads(r, a, s), Leads(s, b, t)
    PROVE  Leads(r, a \o b, t)
<1>1. PICK st : AreStates(st, r, a, s)
    BY DEF Leads
<1>2. PICK su : AreStates(su, s, b, t)
    BY DEF Leads
<1> DEFINE c == a \o b
           m == Len(a)
           n == Len(b)
           sv == [k \in 0 .. m + n |-> IF k <= m THEN st[k] ELSE su[k - m]]
<1>3. /\ m \in Nat /\ n \in Nat /\ Len(c) = m + n
      /\ \A k \in 1 .. m : c[k] = a[k]
      /\ \A k \in 1 .. n : c[m + k] = b[k]
    BY ConcatItems, SequenceDomain DEF Joins
<1>4. /\ st[0] = r /\ st[m] = s /\ su[0] = s /\ su[n] = t
      /\ \A k \in 1 .. m : st[k] = Parsed(st[k - 1], a[k])
      /\ \A k \in 1 .. n : su[k] = Parsed(su[k - 1], b[k])
    BY <1>1, <1>2 DEF AreStates
<1> HIDE DEF c, m, n
<1>5. \A k \in 0 .. m : sv[k] = st[k]
    BY <1>3
<1>6. \A k \in 0 .. n : sv[m + k] = su[k]
    <2> SUFFICES ASSUME NEW k \in 0 .. n PROVE sv[m + k] = su[k]
        OBVIOUS
    <2>1. m + k \in 0 .. m + n /\ (m + k) - m = k /\ (k = 0 => m + k = m)
        BY <1>3
    <2>2. CASE k = 0
        BY <1>3, <1>4, <1>5, <2>1, <2>2
    <2>3. CASE k # 0
        <3>1. ~ (m + k <= m)
            BY <1>3, <2>3
        <3> QED  BY <2>1, <3>1
    <2> QED  BY <2>2, <2>3
<1> HIDE DEF sv
<1>7. sv[0] = r /\ sv[m + n] = t
    BY <1>3, <1>4, <1>5, <1>6
<1>8. ASSUME NEW k \in 1 .. m + n
      PROVE  sv[k] = Parsed(sv[k - 1], c[k])
    <2>1. CASE k \in 1 .. m
        <3>1. k \in 0 .. m /\ k - 1 \in 0 .. m
            BY <1>3, <2>1
        <3> QED  BY <1>3, <1>4, <1>5, <2>1, <3>1
    <2>2. CASE k \notin 1 .. m
        <3> DEFINE j == k - m
        <3>1. j \in 1 .. n /\ j \in 0 .. n /\ j - 1 \in 0 .. n
              /\ m + j = k /\ m + (j - 1) = k - 1
            BY <1>3, <2>2
        <3> HIDE DEF j
        <3>2. sv[k] = su[j] /\ sv[k - 1] = su[j - 1] /\ c[k] = b[j]
            BY <1>3, <1>6, <3>1
        <3> QED  BY <1>4, <3>1, <3>2
    <2> QED  BY <2>1, <2>2
<1>9. AreStates(sv, r, c, t)
    BY <1>3, <1>7, <1>8 DEF AreStates
<1> QED  BY <1>9 DEF Leads, c

\* Reading the first line.
LEMMA LinesLeft ==
    ASSUME NEW lines, IsSequence(lines), lines # <<>>, NEW s, NEW t, Leads(s, lines, t)
    PROVE  Leads(Parsed(s, Head(lines)), Tail(lines), t)
<1>1. PICK st : AreStates(st, s, lines, t)
    BY DEF Leads
<1> DEFINE n == Len(lines)
           rest == Tail(lines)
           su == [k \in 0 .. n - 1 |-> st[k + 1]]
<1>2. /\ n \in Nat \ {0} /\ Head(lines) = lines[1] /\ Len(rest) = n - 1
      /\ \A k \in 1 .. n - 1 : rest[k] = lines[k + 1]
    BY TailItems
<1>3. /\ st[0] = s /\ st[n] = t
      /\ \A k \in 1 .. n : st[k] = Parsed(st[k - 1], lines[k])
    BY <1>1 DEF AreStates
<1> HIDE DEF n, rest
<1>4. su[0] = Parsed(s, Head(lines)) /\ su[n - 1] = t
    <2>1. 0 \in 0 .. n - 1 /\ n - 1 \in 0 .. n - 1 /\ (n - 1) + 1 = n /\ 1 \in 1 .. n
        BY <1>2
    <2> QED  BY <1>2, <1>3, <2>1
<1>5. ASSUME NEW k \in 1 .. n - 1
      PROVE  su[k] = Parsed(su[k - 1], rest[k])
    <2>1. k \in 0 .. n - 1 /\ k - 1 \in 0 .. n - 1 /\ (k - 1) + 1 = k /\ k + 1 \in 1 .. n
          /\ (k + 1) - 1 = k
        BY <1>2
    <2>2. su[k] = st[k + 1] /\ su[k - 1] = st[k]
        BY <2>1
    <2>3. st[k + 1] = Parsed(st[k], lines[k + 1])
        BY <1>3, <2>1
    <2> QED  BY <1>2, <2>2, <2>3
<1> HIDE DEF su
<1>6. AreStates(su, Parsed(s, Head(lines)), rest, t)
    BY <1>2, <1>4, <1>5 DEF AreStates
<1> QED  BY <1>6 DEF Leads, rest

-----------------------------------------------------------------------------
(* The lines of one instruction.                                           *)

Made(w, i, d, regs) == [warp |-> w, instr |-> i, width |-> d, regs |-> regs]

\* The first k registers of an entry.
GivenRegs(i, regs, active, k) ==
    IF k = 0 THEN <<>>
    ELSE [j \in 0 .. k - 1 |-> IF active THEN {regs[Listed(i)[j + 1]]} ELSE {}]

LEMMA OneRegMore ==
    ASSUME NEW i, NEW regs, NEW active, NEW k \in Nat \ {0},
           NEW v, v = IF active THEN {regs[Listed(i)[k]]} ELSE {}
    PROVE  Over([m \in {k - 1} |-> v], GivenRegs(i, regs, active, k - 1)) = GivenRegs(i, regs, active, k)
<1> DEFINE g == GivenRegs(i, regs, active, k - 1)
           h == GivenRegs(i, regs, active, k)
<1>1. h = [j \in 0 .. k - 1 |-> IF active THEN {regs[Listed(i)[j + 1]]} ELSE {}]
    BY DEF GivenRegs
<1>2. /\ DOMAIN g = 0 .. k - 2
      /\ \A j \in 0 .. k - 2 : g[j] = IF active THEN {regs[Listed(i)[j + 1]]} ELSE {}
    <2>1. CASE k = 1
        <3>1. g = <<>>
            BY <2>1 DEF GivenRegs
        <3>2. 0 .. k - 2 = {}
            BY <2>1
        <3> HIDE DEF g
        <3> QED  BY <3>1, <3>2, EmptyAndSingle
    <2>2. CASE k # 1
        <3>1. k - 1 # 0 /\ (k - 1) - 1 = k - 2
            BY <2>2
        <3>2. g = [j \in 0 .. k - 2 |-> IF active THEN {regs[Listed(i)[j + 1]]} ELSE {}]
            BY <3>1 DEF GivenRegs
        <3> QED  BY <3>2
    <2> QED  BY <2>1, <2>2
<1> HIDE DEF g, h
<1>3. {k - 1} \cup DOMAIN g = 0 .. k - 1
    BY <1>2
<1>4. Over([m \in {k - 1} |-> v], g) =
          [j \in {k - 1} \cup DOMAIN g |-> IF j \in {k - 1} THEN v ELSE g[j]]
    BY DEF Over
<1>5. \A j \in 0 .. k - 1 : (IF j \in {k - 1} THEN v ELSE g[j]) = h[j]
    <2> SUFFICES ASSUME NEW j \in 0 .. k - 1
                 PROVE  (IF j \in {k - 1} THEN v ELSE g[j]) = h[j]
        OBVIOUS
    <2>1. CASE j = k - 1
        BY <1>1, <2>1
    <2>2. CASE j # k - 1
        <3>1. j \in 0 .. k - 2
            BY <2>2
        <3> QED  BY <1>1, <1>2, <2>2, <3>1
    <2> QED  BY <2>1, <2>2
<1>6. Over([m \in {k - 1} |-> v], g) = h
    BY <1>1, <1>3, <1>4, <1>5
<1> QED  BY <1>6 DEF g, h

LEMMA RegsRead ==
    ASSUME NEW i \in Instructions, NEW regs, NEW active, NEW w, NEW d, NEW es, NEW kn
    PROVE  LET State(r) == [entries |-> es, current |-> <<Made(w, i, d, r)>>, kernel |-> kn]
           IN  Leads(State(<<>>), RegLines(i, regs, active),
                     State(GivenRegs(i, regs, active, Len(Listed(i)))))
<1> DEFINE State(r) == [entries |-> es, current |-> <<Made(w, i, d, r)>>, kernel |-> kn]
           n == Len(Listed(i))
           lines == RegLines(i, regs, active)
           st == [k \in 0 .. n |-> State(GivenRegs(i, regs, active, k))]
           V(k) == IF active THEN {regs[Listed(i)[k]]} ELSE {}
<1>1. n \in Nat /\ DOMAIN Listed(i) = 1 .. n
    BY ListedRegisters, LenProperties
<1>2. lines = [k \in 1 .. n |-> [line |-> "reg", index |-> k - 1, value |-> V(k)]]
    BY <1>1 DEF RegLines
<1> HIDE DEF n, lines
<1>3. Len(lines) = n /\ \A k \in 1 .. n : lines[k] = [line |-> "reg", index |-> k - 1, value |-> V(k)]
    <2>1. lines = [k \in 1 .. n |-> lines[k]]
        BY <1>2
    <2> QED  BY <1>1, <1>2, <2>1, FunctionIsSequence
<1>4. \A k \in 0 .. n : st[k] = State(GivenRegs(i, regs, active, k))
    OBVIOUS
<1>5. ASSUME NEW k \in 1 .. n
      PROVE  st[k] = Parsed(st[k - 1], lines[k])
    <2> DEFINE g == GivenRegs(i, regs, active, k - 1)
               l == [line |-> "reg", index |-> k - 1, value |-> V(k)]
    <2>1. k \in 0 .. n /\ k - 1 \in 0 .. n /\ k \in Nat \ {0}
        BY <1>1
    <2>2. st[k - 1] = State(g) /\ st[k] = State(GivenRegs(i, regs, active, k))
        BY <2>1, <1>4
    <2>3. Over([m \in {k - 1} |-> V(k)], g) = GivenRegs(i, regs, active, k)
        BY <2>1, OneRegMore
    <2> HIDE DEF g, V
    <2>4. /\ State(g).entries = es /\ State(g).kernel = kn
          /\ State(g).current = <<Made(w, i, d, g)>>
          /\ l.line = "reg" /\ l.index = k - 1 /\ l.value = V(k)
        OBVIOUS
    <2>5. <<Made(w, i, d, g)>>[1] = Made(w, i, d, g) /\ <<Made(w, i, d, g)>> # <<>>
        OBVIOUS
    <2>6. [Made(w, i, d, g) EXCEPT !.regs = Over([m \in {k - 1} |-> V(k)], @)] =
              Made(w, i, d, Over([m \in {k - 1} |-> V(k)], g))
        BY DEF Made
    <2> HIDE DEF State, l
    <2>7. Parsed(State(g), l) =
              [entries |-> es, kernel |-> kn,
               current |-> <<[Made(w, i, d, g) EXCEPT !.regs = Over([m \in {k - 1} |-> V(k)], @)]>>]
        BY <2>4, <2>5 DEF Parsed
    <2>8. Parsed(State(g), l) = State(GivenRegs(i, regs, active, k))
        BY <2>3, <2>6, <2>7 DEF State
    <2> QED  BY <1>3, <2>2, <2>8 DEF l
<1>6. st[0] = State(<<>>) /\ st[n] = State(GivenRegs(i, regs, active, n))
    <2>1. 0 \in 0 .. n /\ n \in 0 .. n /\ GivenRegs(i, regs, active, 0) = <<>>
        BY <1>1 DEF GivenRegs
    <2> QED  BY <1>4, <2>1
<1> HIDE DEF st, State
<1>7. AreStates(st, State(<<>>), lines, State(GivenRegs(i, regs, active, n)))
    BY <1>3, <1>5, <1>6 DEF AreStates
<1>8. Leads(State(<<>>), lines, State(GivenRegs(i, regs, active, n)))
    BY <1>7 DEF Leads
<1> QED  BY <1>8 DEF State, lines, n

\* The registers that an entry of instruction i holds at the end.
LastRegs(i, regs, active) == GivenRegs(i, regs, active, Len(Listed(i)))

\* The lines of an instruction put whatever was open among the entries and
\* leave the instruction's own entry open.
LEMMA EntryRead ==
    ASSUME NEW i \in Instructions, NEW w \in Warps, NEW regs, NEW active,
           NEW s, s.kernel = w.kernel
    PROVE  /\ IsSequence(EntryLines(w, i, regs, active))
           /\ Leads(s, EntryLines(w, i, regs, active),
                    [entries |-> Flushed(s), kernel |-> s.kernel,
                     current |-> <<Made(w, i, i.width, LastRegs(i, regs, active))>>])
<1> DEFINE State(d, r) == [entries |-> Flushed(s), current |-> <<Made(w, i, d, r)>>,
                           kernel |-> s.kernel]
           head   == [line |-> "header", warp |-> w.warp, instr |-> i]
           wide   == [line |-> "width", width |-> i.width]
           widths == IF i.width = 1 THEN <<>> ELSE <<wide>>
           lines  == RegLines(i, regs, active)
<1>1. Leads(s, <<head>>, State(1, <<>>))
    <2>1. w = [kernel |-> s.kernel, warp |-> w.warp]
        BY TraceViewerAssumption
    <2>2. NewEntry(s.kernel, head) = Made(w, i, 1, <<>>)
        BY <2>1 DEF NewEntry, Made
    <2>3. head.line = "header"
        OBVIOUS
    <2> HIDE DEF head
    <2>4. Parsed(s, head) = State(1, <<>>)
        BY <2>2, <2>3 DEF Parsed
    <2> QED  BY <2>4, OneLine
<1>2. Leads(State(1, <<>>), widths, State(i.width, <<>>))
    <2>1. CASE i.width = 1
        <3> HIDE DEF State
        <3> QED  BY <2>1, NoLines
    <2>2. CASE i.width # 1
        <3>1. /\ State(1, <<>>).current = <<Made(w, i, 1, <<>>)>>
              /\ State(1, <<>>).entries = Flushed(s) /\ State(1, <<>>).kernel = s.kernel
              /\ wide.line = "width" /\ wide.width = i.width
              /\ <<Made(w, i, 1, <<>>)>>[1] = Made(w, i, 1, <<>>)
              /\ <<Made(w, i, 1, <<>>)>> # <<>>
            OBVIOUS
        <3>2. [Made(w, i, 1, <<>>) EXCEPT !.width = i.width] = Made(w, i, i.width, <<>>)
            BY DEF Made
        <3> HIDE DEF State, wide
        <3>3. Parsed(State(1, <<>>), wide) =
                  [entries |-> Flushed(s), kernel |-> s.kernel,
                   current |-> <<Made(w, i, i.width, <<>>)>>]
            BY <3>1, <3>2 DEF Parsed
        <3>4. Parsed(State(1, <<>>), wide) = State(i.width, <<>>)
            BY <3>3 DEF State
        <3> QED  BY <2>2, <3>4, OneLine
    <2> QED  BY <2>1, <2>2
<1>3. Leads(State(i.width, <<>>), lines, State(i.width, LastRegs(i, regs, active)))
    BY RegsRead DEF LastRegs
<1>4. IsSequence(<<head>>) /\ IsSequence(widths)
    BY EmptyAndSingle
<1>5. IsSequence(lines)
    <2>1. Len(Listed(i)) \in Nat /\ DOMAIN Listed(i) = 1 .. Len(Listed(i))
        BY ListedRegisters, LenProperties
    <2>2. lines = [n \in 1 .. Len(Listed(i)) |-> lines[n]]
        BY <2>1 DEF RegLines
    <2> HIDE DEF lines
    <2> QED  BY <2>1, <2>2, FunctionIsSequence
<1>6. EntryLines(w, i, regs, active) = (<<head>> \o widths) \o lines
    BY DEF EntryLines
<1> HIDE DEF State, head, wide, widths, lines
<1>7. IsSequence(<<head>> \o widths)
    BY <1>4, ConcatItems DEF Joins
<1>8. IsSequence((<<head>> \o widths) \o lines)
    BY <1>5, <1>7, ConcatItems DEF Joins
<1>9. Leads(s, <<head>> \o widths, State(i.width, <<>>))
    BY <1>1, <1>2, <1>4, MoreLines
<1>10. Leads(s, (<<head>> \o widths) \o lines, State(i.width, LastRegs(i, regs, active)))
    BY <1>3, <1>5, <1>7, <1>9, MoreLines
<1> QED  BY <1>6, <1>8, <1>10 DEF State

-----------------------------------------------------------------------------
(* The invariant: the lines that are left lead the parser to an entry for  *)
(* each instruction executed.                                              *)

EntryOf(x) == Made(x.warp, x.instr, x.instr.width, LastRegs(x.instr, x.after, x.active))

EntriesOf(xs) == [n \in DOMAIN xs |-> EntryOf(xs[n])]

Single(s) == s = <<>> \/ s = <<s[1]>>

Faithful(t) ==
    /\ IsSequence(t.entries) /\ Single(t.current)
    /\ t.kernel = IF launched = 0 THEN "" ELSE KernelOf(launched)
    /\ Flushed(t) = EntriesOf(executed)

Now == [entries |-> entries, current |-> current, kernel |-> kernel]

\* What the lines left will make of the parser's state.
TraceIsFaithful == \E t : Leads(Now, trace, t) /\ Faithful(t)

IsExecution(x) ==
    /\ x.warp \in Warps /\ x.instr \in Instructions /\ x.active \in BOOLEAN
    /\ x.after \in [Registers -> Values]

RunInv ==
    /\ phase \in {"run", "parse", "view"} /\ filter \in Filters
    /\ machine \in [Warps -> [Registers -> Values]]
    /\ launched \in 0 .. Len(Kernels)
    /\ IsSequence(executed) /\ \A n \in DOMAIN executed : IsExecution(executed[n])

ParseInv ==
    /\ IsSequence(trace) /\ IsSequence(entries) /\ Single(current)
    /\ phase = "view" => trace = <<>> /\ current = <<>>
    /\ TraceIsFaithful

LEMMA RunInvariant == Spec => []RunInv
<1>1. Init => RunInv
    <2> SUFFICES ASSUME Init PROVE RunInv
        OBVIOUS
    <2>1. Len(Kernels) \in Nat
        BY TraceViewerAssumption, LenProperties
    <2>2. IsSequence(executed) /\ DOMAIN executed = {}
        BY EmptyAndSingle DEF Init
    <2>3. machine \in [Warps -> [Registers -> Values]]
        BY DEF Init
    <2>4. phase \in {"run", "parse", "view"} /\ filter \in Filters /\ launched = 0
        BY DEF Init
    <2> QED  BY <2>1, <2>2, <2>3, <2>4 DEF RunInv
<1>2. RunInv /\ [Next]_vars => RunInv'
    <2> SUFFICES ASSUME RunInv, [Next]_vars PROVE RunInv'
        OBVIOUS
    <2>0. Len(Kernels) \in Nat
        BY TraceViewerAssumption, LenProperties
    <2>1. ASSUME UNCHANGED <<filter, running>>, phase' \in {"run", "parse", "view"}
          PROVE  RunInv'
        BY <2>1 DEF RunInv, running, IsExecution
    <2>2. phase \in {"run", "parse", "view"}
        BY DEF RunInv
    <2>3. CASE Launch
        <3>1. launched' \in 0 .. Len(Kernels)
            BY <2>0, <2>3 DEF Launch, RunInv
        <3> QED  BY <2>3, <3>1 DEF Launch, RunInv, IsExecution
    <2>4. CASE FinishRun          BY <2>1, <2>4 DEF FinishRun
    <2>5. ASSUME NEW w \in Warps, NEW i \in Instructions, RunInstr(w, i)
          PROVE  RunInv'
        <3>1. PICK active \in BOOLEAN, blank \in BOOLEAN, new \in [Destinations(i) -> Values] :
                 LET after == IF active THEN Over(new, machine[w]) ELSE machine[w]
                 IN  /\ machine' = [machine EXCEPT ![w] = after]
                     /\ executed' = Append(executed,
                           [warp |-> w, instr |-> i, active |-> active,
                            before |-> machine[w], after |-> after])
            BY <2>5 DEF RunInstr
        <3> DEFINE after == IF active THEN Over(new, machine[w]) ELSE machine[w]
                   x == [warp |-> w, instr |-> i, active |-> active,
                         before |-> machine[w], after |-> after]
        <3>2. machine[w] \in [Registers -> Values]
            BY DEF RunInv
        <3>3. Destinations(i) \subseteq Registers
            BY InstructionsAssumption
        <3>4. after \in [Registers -> Values]
            BY <3>1, <3>2, <3>3 DEF Over
        <3>5. machine' \in [Warps -> [Registers -> Values]]
            BY <3>1, <3>4 DEF RunInv
        <3> HIDE DEF after
        <3>6. IsExecution(x)
            BY <3>1, <3>4 DEF IsExecution
        <3>7. executed' = Append(executed, x)
            BY <3>1 DEF after
        <3> HIDE DEF x
        <3>8. IsSequence(executed) /\ \A n \in DOMAIN executed : IsExecution(executed[n])
            BY DEF RunInv
        <3>9. IsSequence(executed') /\ \A n \in DOMAIN executed' : IsExecution(executed'[n])
            BY <3>6, <3>7, <3>8, AppendItem
        <3>10. IsSequence(executed)' /\ \A n \in DOMAIN executed' : IsExecution(executed[n])'
            BY <3>9 DEF IsSequence, Items, IsExecution
        <3>11. phase' = phase /\ filter' = filter /\ launched' = launched
            BY <2>5 DEF RunInstr
        <3> QED  BY <3>5, <3>10, <3>11 DEF RunInv
    <2> USE DEF running
    <2>6. CASE ReadBlank          BY <2>1, <2>2, <2>6 DEF ReadBlank
    <2>7. CASE ReadKernel         BY <2>1, <2>2, <2>7 DEF ReadKernel
    <2>8. CASE ReadHeader         BY <2>1, <2>2, <2>8 DEF ReadHeader
    <2>9. CASE ReadWidth          BY <2>1, <2>2, <2>9 DEF ReadWidth
    <2>10. CASE ReadReg           BY <2>1, <2>2, <2>10 DEF ReadReg
    <2>11. CASE EndOfFile         BY <2>1, <2>2, <2>11 DEF EndOfFile
    <2>12. CASE DisplayEntry      BY <2>1, <2>2, <2>12 DEF DisplayEntry
    <2>13. CASE UpdateEntry       BY <2>1, <2>2, <2>13 DEF UpdateEntry
    <2>14. CASE UNCHANGED vars    BY <2>1, <2>2, <2>14 DEF vars
    <2> QED
        BY <2>3, <2>4, <2>5, <2>6, <2>7, <2>8, <2>9, <2>10, <2>11, <2>12, <2>13, <2>14
           DEF Next
<1> QED  BY <1>1, <1>2, PTL DEF Spec

\* What a blank line, a kernel line or the end does.
LEMMA FlushedOnce ==
    ASSUME NEW t, IsSequence(t.entries), Single(t.current), NEW k
    PROVE  LET u == [entries |-> Flushed(t), current |-> <<>>, kernel |-> k]
           IN  /\ IsSequence(Flushed(t)) /\ IsSequence(u.entries) /\ Single(u.current)
               /\ Flushed(u) = Flushed(t)
<1>1. IsSequence(t.current) /\ IsSequence(<<>>)
    BY EmptyAndSingle DEF Single
<1>2. IsSequence(Flushed(t)) /\ Flushed(t) \o <<>> = Flushed(t)
    BY <1>1, ConcatItems DEF Flushed, Joins
<1> QED  BY <1>2 DEF Flushed, Single

\* The same, with what the parser's state must satisfy.
LEMMA StaysFaithful ==
    ASSUME NEW t, Faithful(t)
    PROVE  Faithful([entries |-> Flushed(t), current |-> <<>>, kernel |-> t.kernel])
<1> DEFINE u == [entries |-> Flushed(t), current |-> <<>>, kernel |-> t.kernel]
<1>1. /\ IsSequence(t.entries) /\ Single(t.current) /\ Flushed(t) = EntriesOf(executed)
      /\ t.kernel = IF launched = 0 THEN "" ELSE KernelOf(launched)
    BY DEF Faithful
<1>2. IsSequence(u.entries) /\ Single(u.current) /\ Flushed(u) = Flushed(t)
    BY <1>1, FlushedOnce
<1>3. u.kernel = t.kernel
    OBVIOUS
<1> HIDE DEF u
<1>4. Faithful(u)
    BY <1>1, <1>2, <1>3 DEF Faithful
<1> QED  BY <1>4 DEF u

\* The lines that the tracer writes for an instruction make its entry.
LEMMA InstructionIsFaithful ==
    ASSUME RunInv, NEW w \in Warps, NEW i \in Instructions, NEW t, Faithful(t),
           IsSequence(trace), Leads(Now, trace, t), RunInstr(w, i)
    PROVE  IsSequence(trace)' /\ \E u : Leads(Now, trace', u) /\ Faithful(u)'
<1>1. PICK active, blank, x :
         /\ active \in BOOLEAN /\ blank \in BOOLEAN
         /\ x.warp = w /\ x.instr = i /\ x.active = active
         /\ executed' = Append(executed, x)
         /\ trace' = trace \o EntryLines(w, i, x.after, active)
                           \o (IF blank THEN <<[line |-> "blank"]>> ELSE <<>>)
    <2>1. PICK active \in BOOLEAN, blank \in BOOLEAN, new \in [Destinations(i) -> Values] :
             LET after == IF active THEN Over(new, machine[w]) ELSE machine[w]
             IN  /\ executed' = Append(executed,
                       [warp |-> w, instr |-> i, active |-> active,
                        before |-> machine[w], after |-> after])
                 /\ trace' = trace \o EntryLines(w, i, after, active)
                                   \o (IF blank THEN <<[line |-> "blank"]>> ELSE <<>>)
        BY DEF RunInstr
    <2> DEFINE after == IF active THEN Over(new, machine[w]) ELSE machine[w]
               x == [warp |-> w, instr |-> i, active |-> active,
                     before |-> machine[w], after |-> after]
    <2>2. x.warp = w /\ x.instr = i /\ x.active = active /\ x.after = after
        OBVIOUS
    <2>3. /\ executed' = Append(executed, x)
          /\ trace' = trace \o EntryLines(w, i, after, active)
                            \o (IF blank THEN <<[line |-> "blank"]>> ELSE <<>>)
        BY <2>1
    <2> HIDE DEF x, after
    <2> QED  BY <2>2, <2>3
<1> DEFINE after  == x.after
           lines  == EntryLines(w, i, after, active)
           last   == [line |-> "blank"]
           blanks == IF blank THEN <<last>> ELSE <<>>
           e == Made(w, i, i.width, LastRegs(i, after, active))
           u == [entries |-> Flushed(t), kernel |-> t.kernel, current |-> <<e>>]
           v == [entries |-> Flushed(u), current |-> <<>>, kernel |-> t.kernel]
<1>2. /\ executed' = Append(executed, x) /\ trace' = (trace \o lines) \o blanks
      /\ launched' = launched
    BY <1>1 DEF RunInstr
<1>3. EntryOf(x) = e
    BY <1>1 DEF EntryOf
<1> HIDE DEF after
<1>4. t.kernel = w.kernel
    <2>1. launched > 0 /\ KernelOf(launched) = w.kernel /\ launched # 0
        BY DEF RunInstr
    <2> QED  BY <2>1 DEF Faithful
<1>5. IsSequence(lines) /\ Leads(t, lines, u)
    BY <1>4, EntryRead
<1>6. /\ IsSequence(executed) /\ IsSequence(t.entries) /\ Single(t.current)
      /\ Flushed(t) = EntriesOf(executed)
      /\ t.kernel = IF launched = 0 THEN "" ELSE KernelOf(launched)
    BY DEF RunInv, Faithful
<1>7. IsSequence(Flushed(t))
    BY <1>6, FlushedOnce
<1>8. u.entries = Flushed(t) /\ u.current = <<e>> /\ u.kernel = t.kernel
    OBVIOUS
<1>9. v.entries = Flushed(u) /\ v.current = <<>> /\ v.kernel = t.kernel
    OBVIOUS
<1> HIDE DEF e, lines
<1>10. Flushed(u) = EntriesOf(Append(executed, x))
    <2> DEFINE xs == Append(executed, x)
               m  == Len(executed)
               es == EntriesOf(executed)
    <2>0. IsSequence(executed)
        BY <1>6
    <2>1. /\ m \in Nat /\ DOMAIN executed = 1 .. m /\ DOMAIN xs = 1 .. m + 1
          /\ \A k \in 1 .. m : xs[k] = executed[k]
          /\ xs[m + 1] = x
        BY <2>0, AppendItem
    <2>2. DOMAIN es = 1 .. m /\ \A k \in 1 .. m : es[k] = EntryOf(executed[k])
        BY <2>1 DEF EntriesOf
    <2>3. Joins(es \o <<e>>, es, <<e>>) /\ Len(<<e>>) = 1 /\ <<e>>[1] = e
        BY <1>6, <1>7, ConcatItems, EmptyAndSingle
    <2>4. DOMAIN EntriesOf(xs) = 1 .. m + 1
          /\ \A k \in 1 .. m + 1 : EntriesOf(xs)[k] = EntryOf(xs[k])
        BY <2>1 DEF EntriesOf
    <2>5. Len(es) = m
        <3>1. IsSequence(es)
            BY <1>6, <1>7
        <3> HIDE DEF es
        <3>2. Len(es) \in Nat /\ DOMAIN es = 1 .. Len(es)
            BY <3>1, SequenceDomain
        <3>3. 1 .. Len(es) = 1 .. m
            BY <2>2, <3>2
        <3> HIDE DEF m
        <3>4. m \in Nat
            BY <2>1
        <3>5. \A a, b \in Nat : a < b => b \in 1 .. b /\ b \notin 1 .. a
            OBVIOUS
        <3>6. ~ (Len(es) < m) /\ ~ (m < Len(es))
            BY <3>2, <3>3, <3>4, <3>5
        <3>7. \A a, b \in Nat : ~ (a < b) /\ ~ (b < a) => a = b
            OBVIOUS
        <3> QED  BY <3>2, <3>4, <3>6, <3>7
    <2> HIDE DEF es, m, xs
    <2>6. /\ IsSequence(es \o <<e>>) /\ DOMAIN (es \o <<e>>) = 1 .. m + 1
          /\ \A k \in 1 .. m : (es \o <<e>>)[k] = es[k]
          /\ (es \o <<e>>)[m + 1] = e
        <3>1. 1 \in 1 .. 1
            OBVIOUS
        <3> QED  BY <2>3, <2>5, <3>1 DEF Joins
    <2>7. \A k \in 1 .. m + 1 : (es \o <<e>>)[k] = EntriesOf(xs)[k]
        <3> SUFFICES ASSUME NEW k \in 1 .. m + 1
                     PROVE  (es \o <<e>>)[k] = EntriesOf(xs)[k]
            OBVIOUS
        <3>1. CASE k \in 1 .. m
            BY <2>1, <2>2, <2>4, <2>6, <3>1
        <3>2. CASE k \notin 1 .. m
            <4>1. k = m + 1
                BY <2>1, <3>2
            <4> QED  BY <1>3, <2>1, <2>4, <2>6, <4>1
        <3> QED  BY <3>1, <3>2
    <2>8. es \o <<e>> \in Seq(Items(es \o <<e>>))
        BY <2>6 DEF IsSequence
    <2>9. es \o <<e>> = [k \in 1 .. m + 1 |-> (es \o <<e>>)[k]]
        <3>1. es \o <<e>> = [k \in DOMAIN (es \o <<e>>) |-> (es \o <<e>>)[k]]
            BY <2>8, LenProperties
        <3> QED  BY <2>6, <3>1
    <2>10. EntriesOf(xs) = [k \in 1 .. m + 1 |-> EntriesOf(xs)[k]]
        BY <2>4 DEF EntriesOf
    <2>11. es \o <<e>> = EntriesOf(xs)
        BY <2>7, <2>9, <2>10
    <2> QED  BY <1>6, <1>8, <2>11 DEF Flushed, es, xs
<1> HIDE DEF u, v
<1>11. Faithful(u)'
    <2>1. Flushed(u) = EntriesOf(executed')
        BY <1>2, <1>10
    <2>2. Single(u.current)
        BY <1>8, EmptyAndSingle DEF Single
    <2>3. u.kernel = IF launched' = 0 THEN "" ELSE KernelOf(launched')
        BY <1>2, <1>6, <1>8
    <2>4. IsSequence(u.entries)
        BY <1>7, <1>8
    <2> QED  BY <2>1, <2>2, <2>3, <2>4
             DEF Faithful, EntriesOf, IsSequence, Items, Single, KernelOf
<1>12. Faithful(v)'
    <2>1. IsSequence(v.entries) /\ Single(v.current) /\ Flushed(v) = Flushed(u)
        <3>1. v = [entries |-> Flushed(u), current |-> <<>>, kernel |-> t.kernel]
            BY DEF v
        <3>2. IsSequence(u.entries) /\ Single(u.current)
            BY <1>7, <1>8, EmptyAndSingle DEF Single
        <3> QED  BY <3>1, <3>2, FlushedOnce
    <2>2. Flushed(v) = EntriesOf(executed')
        BY <1>2, <1>10, <2>1
    <2>3. v.kernel = IF launched' = 0 THEN "" ELSE KernelOf(launched')
        BY <1>2, <1>6, <1>9
    <2> QED  BY <2>1, <2>2, <2>3
             DEF Faithful, EntriesOf, IsSequence, Items, Single, KernelOf
<1>13. IsSequence(trace \o lines) /\ Leads(Now, trace \o lines, u)
    <2>1. Leads(t, lines, u)
        BY <1>5 DEF u
    <2> QED  BY <1>5, <2>1, ConcatItems, MoreLines DEF Joins
<1>14. CASE blank
    <2>1. Leads(u, <<last>>, v)
        <3>1. Parsed(u, last) = v
            BY <1>8 DEF Parsed, v
        <3> QED  BY <3>1, OneLine
    <2>2. trace' = (trace \o lines) \o <<last>>
        BY <1>2, <1>14
    <2>3. IsSequence(<<last>>)
        BY EmptyAndSingle
    <2>4. IsSequence(trace') /\ Leads(Now, trace', v)
        BY <1>13, <2>1, <2>2, <2>3, ConcatItems, MoreLines DEF Joins
    <2> QED  BY <1>12, <2>4 DEF IsSequence, Items
<1>15. CASE ~ blank
    <2>1. trace' = (trace \o lines) \o <<>>
        BY <1>2, <1>15
    <2>2. trace' = trace \o lines
        BY <1>13, <2>1, EmptyAndSingle, ConcatItems
    <2> QED  BY <1>11, <1>13, <2>2 DEF IsSequence, Items
<1> QED  BY <1>14, <1>15

\* A step of the parser that reads the first line.
LEMMA LineIsFaithful ==
    ASSUME ParseInv, phase = "parse", phase' = phase, trace # <<>>,
           trace' = Tail(trace), UNCHANGED running, Now' = Parsed(Now, Head(trace)),
           IsSequence(entries)', Single(current)'
    PROVE  ParseInv'
<1>1. PICK t : Leads(Now, trace, t) /\ Faithful(t)
    BY DEF ParseInv, TraceIsFaithful
<1>2. IsSequence(trace) /\ IsSequence(Tail(trace))
    BY TailItems DEF ParseInv
<1>3. Leads(Parsed(Now, Head(trace)), Tail(trace), t)
    BY <1>1, <1>2, LinesLeft
<1>4. Leads(Now', trace', t)
    BY <1>3
<1>5. Leads(Now, trace, t)'
    BY <1>4 DEF Leads, AreStates
<1>6. Faithful(t)'
    BY <1>1 DEF Faithful, running, EntriesOf, Single, IsSequence, Items
<1>7. IsSequence(trace)'
    BY <1>2 DEF IsSequence, Items
<1> QED  BY <1>5, <1>6, <1>7 DEF ParseInv, TraceIsFaithful

LEMMA ParseInvariant == Spec => []ParseInv
<1>1. Init => ParseInv
    <2> SUFFICES ASSUME Init PROVE ParseInv
        OBVIOUS
    <2>1. Leads(Now, trace, Now)
        BY NoLines DEF Init
    <2>2. IsSequence(<<>>) /\ DOMAIN <<>> = {}
        BY EmptyAndSingle
    <2>3. Now.entries = <<>> /\ Now.current = <<>> /\ Now.kernel = ""
        BY DEF Now, Init
    <2>4. launched = 0 /\ executed = <<>> /\ trace = <<>> /\ entries = <<>>
          /\ current = <<>> /\ phase = "run"
        BY DEF Init
    <2>5. Flushed(Now) = <<>>
        BY <2>2, <2>3, ConcatItems DEF Flushed
    <2>6. EntriesOf(executed) = <<>>
        <3>1. Len(EntriesOf(executed)) = 0 /\ IsSequence(EntriesOf(executed))
            <4>1. EntriesOf(executed) = [n \in 1 .. 0 |-> EntriesOf(executed)[n]]
                BY <2>2, <2>4 DEF EntriesOf
            <4> QED  BY <4>1, FunctionIsSequence
        <3> QED  BY <3>1, SequenceDomain
    <2>7. Faithful(Now)
        BY <2>2, <2>3, <2>4, <2>5, <2>6 DEF Faithful, Single
    <2> QED  BY <2>1, <2>2, <2>4, <2>7 DEF ParseInv, TraceIsFaithful, Single
<1>2. RunInv /\ ParseInv /\ [Next]_vars => ParseInv'
    <2> SUFFICES ASSUME RunInv, ParseInv, [Next]_vars PROVE ParseInv'
        OBVIOUS
    <2>1. /\ IsSequence(trace) /\ IsSequence(entries) /\ Single(current)
          /\ phase = "view" => trace = <<>> /\ current = <<>>
        BY DEF ParseInv
    <2>2. PICK t : Leads(Now, trace, t) /\ Faithful(t)
        BY DEF ParseInv, TraceIsFaithful
    <2>3. IsSequence(current)
        BY <2>1, EmptyAndSingle DEF Single
    <2>4. IsSequence(entries \o current) /\ Single(<<>>)
        BY <2>1, <2>3, ConcatItems DEF Joins, Single
    <2>5. ASSUME UNCHANGED <<trace, entries, current, kernel, running>>,
                 phase' = "view" => phase = "view"
          PROVE  ParseInv'
        <3>1. Leads(Now, trace, t)'
            BY <2>2, <2>5 DEF Leads, AreStates, Now
        <3>2. Faithful(t)'
            BY <2>2, <2>5 DEF Faithful, running, EntriesOf, Single, IsSequence, Items
        <3>3. IsSequence(trace)' /\ IsSequence(entries)' /\ Single(current)'
            BY <2>1, <2>5 DEF IsSequence, Items, Single
        <3> QED  BY <2>1, <2>5, <3>1, <3>2, <3>3 DEF ParseInv, TraceIsFaithful
    <2>6. ASSUME UNCHANGED parsing, phase = "run", phase' = phase, IsSequence(trace)',
                 \E u : Leads(Now, trace', u) /\ Faithful(u)'
          PROVE  ParseInv'
        <3>1. PICK u : Leads(Now, trace', u) /\ Faithful(u)'
            BY <2>6
        <3>2. Now' = Now
            BY <2>6 DEF Now, parsing
        <3>3. Leads(Now, trace, u)'
            BY <3>1, <3>2 DEF Leads, AreStates
        <3>4. IsSequence(entries)' /\ Single(current)'
            BY <2>1, <2>6 DEF parsing, IsSequence, Items, Single
        <3> QED  BY <2>6, <3>1, <3>3, <3>4 DEF ParseInv, TraceIsFaithful
    <2>7. CASE Launch
        <3> DEFINE line == [line |-> "kernel", name |-> KernelOf(launched + 1)]
        <3>1. /\ trace' = Append(trace, line) /\ launched' = launched + 1
              /\ phase = "run" /\ phase' = phase /\ UNCHANGED parsing
              /\ executed' = executed
            BY <2>7 DEF Launch
        <3>2. PICK name : name = KernelOf(launched + 1)
            OBVIOUS
        <3> DEFINE l == [line |-> "kernel", name |-> name]
                   u == [entries |-> Flushed(t), current |-> <<>>, kernel |-> name]
        <3>3. Parsed(t, l) = u
            BY DEF Parsed
        <3>4. /\ IsSequence(t.entries) /\ Single(t.current)
              /\ Flushed(t) = EntriesOf(executed)
            BY <2>2 DEF Faithful
        <3>5. IsSequence(u.entries) /\ Single(u.current) /\ Flushed(u) = Flushed(t)
            BY <3>4, FlushedOnce
        <3>6. u.kernel = KernelOf(launched + 1) /\ launched + 1 # 0
            BY <3>2 DEF RunInv
        <3>7. trace' = trace \o <<l>> /\ IsSequence(<<l>>)
            <4>1. Append(trace, line) = trace \o <<line>>
                BY <2>1, AppendIsConcat DEF IsSequence
            <4> QED  BY <3>1, <3>2, <4>1, EmptyAndSingle
        <3> HIDE DEF u, l
        <3>8. Leads(Now, trace', u)
            <4>1. Leads(t, <<l>>, u)
                BY <3>3, OneLine
            <4> QED  BY <2>1, <2>2, <3>7, <4>1, MoreLines
        <3>9. Faithful(u)'
            <4>1. Flushed(u) = EntriesOf(executed')
                BY <3>1, <3>4, <3>5
            <4>2. u.kernel = IF launched' = 0 THEN "" ELSE KernelOf(launched')
                BY <3>1, <3>6
            <4> QED  BY <3>5, <4>1, <4>2
                     DEF Faithful, EntriesOf, Single, IsSequence, Items, KernelOf, u
        <3>10. IsSequence(trace)'
            <4>1. IsSequence(trace')
                BY <2>1, <3>7, ConcatItems DEF Joins
            <4> QED  BY <4>1 DEF IsSequence, Items
        <3> QED  BY <2>6, <3>1, <3>8, <3>9, <3>10
    <2>8. CASE FinishRun
        BY <2>5, <2>8 DEF FinishRun, parsing
    <2>9. ASSUME NEW w \in Warps, NEW i \in Instructions, RunInstr(w, i)
          PROVE  ParseInv'
        <3>1. IsSequence(trace)' /\ \E u : Leads(Now, trace', u) /\ Faithful(u)'
            BY <2>1, <2>2, <2>9, InstructionIsFaithful
        <3>2. UNCHANGED parsing /\ phase = "run" /\ phase' = phase
            BY <2>9 DEF RunInstr
        <3> QED  BY <2>6, <3>1, <3>2
    <2>10. ASSUME entries' = entries \o current PROVE IsSequence(entries)'
        <3>1. IsSequence(entries')
            BY <2>4, <2>10
        <3> QED  BY <3>1 DEF IsSequence, Items
    <2>11. ASSUME entries' = entries PROVE IsSequence(entries)'
        <3>1. IsSequence(entries')
            BY <2>1, <2>11
        <3> QED  BY <3>1 DEF IsSequence, Items
    <2>12. ASSUME current' = <<>> \/ \E e : current' = <<e>> PROVE Single(current)'
        BY <2>12 DEF Single
    <2>13. CASE ReadBlank
        <3>1. Now' = Parsed(Now, Head(trace))
            BY <2>13 DEF ReadBlank, Reading, Flush, Now, Parsed, Flushed
        <3> QED  BY <2>10, <2>12, <2>13, <3>1, LineIsFaithful DEF ReadBlank, Reading, Flush
    <2>14. CASE ReadKernel
        <3>1. Now' = Parsed(Now, Head(trace))
            BY <2>14 DEF ReadKernel, Reading, Flush, Now, Parsed, Flushed
        <3> QED  BY <2>10, <2>12, <2>14, <3>1, LineIsFaithful DEF ReadKernel, Reading, Flush
    <2>15. CASE ReadHeader
        <3>1. Now' = Parsed(Now, Head(trace))
            BY <2>15 DEF ReadHeader, Reading, Flush, Opened, Now, Parsed, Flushed, NewEntry
        <3> QED
            BY <2>10, <2>12, <2>15, <3>1, LineIsFaithful
               DEF ReadHeader, Reading, Flush, Opened
    <2>16. CASE ReadWidth
        <3>1. Now' = Parsed(Now, Head(trace))
            BY <2>16 DEF ReadWidth, Reading, Now, Parsed
        <3> QED  BY <2>11, <2>12, <2>16, <3>1, LineIsFaithful DEF ReadWidth, Reading
    <2>17. CASE ReadReg
        <3>1. Now' = Parsed(Now, Head(trace))
            BY <2>17 DEF ReadReg, Reading, Now, Parsed
        <3> QED  BY <2>11, <2>12, <2>17, <3>1, LineIsFaithful DEF ReadReg, Reading
    <2>18. CASE EndOfFile
        <3>1. /\ trace = <<>> /\ trace' = trace /\ entries' = entries \o current
              /\ current' = <<>> /\ kernel' = kernel /\ UNCHANGED running
            BY <2>18 DEF EndOfFile, Flush
        <3>2. t = Now
            BY <2>2, <3>1, NoLines
        <3> DEFINE u == [entries |-> Flushed(t), current |-> <<>>, kernel |-> t.kernel]
        <3>3. Now' = u
            BY <3>1, <3>2 DEF Now, Flushed
        <3>4. Faithful(u)
            BY <2>2, StaysFaithful
        <3> HIDE DEF u
        <3>5. Leads(Now', trace', u)
            BY <3>1, <3>3, NoLines
        <3>6. Leads(Now, trace, u)'
            BY <3>5 DEF Leads, AreStates
        <3>7. Faithful(u)'
            BY <3>1, <3>4 DEF Faithful, running, EntriesOf, Single, IsSequence, Items, u
        <3>8. IsSequence(trace)' /\ IsSequence(entries)' /\ Single(current)'
            BY <2>1, <2>10, <2>12, <3>1 DEF IsSequence, Items
        <3> QED  BY <3>1, <3>6, <3>7, <3>8 DEF ParseInv, TraceIsFaithful
    <2> USE DEF parsing
    <2>19. CASE DisplayEntry      BY <2>5, <2>19 DEF DisplayEntry
    <2>20. CASE UpdateEntry       BY <2>5, <2>20 DEF UpdateEntry
    <2>21. CASE UNCHANGED vars    BY <2>5, <2>21 DEF vars
    <2> QED
        BY <2>7, <2>8, <2>9, <2>13, <2>14, <2>15, <2>16, <2>17, <2>18, <2>19, <2>20, <2>21
           DEF Next
<1> QED  BY <1>1, <1>2, RunInvariant, PTL DEF Spec

-----------------------------------------------------------------------------
(* What the viewer takes from the entry of an instruction.                 *)

\* The values of an entry are registers as they are after the instruction.
LEMMA ValueGiven ==
    ASSUME NEW x, IsExecution(x), NEW j, HasValue(EntryOf(x), j)
    PROVE  /\ x.active /\ j \in Nat /\ j + 1 \in DOMAIN Listed(x.instr)
           /\ ValueAt(EntryOf(x), j) = x.after[Listed(x.instr)[j + 1]]
           /\ ValueAt(EntryOf(x), j) \in Values
<1> DEFINE i == x.instr
           e == EntryOf(x)
           n == Len(Listed(i))
<1>1. /\ i \in Instructions /\ x.active \in BOOLEAN /\ x.after \in [Registers -> Values]
    BY DEF IsExecution
<1>2. /\ Listed(i) \in Seq(Registers) /\ n \in Nat /\ DOMAIN Listed(i) = 1 .. n
      /\ \A k \in 1 .. n : Listed(i)[k] \in Registers
    BY <1>1, ListedRegisters, LenProperties
<1>3. e.regs = GivenRegs(i, x.after, x.active, n)
    BY DEF EntryOf, Made, LastRegs
<1> HIDE DEF e, n
<1>4. j \in DOMAIN e.regs /\ e.regs[j] # {}
    BY DEF HasValue, e
<1>5. n # 0
    BY <1>3, <1>4, EmptyAndSingle DEF GivenRegs
<1>6. e.regs = [k \in 0 .. n - 1 |-> IF x.active THEN {x.after[Listed(i)[k + 1]]} ELSE {}]
    BY <1>3, <1>5 DEF GivenRegs
<1>7. j \in 0 .. n - 1 /\ e.regs[j] = {x.after[Listed(i)[j + 1]]} /\ x.active
    BY <1>1, <1>4, <1>6
<1>8. ValueAt(e, j) = x.after[Listed(i)[j + 1]]
    BY <1>7 DEF ValueAt
<1>9. j \in Nat /\ j + 1 \in 1 .. n
    BY <1>2, <1>7
<1>10. x.after[Listed(i)[j + 1]] \in Values
    BY <1>1, <1>2, <1>9
<1> QED  BY <1>2, <1>7, <1>8, <1>9, <1>10 DEF e

\* The registers of an instruction that the viewer takes for its destination.
LEMMA DestinationRegisters ==
    ASSUME NEW x, IsExecution(x)
    PROVE  /\ DOMAIN DstGprs(EntryOf(x)) \subseteq 1 .. 2
           /\ Range(DstGprs(EntryOf(x))) = Destinations(x.instr)
           /\ \A n \in DOMAIN DstGprs(EntryOf(x)) :
                 /\ DstIndex(n) \in Nat /\ DstIndex(n) + 1 \in DOMAIN Listed(x.instr)
                 /\ Listed(x.instr)[DstIndex(n) + 1] = DstGprs(EntryOf(x))[n]
<1> DEFINE i == x.instr
           e == EntryOf(x)
           first == Refs(i.operands)[1]
<1>1. i \in Instructions /\ e.instr = i /\ e.width = i.width /\ i.width \in {1, 2}
    BY InstructionsAssumption DEF IsExecution, EntryOf, Made
<1> HIDE DEF e
<1>2. CASE ~ (i.writes /\ Refs(i.operands) # <<>>)
    <2>1. DstGprs(e) = <<>> /\ Destinations(i) = {}
        BY <1>1, <1>2 DEF DstGprs, Destinations
    <2>2. DOMAIN <<>> = {} /\ Range(<<>>) = {}
        BY EmptyAndSingle DEF Range
    <2> QED  BY <2>1, <2>2 DEF e
<1>3. CASE i.writes /\ Refs(i.operands) # <<>>
    <2>1. Destinations(i) = {first + n : n \in 0 .. i.width - 1}
        BY <1>3 DEF Destinations
    <2>2. (IF e.width >= 2 THEN 2 ELSE 1) = i.width
        BY <1>1
    <2>3. DstGprs(e) = [n \in 1 .. i.width |-> first + n - 1]
        BY <1>1, <1>3, <2>2 DEF DstGprs
    <2>4. first \in Int
        <3>1. i.operands \in Seq(OperandTypes) /\ Registers \subseteq Int
            BY <1>1, InstructionsAssumption DEF OperandTypes
        <3>2. Refs(i.operands) \in Seq(Registers)
            BY <3>1, RefsOfOperands
        <3>3. 1 \in DOMAIN Refs(i.operands)
            BY <1>3, <3>2, SequenceIs, SequenceDomain
        <3>4. first \in Items(Refs(i.operands))
            BY <3>3 DEF Items
        <3> QED  BY <3>1, <3>2, <3>4, SequenceIs
    <2> HIDE DEF first
    <2>5. Destinations(i) # {}
        BY <1>1, <2>1
    <2>6. \A n \in 0 .. i.width - 1 :
             n + 1 \in DOMAIN Listed(i) /\ Listed(i)[n + 1] = first + n
        BY <1>1, <2>5, ListedRegisters DEF first
    <2>7. \A n \in 1 .. i.width :
             /\ n - 1 \in 0 .. i.width - 1 /\ first + n - 1 = first + (n - 1)
             /\ DstIndex(n) = n - 1 /\ n - 1 \in Nat
        BY <1>1, <2>4 DEF DstIndex
    <2>8. DOMAIN DstGprs(e) = 1 .. i.width /\ 1 .. i.width \subseteq 1 .. 2
        BY <1>1, <2>3
    <2>9. \A n \in 1 .. i.width : DstGprs(e)[n] = first + (n - 1)
        BY <2>3, <2>7
    <2>10. Range(DstGprs(e)) = Destinations(i)
        <3>1. \A n \in 0 .. i.width - 1 : n + 1 \in 1 .. i.width /\ (n + 1) - 1 = n
            BY <1>1
        <3>2. Range(DstGprs(e)) \subseteq Destinations(i)
            BY <2>1, <2>7, <2>8, <2>9 DEF Range
        <3>3. Destinations(i) \subseteq Range(DstGprs(e))
            BY <2>1, <2>8, <2>9, <3>1 DEF Range
        <3> QED  BY <3>2, <3>3
    <2>11. ASSUME NEW n \in DOMAIN DstGprs(e)
           PROVE  /\ DstIndex(n) \in Nat /\ DstIndex(n) + 1 \in DOMAIN Listed(i)
                  /\ Listed(i)[DstIndex(n) + 1] = DstGprs(e)[n]
        <3>1. n \in 1 .. i.width
            BY <2>8
        <3>2. DstIndex(n) \in 0 .. i.width - 1 /\ DstIndex(n) \in Nat
              /\ DstGprs(e)[n] = first + DstIndex(n)
            BY <2>7, <2>9, <3>1
        <3> QED  BY <2>6, <3>2
    <2> QED  BY <2>8, <2>10, <2>11 DEF e
<1> QED  BY <1>2, <1>3

\* A destination of an instruction that took effect ends as it was left.
LEMMA DestinationLearned ==
    ASSUME NEW x, IsExecution(x), x.active, NEW k, NEW r \in Destinations(x.instr)
    PROVE  AfterDestinations(EntryOf(x), k)[r] = x.after[r]
<1> DEFINE e == EntryOf(x)
           i == x.instr
           P == DestinationPlaces(e, r)
<1>1. r \in Registers /\ i \in Instructions
    BY InstructionsAssumption DEF IsExecution
<1>2. /\ DOMAIN DstGprs(e) \subseteq 1 .. 2 /\ Range(DstGprs(e)) = Destinations(i)
      /\ \A n \in DOMAIN DstGprs(e) :
            /\ DstIndex(n) \in Nat /\ DstIndex(n) + 1 \in DOMAIN Listed(i)
            /\ Listed(i)[DstIndex(n) + 1] = DstGprs(e)[n]
    BY DestinationRegisters
<1>3. PICK n \in DOMAIN DstGprs(e) : DstGprs(e)[n] = r
    BY <1>2 DEF Range
<1>4. HasValue(e, DstIndex(n))
    <2> DEFINE m == Len(Listed(i))
    <2>1. m \in Nat /\ DOMAIN Listed(i) = 1 .. m
        BY <1>1, ListedRegisters, LenProperties
    <2>2. e.regs = GivenRegs(i, x.after, x.active, m)
        BY DEF EntryOf, Made, LastRegs
    <2> HIDE DEF m, e
    <2>3. DstIndex(n) \in Nat /\ DstIndex(n) + 1 \in 1 .. m
        BY <1>2, <2>1
    <2>4. m # 0 /\ DstIndex(n) \in 0 .. m - 1
        BY <2>1, <2>3
    <2>5. e.regs = [j \in 0 .. m - 1 |-> {x.after[Listed(i)[j + 1]]}]
        BY <2>2, <2>4 DEF GivenRegs
    <2>6. DstIndex(n) \in DOMAIN e.regs /\ e.regs[DstIndex(n)] # {}
        BY <2>4, <2>5
    <2> QED  BY <2>6 DEF HasValue
<1> HIDE DEF e
<1>5. n \in P
    BY <1>3, <1>4 DEF DestinationPlaces
<1>6. P \subseteq 0 .. 2
    <2>1. P \subseteq DOMAIN DstGprs(e)
        BY DEF DestinationPlaces
    <2> QED  BY <1>2, <2>1
<1>7. Max(P) \in P
    BY <1>5, <1>6, MaxMember
<1>8. /\ Max(P) \in DOMAIN DstGprs(e) /\ DstGprs(e)[Max(P)] = r
      /\ HasValue(e, DstIndex(Max(P)))
    BY <1>7 DEF DestinationPlaces
<1>9. ValueAt(e, DstIndex(Max(P))) = x.after[Listed(i)[DstIndex(Max(P)) + 1]]
    BY <1>8, ValueGiven DEF e
<1>10. Listed(i)[DstIndex(Max(P)) + 1] = r
    BY <1>2, <1>8
<1>11. AfterDestinations(e, k)[r] = ValueAt(e, DstIndex(Max(P)))
    BY <1>1, <1>5 DEF AfterDestinations
<1> QED  BY <1>9, <1>10, <1>11 DEF e

\* The registers that the viewer takes for the sources are named by the
\* instruction.
LEMMA SourceRegisters ==
    ASSUME NEW x, IsExecution(x)
    PROVE  /\ IsSequence(SrcOrdered(EntryOf(x)))
           /\ Range(SrcOrdered(EntryOf(x))) \subseteq Range(Refs(x.instr.operands))
<1> DEFINE e == EntryOf(x)
           i == x.instr
           ops  == IF i.guarded \/ Len(i.operands) <= 1 THEN i.operands
                   ELSE Tail(i.operands)
           refs == Refs(ops)
<1>1. i.operands \in Seq(OperandTypes) /\ e.instr = i
    BY InstructionsAssumption DEF IsExecution, OperandTypes, EntryOf, Made
<1>2. refs \in Seq(Registers) /\ Range(refs) \subseteq Range(Refs(i.operands))
    <2>1. CASE i.guarded \/ Len(i.operands) <= 1
        BY <1>1, <2>1, RefsOfOperands
    <2>2. CASE ~ (i.guarded \/ Len(i.operands) <= 1)
        <3>1. i.operands # <<>>
            BY <2>2, EmptyAndSingle
        <3>2. ops = Tail(i.operands)
            BY <2>2
        <3> QED  BY <1>1, <3>1, <3>2, RefsOfTail
    <2> QED  BY <2>1, <2>2
<1> HIDE DEF ops, e
<1>3. SrcOrdered(e) = IF i.writes /\ refs # <<>> THEN Tail(refs) ELSE refs
    BY <1>1 DEF SrcOrdered, ops
<1> HIDE DEF refs
<1>4. IsSequence(refs)
    BY <1>2, SequenceIs
<1>5. IsSequence(SrcOrdered(e)) /\ Range(SrcOrdered(e)) \subseteq Range(refs)
    <2>1. CASE i.writes /\ refs # <<>>
        <3>1. /\ IsSequence(Tail(refs))
              /\ DOMAIN Tail(refs) = 1 .. Len(refs) - 1 /\ Len(refs) \in Nat
              /\ \A j \in 1 .. Len(refs) - 1 : Tail(refs)[j] = refs[j + 1]
              /\ DOMAIN refs = 1 .. Len(refs)
            BY <1>4, <2>1, TailItems, SequenceDomain
        <3>2. \A j \in 1 .. Len(refs) - 1 : j + 1 \in 1 .. Len(refs)
            BY <3>1
        <3>3. SrcOrdered(e) = Tail(refs)
            BY <1>3, <2>1
        <3> QED  BY <3>1, <3>2, <3>3 DEF Range
    <2>2. CASE ~ (i.writes /\ refs # <<>>)
        BY <1>3, <1>4, <2>2
    <2> QED  BY <2>1, <2>2
<1> QED  BY <1>2, <1>5 DEF e

\* A register that the instruction neither names nor writes stays as it is.
LEMMA OthersStay ==
    ASSUME NEW x, IsExecution(x), NEW k, NEW r \in Registers,
           r \notin Range(Refs(x.instr.operands)),
           ~ (x.active /\ r \in Destinations(x.instr))
    PROVE  AfterDestinations(EntryOf(x), AfterSources(EntryOf(x), k))[r] = k[r]
<1> DEFINE e == EntryOf(x)
           i == x.instr
<1>1. Range(DstGprs(e)) = Destinations(i)
    BY DestinationRegisters
<1>2. \A j : HasValue(e, j) => x.active
    BY ValueGiven
<1> HIDE DEF e
<1>3. DestinationPlaces(e, r) = {}
    BY <1>1, <1>2 DEF DestinationPlaces, Range
<1>4. SourcePlaces(e, r) = {}
    <2>1. r \notin Range(SrcOrdered(e))
        BY SourceRegisters DEF e
    <2> QED  BY <2>1 DEF SourcePlaces, Range
<1> QED  BY <1>3, <1>4 DEF AfterDestinations, AfterSources, e

\* What is known after an entry is of the types of what was known before.
LEMMA KnownTypes ==
    ASSUME NEW x, IsExecution(x), NEW k \in [Registers -> Values \cup {Unknown}]
    PROVE  AfterDestinations(EntryOf(x), AfterSources(EntryOf(x), k))
                \in [Registers -> Values \cup {Unknown}]
<1> DEFINE e == EntryOf(x)
           d == AfterDestinations(e, AfterSources(e, k))
           V == Values \cup {Unknown}
<1>1. \A j : HasValue(e, j) => ValueAt(e, j) \in Values
    BY ValueGiven
<1>2. DOMAIN DstGprs(e) \subseteq 0 .. 2
    <2>1. DOMAIN DstGprs(e) \subseteq 1 .. 2
        BY DestinationRegisters
    <2> QED  BY <2>1
<1>3. \E m \in Nat : DOMAIN SrcOrdered(e) \subseteq 0 .. m
    <2>1. Len(SrcOrdered(e)) \in Nat /\ DOMAIN SrcOrdered(e) = 1 .. Len(SrcOrdered(e))
        BY SourceRegisters, SequenceDomain
    <2>2. \A m \in Nat : 1 .. m \subseteq 0 .. m
        OBVIOUS
    <2> QED  BY <2>1, <2>2
<1> HIDE DEF e
<1>4. ASSUME NEW r \in Registers
      PROVE  AfterSources(e, k)[r] \in V
    <2>1. CASE SourcePlaces(e, r) = {}
        BY <2>1 DEF AfterSources
    <2>2. CASE SourcePlaces(e, r) # {}
        <3>1. PICK m \in Nat : SourcePlaces(e, r) \subseteq 0 .. m
            BY <1>3 DEF SourcePlaces
        <3>2. Max(SourcePlaces(e, r)) \in SourcePlaces(e, r)
            BY <2>2, <3>1, MaxMember
        <3>3. HasValue(e, RegIndex(e, Max(SourcePlaces(e, r))))
            BY <3>2 DEF SourcePlaces
        <3> QED  BY <1>1, <2>2, <3>3 DEF AfterSources
    <2> QED  BY <2>1, <2>2
<1>5. ASSUME NEW r \in Registers
      PROVE  d[r] \in V
    <2>1. CASE DestinationPlaces(e, r) = {}
        BY <1>4, <2>1 DEF AfterDestinations
    <2>2. CASE DestinationPlaces(e, r) # {}
        <3>1. DestinationPlaces(e, r) \subseteq 0 .. 2
            BY <1>2 DEF DestinationPlaces
        <3>2. Max(DestinationPlaces(e, r)) \in DestinationPlaces(e, r)
            BY <2>2, <3>1, MaxMember
        <3>3. HasValue(e, DstIndex(Max(DestinationPlaces(e, r))))
            BY <3>2 DEF DestinationPlaces
        <3> QED  BY <1>1, <2>2, <3>3 DEF AfterDestinations
    <2> QED  BY <2>1, <2>2
<1>6. d = [r \in Registers |-> d[r]]
    BY DEF AfterDestinations
<1> HIDE DEF d
<1>7. d \in [Registers -> V]
    BY <1>5, <1>6
<1> QED  BY <1>7 DEF d, e

-----------------------------------------------------------------------------
(* The viewer's own invariant.                                             *)

ViewTypes ==
    /\ phase # "view" => count = 0 /\ shown = <<>>
    /\ count \in 0 .. Len(entries)
    /\ known \in [Warps -> [Registers -> Values \cup {Unknown}]]
    /\ IsSequence(shown) /\ \A n \in DOMAIN shown : shown[n].at \in 1 .. count

ViewInv == ViewTypes /\ WrittenIsKnown /\ ShownDestinations

\* The file read, the entries are those of the instructions.
LEMMA EntriesAreMade ==
    ASSUME ParseInv, phase = "view"
    PROVE  entries = EntriesOf(executed) /\ Len(entries) = Len(executed)
<1>1. trace = <<>> /\ current = <<>> /\ IsSequence(entries)
    BY DEF ParseInv
<1>2. PICK t : Leads(Now, trace, t) /\ Faithful(t)
    BY DEF ParseInv, TraceIsFaithful
<1>3. t = Now
    BY <1>1, <1>2, NoLines
<1>4. Flushed(Now) = entries \o <<>>
    BY <1>1 DEF Now, Flushed
<1>5. entries \o <<>> = entries
    BY <1>1, EmptyAndSingle, ConcatItems
<1>6. entries = EntriesOf(executed)
    BY <1>2, <1>3, <1>4, <1>5 DEF Faithful
<1> QED  BY <1>6 DEF EntriesOf

\* The last write before an entry and after it.
LEMMA LastWriteStep ==
    ASSUME NEW c \in Nat, count = c, count' = c + 1, executed' = executed,
           NEW w \in Warps, NEW r \in Registers
    PROVE  LET x == executed[c + 1]
               writes == x.warp = w /\ x.active /\ r \in Destinations(x.instr)
           IN  /\ writes => LastWrite(w, r)' = c + 1
               /\ ~ writes => LastWrite(w, r)' = LastWrite(w, r)
               /\ LastWrite(w, r) \in 0 .. c
<1> DEFINE Wr(n) == /\ executed[n].warp = w /\ executed[n].active
                    /\ r \in Destinations(executed[n].instr)
           Places(m) == {0} \cup {n \in 1 .. m : Wr(n)}
<1>1. LastWrite(w, r) = Max(Places(c)) /\ LastWrite(w, r)' = Max(Places(c + 1))
    BY DEF LastWrite
<1>2. /\ c + 1 \in Nat /\ c + 1 \in 1 .. c + 1 /\ c + 1 # 0
      /\ \A n : n \in 1 .. c + 1 <=> n \in 1 .. c \/ n = c + 1
      /\ 1 .. c \subseteq 0 .. c /\ 1 .. c + 1 \subseteq 0 .. c + 1
      /\ 0 \in 0 .. c /\ 0 \in 0 .. c + 1
    OBVIOUS
<1> HIDE DEF Wr
<1>3. Max(Places(c)) \in 0 .. c
    <2>1. Places(c) \subseteq 0 .. c /\ Places(c) # {}
        BY <1>2
    <2> HIDE DEF Places
    <2> QED  BY <2>1, MaxMember
<1>4. ASSUME Wr(c + 1)
      PROVE  Max(Places(c + 1)) = c + 1
    <2>1. Places(c + 1) \subseteq 0 .. c + 1 /\ c + 1 \in Places(c + 1)
        BY <1>2, <1>4
    <2> HIDE DEF Places
    <2>2. Max(Places(c + 1)) \in 0 .. c + 1 /\ c + 1 <= Max(Places(c + 1))
        BY <1>2, <2>1, MaxMember
    <2> QED  BY <2>2
<1>5. ASSUME ~ Wr(c + 1)
      PROVE  Places(c + 1) = Places(c)
    BY <1>2, <1>5
<1> QED  BY <1>1, <1>3, <1>4, <1>5 DEF Wr

\* Going through an entry, whether it is shown or not.
LEMMA WrittenStaysKnown ==
    ASSUME RunInv, ParseInv, ViewTypes, WrittenIsKnown, phase = "view",
           count + 1 \in DOMAIN entries, count' = count + 1, executed' = executed,
           LET e == entries[count + 1]
           IN  known' = [known EXCEPT ![e.warp] =
                            AfterDestinations(e, AfterSources(e, known[e.warp]))]
    PROVE  /\ WrittenIsKnown'
           /\ known' \in [Warps -> [Registers -> Values \cup {Unknown}]]
           /\ count + 1 \in 1 .. Len(entries)
           /\ IsExecution(executed[count + 1])
           /\ entries[count + 1] = EntryOf(executed[count + 1])
<1> DEFINE c == count
           x == executed[c + 1]
           e == entries[c + 1]
           k == known[e.warp]
           d == AfterDestinations(e, AfterSources(e, k))
<1>1. entries = EntriesOf(executed) /\ Len(entries) = Len(executed)
    BY EntriesAreMade
<1>2. /\ IsSequence(executed) /\ IsSequence(entries)
      /\ \A n \in DOMAIN executed : IsExecution(executed[n])
    BY DEF RunInv, ParseInv
<1>3. c \in Nat /\ c + 1 \in 1 .. Len(entries) /\ c + 1 \in DOMAIN executed
    <2>1. Len(entries) \in Nat /\ DOMAIN entries = 1 .. Len(entries)
        BY <1>2, SequenceDomain
    <2>2. DOMAIN entries = DOMAIN executed
        BY <1>1 DEF EntriesOf
    <2> QED  BY <2>1, <2>2 DEF ViewTypes
<1>4. e = EntryOf(x) /\ IsExecution(x)
    BY <1>1, <1>2, <1>3 DEF EntriesOf
<1>5. e.warp = x.warp /\ x.warp \in Warps
    BY <1>4 DEF EntryOf, Made, IsExecution
<1>6. known \in [Warps -> [Registers -> Values \cup {Unknown}]]
    BY DEF ViewTypes
<1>7. k \in [Registers -> Values \cup {Unknown}]
    BY <1>5, <1>6
<1>8. known' = [known EXCEPT ![x.warp] = d]
    BY <1>5
<1>9. d \in [Registers -> Values \cup {Unknown}]
    BY <1>4, <1>7, KnownTypes
<1> HIDE DEF d, x, e
<1>10. known' \in [Warps -> [Registers -> Values \cup {Unknown}]]
    BY <1>6, <1>8, <1>9
<1>11. /\ known'[x.warp] = d
       /\ \A w \in Warps : w # x.warp => known'[w] = known[w]
    BY <1>5, <1>6, <1>8
<1>12. ASSUME NEW w \in Warps, NEW r \in Registers
       PROVE  LET n == LastWrite(w, r)'
              IN  n > 0 /\ (\A m \in n + 1 .. c + 1 :
                               executed[m].warp = w =>
                                   r \notin Range(Refs(executed[m].instr.operands)))
                    => known'[w][r] = executed[n].after[r]
    <2> DEFINE writes == x.warp = w /\ x.active /\ r \in Destinations(x.instr)
               n == LastWrite(w, r)
               Untouched(a, b) ==
                   \A m \in a + 1 .. b :
                       executed[m].warp = w =>
                           r \notin Range(Refs(executed[m].instr.operands))
    <2>1. /\ writes => LastWrite(w, r)' = c + 1
          /\ ~ writes => LastWrite(w, r)' = n
          /\ n \in 0 .. c
        BY <1>3, LastWriteStep DEF x
    <2>2. n > 0 /\ Untouched(n, c) => known[w][r] = executed[n].after[r]
        BY DEF WrittenIsKnown
    <2>3. CASE writes
        <3>1. d[r] = x.after[r]
            BY <1>4, <2>3, DestinationLearned DEF d
        <3> QED  BY <1>11, <2>1, <2>3, <3>1 DEF x
    <2>4. CASE ~ writes
        <3> HIDE DEF n
        <3> SUFFICES ASSUME n > 0, Untouched(n, c + 1)
                     PROVE  known'[w][r] = executed[n].after[r]
            BY <2>1, <2>4
        <3>1. /\ n + 1 .. c \subseteq n + 1 .. c + 1
              /\ c + 1 \in n + 1 .. c + 1
            BY <1>3, <2>1
        <3>2. Untouched(n, c)
            BY <3>1
        <3>3. known[w][r] = executed[n].after[r]
            BY <2>2, <3>2
        <3>4. CASE x.warp = w
            <4>1. r \notin Range(Refs(x.instr.operands))
                BY <3>1, <3>4 DEF x
            <4>2. ~ (x.active /\ r \in Destinations(x.instr))
                BY <2>4, <3>4
            <4>3. d[r] = k[r]
                BY <1>4, <4>1, <4>2, OthersStay DEF d
            <4> QED  BY <1>5, <1>11, <3>3, <3>4, <4>3
        <3>5. CASE x.warp # w
            BY <1>11, <3>3, <3>5
        <3> QED  BY <3>4, <3>5
    <2> QED  BY <2>3, <2>4
<1>13. WrittenIsKnown'
    BY <1>12 DEF WrittenIsKnown
<1> QED  BY <1>3, <1>4, <1>10, <1>13 DEF x, e

LEMMA ViewInvariant == Spec => []ViewInv
<1>1. Init => ViewInv
    <2> SUFFICES ASSUME Init PROVE ViewInv
        OBVIOUS
    <2>1. count = 0 /\ shown = <<>> /\ entries = <<>>
          /\ known = [w \in Warps |-> [r \in Registers |-> Unknown]]
        BY DEF Init
    <2>2. ViewTypes
        BY <2>1, EmptyAndSingle DEF ViewTypes
    <2>3. WrittenIsKnown
        <3> SUFFICES ASSUME NEW w \in Warps, NEW r \in Registers
                     PROVE  ~ (LastWrite(w, r) > 0)
            BY DEF WrittenIsKnown
        <3> DEFINE P == {n \in 1 .. count : /\ executed[n].warp = w /\ executed[n].active
                                            /\ r \in Destinations(executed[n].instr)}
        <3>1. P = {}
            BY <2>1
        <3> HIDE DEF P
        <3>2. {0} \cup P \subseteq 0 .. 0 /\ {0} \cup P # {}
            BY <3>1
        <3>3. Max({0} \cup P) \in 0 .. 0
            BY <3>2, MaxMember
        <3> QED  BY <3>3 DEF LastWrite, P
    <2>4. ShownDestinations
        BY <2>1, EmptyAndSingle DEF ShownDestinations
    <2> QED  BY <2>2, <2>3, <2>4 DEF ViewInv
<1>2. RunInv /\ ParseInv /\ ParseInv' /\ ViewInv /\ [Next]_vars => ViewInv'
    <2> SUFFICES ASSUME RunInv, ParseInv, ParseInv', ViewInv, [Next]_vars PROVE ViewInv'
        OBVIOUS
    <2>1. ViewTypes /\ WrittenIsKnown /\ ShownDestinations
        BY DEF ViewInv
    \* Nothing is shown while there is nothing but the trace.
    <2>2. ASSUME phase # "view", UNCHANGED viewing
          PROVE  ViewInv'
        <3>1. count = 0 /\ shown = <<>> /\ count' = 0 /\ shown' = <<>> /\ known' = known
            BY <2>1, <2>2 DEF ViewTypes, viewing
        <3>2. IsSequence(entries')
            <4>1. IsSequence(entries)'
                BY DEF ParseInv
            <4> QED  BY <4>1 DEF IsSequence, Items
        <3>3. Len(entries') \in Nat
            BY <3>2, SequenceDomain
        <3>4. IsSequence(shown)' /\ DOMAIN shown' = {}
            BY <3>1, EmptyAndSingle DEF IsSequence, Items
        <3>5. ViewTypes'
            BY <2>1, <3>1, <3>3, <3>4 DEF ViewTypes
        <3>6. WrittenIsKnown'
            <4> SUFFICES ASSUME NEW w \in Warps, NEW r \in Registers
                         PROVE  ~ (LastWrite(w, r)' > 0)
                BY DEF WrittenIsKnown
            <4> DEFINE P == {n \in 1 .. count' :
                                /\ executed'[n].warp = w /\ executed'[n].active
                                /\ r \in Destinations(executed'[n].instr)}
            <4>1. P = {}
                BY <3>1
            <4>2. LastWrite(w, r)' = Max({0} \cup P)
                BY DEF LastWrite
            <4> HIDE DEF P
            <4>3. {0} \cup P \subseteq 0 .. 0 /\ {0} \cup P # {}
                BY <4>1
            <4>4. Max({0} \cup P) \in 0 .. 0
                BY <4>3, MaxMember
            <4> QED  BY <4>2, <4>4
        <3>7. ShownDestinations'
            BY <3>4 DEF ShownDestinations
        <3> QED  BY <3>5, <3>6, <3>7 DEF ViewInv
    <2>3. ASSUME UNCHANGED vars
          PROVE  ViewInv'
        <3>1. /\ phase' = phase /\ count' = count /\ shown' = shown /\ entries' = entries
              /\ known' = known /\ executed' = executed
            BY <2>3 DEF vars, running, parsing, viewing
        <3>2. ViewTypes'
            BY <2>1, <3>1 DEF ViewTypes, IsSequence, Items
        <3>3. WrittenIsKnown'
            BY <2>1, <3>1 DEF WrittenIsKnown, LastWrite
        <3>4. ShownDestinations'
            BY <2>1, <3>1 DEF ShownDestinations
        <3> QED  BY <3>2, <3>3, <3>4 DEF ViewInv
    <2>4. ASSUME phase = "view", phase' = phase, count + 1 \in DOMAIN entries,
                 count' = count + 1, executed' = executed, entries' = entries,
                 LET e == entries[count + 1]
                 IN  known' = [known EXCEPT ![e.warp] =
                                  AfterDestinations(e, AfterSources(e, known[e.warp]))],
                 IsSequence(shown)', \A n \in DOMAIN shown' : shown'[n].at \in 1 .. count + 1,
                 ShownDestinations'
          PROVE  ViewInv'
        <3>1. /\ WrittenIsKnown'
              /\ known' \in [Warps -> [Registers -> Values \cup {Unknown}]]
              /\ count + 1 \in 1 .. Len(entries)
            BY <2>1, <2>4, WrittenStaysKnown
        <3>2. count + 1 \in 0 .. Len(entries)
            BY <2>1, <3>1 DEF ViewTypes
        <3>3. ViewTypes'
            BY <2>4, <3>1, <3>2 DEF ViewTypes
        <3> QED  BY <2>4, <3>1, <3>3 DEF ViewInv
    <2>5. \A a : a \in 1 .. count => a \in 1 .. count + 1
        BY <2>1 DEF ViewTypes
    <2>6. CASE DisplayEntry
        <3> DEFINE e == entries[count + 1]
                   x == executed[count + 1]
                   k == known[e.warp]
                   d == DisplayState(e, k)
                   s == [at |-> count + 1, before |-> Before(e, k),
                         after |-> [r \in DOMAIN Before(e, k) |-> d[r]]]
        <3>1. /\ phase = "view" /\ phase' = phase /\ count + 1 \in DOMAIN entries
              /\ count' = count + 1 /\ executed' = executed /\ entries' = entries
              /\ known' = [known EXCEPT ![e.warp] = d]
              /\ shown' = Append(shown, s)
            BY <2>6 DEF DisplayEntry, running, parsing
        <3>2. d = AfterDestinations(e, AfterSources(e, k))
            BY DEF DisplayState
        <3>3. IsExecution(x) /\ e = EntryOf(x) /\ count + 1 \in 1 .. Len(entries)
            BY <2>1, <3>1, <3>2, WrittenStaysKnown
        <3>4. s.at = count + 1 /\ \A r \in DOMAIN Before(e, k) : s.after[r] = d[r]
            OBVIOUS
        <3>5. \A r \in Destinations(x.instr) : r \in DOMAIN Before(e, k)
            <4>1. Range(DstGprs(e)) = Destinations(x.instr)
                BY <3>3, DestinationRegisters
            <4> QED  BY <4>1 DEF Before
        <3>6. x.active => \A r \in Destinations(x.instr) : s.after[r] = x.after[r]
            BY <3>2, <3>3, <3>4, <3>5, DestinationLearned
        <3> HIDE DEF s, x, e
        <3>7. IsSequence(shown) /\ \A n \in DOMAIN shown : shown[n].at \in 1 .. count
            BY <2>1 DEF ViewTypes
        <3>8. /\ IsSequence(shown') /\ DOMAIN shown' = 1 .. Len(shown) + 1
              /\ DOMAIN shown = 1 .. Len(shown) /\ Len(shown) \in Nat
              /\ \A n \in DOMAIN shown : shown'[n] = shown[n]
              /\ shown'[Len(shown) + 1] = s
            BY <3>1, <3>7, AppendItem
        <3>9. \A n \in DOMAIN shown' : n \in DOMAIN shown \/ n = Len(shown) + 1
            BY <3>8
        <3>10. \A n \in DOMAIN shown' : shown'[n].at \in 1 .. count + 1
            <4>1. count + 1 \in 1 .. count + 1
                BY <2>1 DEF ViewTypes
            <4> QED  BY <2>5, <3>4, <3>7, <3>8, <3>9, <4>1
        <3>11. ShownDestinations'
            <4> SUFFICES ASSUME NEW n \in DOMAIN shown', executed[shown'[n].at].active,
                                NEW r \in Destinations(executed[shown'[n].at].instr)
                         PROVE  shown'[n].after[r] = executed[shown'[n].at].after[r]
                BY <3>1 DEF ShownDestinations
            <4>1. CASE n \in DOMAIN shown
                BY <2>1, <3>8, <4>1 DEF ShownDestinations
            <4>2. CASE n = Len(shown) + 1
                BY <3>4, <3>6, <3>8, <4>2 DEF x
            <4> QED  BY <3>9, <4>1, <4>2
        <3>12. IsSequence(shown)'
            BY <3>8 DEF IsSequence, Items
        <3> QED  BY <2>4, <3>1, <3>2, <3>10, <3>11, <3>12 DEF e
    <2>7. CASE UpdateEntry
        <3>1. /\ phase = "view" /\ phase' = phase /\ count + 1 \in DOMAIN entries
              /\ count' = count + 1 /\ executed' = executed /\ entries' = entries
              /\ shown' = shown
              /\ LET e == entries[count + 1]
                 IN  known' = [known EXCEPT ![e.warp] = UpdateState(e, known[e.warp])]
            BY <2>7 DEF UpdateEntry, running, parsing
        <3>2. ShownDestinations'
            BY <2>1, <3>1 DEF ShownDestinations
        <3>3. IsSequence(shown)' /\ \A n \in DOMAIN shown' : shown'[n].at \in 1 .. count + 1
            BY <2>1, <2>5, <3>1 DEF ViewTypes, IsSequence, Items
        <3> QED  BY <2>4, <3>1, <3>2, <3>3 DEF UpdateState
    <2>8. CASE Launch             BY <2>2, <2>8 DEF Launch
    <2>9. CASE FinishRun          BY <2>2, <2>9 DEF FinishRun
    <2>10. CASE \E w \in Warps, i \in Instructions : RunInstr(w, i)
        BY <2>2, <2>10 DEF RunInstr
    <2>11. CASE ReadBlank         BY <2>2, <2>11 DEF ReadBlank, Reading
    <2>12. CASE ReadKernel        BY <2>2, <2>12 DEF ReadKernel, Reading
    <2>13. CASE ReadHeader        BY <2>2, <2>13 DEF ReadHeader, Reading
    <2>14. CASE ReadWidth         BY <2>2, <2>14 DEF ReadWidth, Reading
    <2>15. CASE ReadReg           BY <2>2, <2>15 DEF ReadReg, Reading
    <2>16. CASE EndOfFile         BY <2>2, <2>16 DEF EndOfFile
    <2> QED
        BY <2>3, <2>6, <2>7, <2>8, <2>9, <2>10, <2>11, <2>12, <2>13, <2>14, <2>15, <2>16
           DEF Next
<1> QED  BY <1>1, <1>2, RunInvariant, ParseInvariant, PTL DEF Spec

\* Every value has its type: at most one entry is open, the viewer never goes
\* past the last entry, and what it shows it has gone through.
THEOREM TypesAreCorrect == Spec => []TypeOK
<1>1. RunInv /\ ParseInv /\ ViewInv => TypeOK
    <2> SUFFICES ASSUME RunInv, ParseInv, ViewInv PROVE TypeOK
        OBVIOUS
    <2>1. Len(current) <= 1
        <3>1. Single(current)
            BY DEF ParseInv
        <3>2. Len(current) = 0 \/ Len(current) = 1
            BY <3>1, EmptyAndSingle DEF Single
        <3>3. \A a : a = 0 \/ a = 1 => a <= 1
            OBVIOUS
        <3> QED  BY <3>2, <3>3
    <2> QED  BY <2>1 DEF RunInv, ViewInv, ViewTypes, TypeOK
<1> QED  BY <1>1, RunInvariant, ParseInvariant, ViewInvariant, PTL

\* parse_trace: the entries are those of the instructions, with the values
\* that were in their registers, however the entries are separated.
THEOREM ParsingIsFaithful == Spec => []EntriesAreExecuted
<1>1. RunInv /\ ParseInv => EntriesAreExecuted
    <2> SUFFICES ASSUME RunInv, ParseInv, phase = "view",
                        NEW n \in DOMAIN entries
                 PROVE  LET e == entries[n]
                            x == executed[n]
                        IN  /\ e.warp = x.warp /\ e.instr = x.instr
                            /\ e.width = x.instr.width
                            /\ DOMAIN e.regs = 0 .. Len(Listed(x.instr)) - 1
                            /\ \A k \in DOMAIN e.regs :
                                  e.regs[k] =
                                      IF x.active THEN {x.after[Listed(x.instr)[k + 1]]}
                                      ELSE {}
        BY EntriesAreMade DEF EntriesAreExecuted
    <2> DEFINE x == executed[n]
               e == entries[n]
               m == Len(Listed(x.instr))
    <2>1. entries = EntriesOf(executed)
        BY EntriesAreMade
    <2>2. n \in DOMAIN executed /\ e = EntryOf(x)
        BY <2>1 DEF EntriesOf
    <2>3. IsExecution(x)
        BY <2>2 DEF RunInv
    <2>4. m \in Nat
        BY <2>3, ListedRegisters, LenProperties DEF IsExecution
    <2> HIDE DEF x, e
    <2>5. /\ e.warp = x.warp /\ e.instr = x.instr /\ e.width = x.instr.width
          /\ e.regs = GivenRegs(x.instr, x.after, x.active, m)
        BY <2>2 DEF EntryOf, Made, LastRegs
    <2> HIDE DEF m
    <2>6. /\ DOMAIN e.regs = 0 .. m - 1
          /\ \A k \in DOMAIN e.regs :
                e.regs[k] = IF x.active THEN {x.after[Listed(x.instr)[k + 1]]} ELSE {}
        <3>1. CASE m = 0
            <4>1. e.regs = <<>>
                BY <2>5, <3>1 DEF GivenRegs
            <4>2. 0 .. m - 1 = {}
                BY <3>1
            <4> QED  BY <4>1, <4>2, EmptyAndSingle
        <3>2. CASE m # 0
            BY <2>5, <3>2 DEF GivenRegs
        <3> QED  BY <3>1, <3>2
    <2> QED  BY <2>5, <2>6 DEF x, e, m
<1> QED  BY <1>1, RunInvariant, ParseInvariant, PTL

\* What the viewer believes of a register an instruction has written is what
\* that instruction left, until another one of the warp names the register.
THEOREM WritesAreKnown == Spec => []WrittenIsKnown
<1>1. ViewInv => WrittenIsKnown
    BY DEF ViewInv
<1> QED  BY <1>1, ViewInvariant, PTL

\* What is printed for a destination after an instruction is what the
\* instruction wrote there.
THEOREM DestinationsAreShown == Spec => []ShownDestinations
<1>1. ViewInv => ShownDestinations
    BY DEF ViewInv
<1> QED  BY <1>1, ViewInvariant, PTL
=============================================================================
