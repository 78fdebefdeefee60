-------------------------- MODULE CfgBuilder_proofs --------------------------
(***************************************************************************)
(* The graph of every function is its control flow: no move that an        *)
(* instruction allows is lost and, unless a branch is guarded by @PT, none *)
(* is added; a two-way block lists its branch target first.                *)
(*                                                                         *)
(* The invariant: the blocks are those of Partition, and those before      *)
(* `next` have the edges that their last instruction asks for.             *)
(***************************************************************************)
EXTENDS GraphComparison, Lemmas

-----------------------------------------------------------------------------
(* The passes.                                                             *)

LEMMA ProgramsAre ==
    ASSUME NEW f \in Programs
    PROVE  IsProgram(f)
<1>1. /\ f # <<>> /\ f \in Seq(Range(f))
      /\ \A i \in DOMAIN f : /\ f[i].targets \in Seq(0 .. Len(f))
                             /\ IsIndirect(f[i]) \/ Len(f[i].targets) <= 1
    BY ProgramsAssumption
<1>2. IsSequence(f)
    BY <1>1, SequenceIs
<1>3. \A i \in DOMAIN f :
         IsSequence(f[i].targets) /\ Items(f[i].targets) \subseteq 0 .. Len(f)
    BY <1>1, SequenceIs
<1> QED  BY <1>1, <1>2, <1>3 DEF IsProgram

\* Pass 4 goes through the graphs of BuildCfg.
OnTheWay ==
    LET n == Cardinality(DOMAIN Partition(instrs, Leaders(instrs)))
    IN  \A g : AreWirings(g, instrs, n) => blocks = g[next]

Inv ==
    /\ instrs \in Programs /\ next \in Nat
    /\ pass \in {"leaders", "blocks", "edges", "done"}
    /\ leaders = IF pass = "leaders" THEN {} ELSE Leaders(instrs)
    /\ pass \in {"leaders", "blocks"} => blocks = <<>> /\ next = 0
    /\ pass \in {"edges", "done"} =>
          /\ WiredUpTo(blocks, instrs, next)
          /\ DOMAIN blocks = DOMAIN Partition(instrs, leaders)
          /\ OnTheWay
    /\ pass = "edges" => next \in DOMAIN blocks
    /\ pass = "done" => next = Cardinality(DOMAIN blocks)

LEMMA Invariant == Spec => []Inv
<1>1. Init => Inv
    BY DEF Init, Inv
<1>2. Inv /\ [Next]_vars => Inv'
    <2> SUFFICES ASSUME Inv, [Next]_vars PROVE Inv'
        OBVIOUS
    <2>1. /\ instrs \in Programs /\ next \in Nat
          /\ pass \in {"leaders", "blocks", "edges", "done"}
          /\ leaders = IF pass = "leaders" THEN {} ELSE Leaders(instrs)
          /\ pass \in {"leaders", "blocks"} => blocks = <<>> /\ next = 0
          /\ pass \in {"edges", "done"} =>
                /\ WiredUpTo(blocks, instrs, next)
                /\ DOMAIN blocks = DOMAIN Partition(instrs, leaders)
                /\ OnTheWay
        BY DEF Inv
    <2> DEFINE p == Partition(instrs, Leaders(instrs))
               n == Cardinality(DOMAIN p)
    <2>2. IsProgram(instrs) /\ WiredUpTo(p, instrs, 0)
        BY <2>1, ProgramsAre, PartitionWired
    <2>3. n \in Nat \ {0} /\ DOMAIN p = 0 .. n - 1
        <3>1. AreBlocks(p, instrs, Leaders(instrs))
            BY <2>2 DEF WiredUpTo
        <3> QED  BY <3>1, BlockCount
    <2>4. OnTheWay <=> \A g : AreWirings(g, instrs, n) => blocks = g[next]
        BY DEF OnTheWay
    <2> HIDE DEF p, n
    <2>5. CASE FindLeaders
        BY <2>1, <2>5 DEF FindLeaders, Inv
    <2>6. CASE BuildBlocks
        <3>1. /\ pass = "blocks" /\ blocks' = p
              /\ pass' = "edges" /\ UNCHANGED <<instrs, leaders, next>>
              /\ next = 0 /\ leaders = Leaders(instrs)
            BY <2>1, <2>6 DEF BuildBlocks, p
        <3>2. next' \in DOMAIN blocks'
            <4>1. 0 \in 0 .. n - 1
                BY <2>3
            <4> QED  BY <2>3, <3>1, <4>1
        <3>3. OnTheWay'
            <4>1. \A g : AreWirings(g, instrs, n) => p = g[0]
                BY <2>3 DEF AreWirings, p
            <4> QED  BY <3>1, <4>1 DEF OnTheWay, n, p
        <3>4. WiredUpTo(blocks', instrs', next')
            BY <2>2, <3>1
        <3>5. DOMAIN blocks' = DOMAIN Partition(instrs', leaders')
            BY <3>1 DEF p
        <3> QED  BY <2>1, <3>1, <3>2, <3>3, <3>4, <3>5 DEF Inv
    <2>7. CASE WireEdges
        <3>1. /\ pass = "edges" /\ next \in DOMAIN blocks
              /\ blocks' = WireBlock(blocks, next) /\ next' = next + 1
              /\ pass' = IF next + 1 \in DOMAIN blocks THEN "edges" ELSE "done"
              /\ instrs' = instrs /\ leaders' = leaders /\ leaders = Leaders(instrs)
            BY <2>1, <2>7 DEF WireEdges
        <3>2. WiredUpTo(blocks, instrs, next) /\ DOMAIN blocks = DOMAIN p /\ OnTheWay
            BY <2>1, <3>1 DEF p
        <3>3. WiredUpTo(blocks', instrs', next') /\ DOMAIN blocks' = DOMAIN p
            BY <2>1, <2>2, <3>1, <3>2, NextBlockWired
        <3>4. /\ pass' = "edges" => next' \in DOMAIN blocks'
              /\ pass' = "done" => next' = Cardinality(DOMAIN blocks')
            <4>1. next \in 0 .. n - 1
                BY <2>3, <3>1, <3>2
            <4>2. next + 1 \notin 0 .. n - 1 => next + 1 = n
                BY <2>3, <4>1
            <4> QED  BY <2>3, <3>1, <3>2, <3>3, <4>2 DEF n
        <3>5. OnTheWay'
            <4>1. \A g : AreWirings(g, instrs, n) => blocks' = g[next + 1]
                <5> SUFFICES ASSUME NEW g, AreWirings(g, instrs, n)
                             PROVE  blocks' = g[next + 1]
                    OBVIOUS
                <5>1. next + 1 \in 0 .. n /\ next + 1 # 0 /\ (next + 1) - 1 = next
                    BY <2>1, <2>3, <3>1, <3>2
                <5>2. g[next + 1] = WireBlock(g[next], next)
                    BY <5>1 DEF AreWirings
                <5> QED  BY <2>4, <3>1, <3>2, <5>2
            <4> QED  BY <3>1, <4>1 DEF OnTheWay, n, p
        <3>6. DOMAIN blocks' = DOMAIN Partition(instrs', leaders')
            BY <3>1, <3>3 DEF p
        <3>7. next' \in Nat /\ pass' \in {"edges", "done"}
            BY <2>1, <3>1
        <3> QED  BY <2>1, <3>1, <3>3, <3>4, <3>5, <3>6, <3>7 DEF Inv
    <2>8. CASE UNCHANGED vars
        BY <2>1, <2>8 DEF vars, Inv, OnTheWay
    <2> QED  BY <2>5, <2>6, <2>7, <2>8 DEF Next
<1> QED  BY <1>1, <1>2, PTL DEF Spec

-----------------------------------------------------------------------------
(* What follows.                                                           *)

\* What the invariant says of a built graph, in the terms of the properties.
LEMMA BuiltIs ==
    ASSUME Inv, pass \in {"edges", "done"}
    PROVE  /\ IsProgram(instrs) /\ leaders = Leaders(instrs)
           /\ AreBlocks(blocks, instrs, leaders) /\ AreWired(blocks)
           /\ \A k \in DOMAIN blocks :
                 IF k < next
                 THEN ToSet(blocks[k].succs) = LeadsTo(blocks, k) /\ TakenFirst(blocks, k)
                 ELSE blocks[k].succs = <<>>
           /\ pass = "done" => \A k \in DOMAIN blocks : k < next
           /\ \A k \in DOMAIN blocks :
                 /\ LastOf(k) = EndOf(blocks, k)
                 /\ LastOf(k) \in DOMAIN instrs
                 /\ PositionsOf(k) \subseteq DOMAIN instrs
                 /\ Last(blocks[k].instructions) = instrs[LastOf(k)]
<1>1. /\ IsProgram(instrs) /\ leaders = Leaders(instrs) /\ WiredUpTo(blocks, instrs, next)
    BY ProgramsAre DEF Inv
<1>9. pass = "done" => \A k \in DOMAIN blocks : k < next
    <2> SUFFICES ASSUME pass = "done", NEW k \in DOMAIN blocks PROVE k < next
        OBVIOUS
    <2>1. next = Cardinality(DOMAIN blocks)
        BY DEF Inv
    <2>2. DOMAIN blocks = 0 .. next - 1 /\ next \in Nat
        BY <1>1, <2>1, BlockCount DEF WiredUpTo
    <2> QED  BY <2>2
<1>2. \A s : ToSet(s) = Items(s)
    BY DEF ToSet, Items
<1>3. DOMAIN instrs = 1 .. Len(instrs) /\ Len(instrs) \in Nat
    BY <1>1, SequenceDomain DEF IsProgram
<1>4. leaders \subseteq 1 .. Len(instrs)
    BY <1>1, LeadersAre
<1>5. \A k \in DOMAIN blocks :
         /\ blocks[k].first \in leaders
         /\ EndOf(blocks, k) \in blocks[k].first .. Len(instrs)
         /\ Last(blocks[k].instructions) = instrs[EndOf(blocks, k)]
    BY <1>1 DEF WiredUpTo, AreBlocks
<1>6. \A k : LastOf(k) = EndOf(blocks, k)
    BY DEF LastOf, EndOf
<1>7. ASSUME NEW k \in DOMAIN blocks
      PROVE  LastOf(k) \in DOMAIN instrs /\ PositionsOf(k) \subseteq DOMAIN instrs
    <2>1. /\ blocks[k].first \in 1 .. Len(instrs)
          /\ LastOf(k) \in blocks[k].first .. Len(instrs)
        BY <1>4, <1>5, <1>6
    <2>2. \A a \in 1 .. Len(instrs) : \A e \in a .. Len(instrs) :
             e \in 1 .. Len(instrs) /\ a .. e \subseteq 1 .. Len(instrs)
        BY <1>3
    <2> QED  BY <1>3, <2>1, <2>2 DEF PositionsOf
<1>8. \A k \in DOMAIN blocks :
         IF k < next
         THEN ToSet(blocks[k].succs) = LeadsTo(blocks, k) /\ TakenFirst(blocks, k)
         ELSE blocks[k].succs = <<>>
    BY <1>1, <1>2 DEF WiredUpTo
<1> QED  BY <1>1, <1>5, <1>6, <1>7, <1>8, <1>9 DEF WiredUpTo

\* Every variable keeps its type through the passes.
THEOREM TypesAreCorrect == Spec => []TypeOK
<1>1. Inv => TypeOK
    <2> SUFFICES ASSUME Inv PROVE TypeOK
        OBVIOUS
    <2>1. /\ instrs \in Programs /\ next \in Nat
          /\ pass \in {"leaders", "blocks", "edges", "done"}
          /\ leaders = IF pass = "leaders" THEN {} ELSE Leaders(instrs)
          /\ pass \in {"leaders", "blocks"} => blocks = <<>>
        BY DEF Inv
    <2>2. leaders \subseteq DOMAIN instrs
        <3>1. IsProgram(instrs)
            BY <2>1, ProgramsAre
        <3>2. DOMAIN instrs = 1 .. Len(instrs) /\ Leaders(instrs) \subseteq 1 .. Len(instrs)
            BY <3>1, SequenceDomain, LeadersAre DEF IsProgram
        <3> QED  BY <2>1, <3>2
    <2>3. \A k \in DOMAIN blocks :
             /\ blocks[k].id = k
             /\ blocks[k].term \in TerminatorKind
             /\ ToSet(blocks[k].succs) \cup blocks[k].preds \subseteq DOMAIN blocks
        <3>1. CASE pass \in {"leaders", "blocks"}
            <4>1. DOMAIN blocks = {}
                BY <2>1, <3>1, EmptyAndSingle
            <4> QED  BY <4>1
        <3>2. CASE pass \in {"edges", "done"}
            <4> SUFFICES ASSUME NEW k \in DOMAIN blocks
                         PROVE  /\ blocks[k].id = k
                                /\ blocks[k].term \in TerminatorKind
                                /\ ToSet(blocks[k].succs) \cup blocks[k].preds
                                       \subseteq DOMAIN blocks
                OBVIOUS
            <4>1. AreBlocks(blocks, instrs, leaders) /\ AreWired(blocks)
                BY <3>2, BuiltIs
            <4>2. \A i : ClassifyTerminator(i) \in TerminatorKind
                BY DEF ClassifyTerminator, TerminatorKind
            <4>3. blocks[k].id = k /\ blocks[k].term \in TerminatorKind
                BY <4>1, <4>2 DEF AreBlocks
            <4>4. Items(blocks[k].succs) \cup blocks[k].preds \subseteq DOMAIN blocks
                BY <4>1 DEF AreWired
            <4>5. ToSet(blocks[k].succs) = Items(blocks[k].succs)
                BY DEF ToSet, Items
            <4> QED  BY <4>3, <4>4, <4>5
        <3> QED  BY <2>1, <3>1, <3>2
    <2> QED  BY <2>1, <2>2, <2>3 DEF TypeOK
<1> QED  BY <1>1, Invariant, PTL

\* A two-way block lists its branch target first, whatever the instructions are:
\* _emit_conditional takes the first successor for the taken path.
THEOREM TakenPathsComeFirst == Spec => []TakenComesFirst
<1>1. Inv => TakenComesFirst
    <2> SUFFICES ASSUME Inv, NEW k \in DOMAIN blocks,
                        blocks[k].term = "CONDITIONAL", Len(blocks[k].succs) = 2
                 PROVE  /\ blocks[blocks[k].succs[1]].first =
                              Last(blocks[k].instructions).targets[1]
                        /\ blocks[k].succs[2] = k + 1
        BY DEF TakenComesFirst
    <2>1. Len(<<>>) # 2 /\ DOMAIN <<>> = {}
        <3>1. Len(<<>>) = 0 /\ DOMAIN <<>> = {} /\ 0 # 2
            BY EmptyAndSingle
        <3> QED  BY <3>1
    <2>2. pass \in {"edges", "done"}
        BY <2>1 DEF Inv
    <2>3. TakenFirst(blocks, k)
        BY <2>1, <2>2, BuiltIs
    <2> QED  BY <2>3 DEF TakenFirst
<1> QED  BY <1>1, Invariant, PTL

\* Where the instruction alone falls through, so does the graph; an instruction
\* inside a block always does.
LEMMA FallsAre ==
    ASSUME NEW i
    PROVE  /\ Falls(i) => FallsInGraph(i)
           /\ ClassifyTerminator(i) = "FALL_THROUGH" => ~ IsExit(i) /\ ~ IsBranch(i)
           /\ (IsBranch(i) => i.guard \notin AlwaysTruePreds) /\ FallsInGraph(i) => Falls(i)
<1>1. (IsExit(i) => ~ IsBranch(i)) /\ (i.op = "BRA.DIV" => IsBranch(i))
    BY DEF IsExit, IsBranch
<1>2. Falls(i) => FallsInGraph(i)
    <2>1. CASE ~ IsExit(i) /\ ~ IsBranch(i)
        BY <2>1 DEF FallsInGraph
    <2>2. CASE ~ AlwaysExecutes(i) /\ (IsExit(i) \/ IsBranch(i))
        BY <1>1, <2>2 DEF AlwaysExecutes, FallsInGraph, IsPredicated, IsUnconditional
    <2>3. CASE i.op = "BRA.DIV"
        BY <1>1, <2>3 DEF FallsInGraph, IsUnconditional
    <2> QED  BY <2>1, <2>2, <2>3 DEF Falls
<1>3. ClassifyTerminator(i) = "FALL_THROUGH" => ~ IsExit(i) /\ ~ IsBranch(i)
    <2>1. IsIndirect(i) => IsBranch(i)
        BY DEF IsIndirect, IsBranch
    <2> QED  BY <2>1 DEF ClassifyTerminator
<1>4. ASSUME IsBranch(i) => i.guard \notin AlwaysTruePreds, FallsInGraph(i)
      PROVE  Falls(i)
    <2>1. CASE ~ IsExit(i) /\ ~ IsBranch(i)
        BY <2>1 DEF Falls
    <2>2. CASE IsExit(i) /\ IsPredicated(i)
        BY <2>2 DEF Falls, AlwaysExecutes, IsPredicated
    <2>3. CASE IsBranch(i) /\ ~ IsUnconditional(i)
        BY <1>4, <2>3 DEF Falls, AlwaysExecutes, IsUnconditional
    <2> QED  BY <1>4, <2>1, <2>2, <2>3 DEF FallsInGraph
<1> QED  BY <1>2, <1>3, <1>4

\* Inside a block every instruction falls through to the next.
LEMMA InsideBlocks ==
    ASSUME Inv, pass \in {"edges", "done"}, NEW k \in DOMAIN blocks,
           NEW p \in PositionsOf(k), p # LastOf(k)
    PROVE  /\ p \in DOMAIN instrs /\ p + 1 \in DOMAIN instrs
           /\ ~ IsExit(instrs[p]) /\ ~ IsBranch(instrs[p])
<1>1. /\ IsProgram(instrs) /\ leaders = Leaders(instrs)
      /\ AreBlocks(blocks, instrs, leaders)
      /\ LastOf(k) = EndOf(blocks, k) /\ LastOf(k) \in DOMAIN instrs
      /\ PositionsOf(k) \subseteq DOMAIN instrs
    BY BuiltIs
<1>2. DOMAIN instrs = 1 .. Len(instrs) /\ Len(instrs) \in Nat
    BY <1>1, SequenceDomain DEF IsProgram
<1>3. blocks[k].first \in 1 .. Len(instrs)
    <2>1. leaders \subseteq 1 .. Len(instrs)
        BY <1>1, LeadersAre
    <2> QED  BY <1>1, <2>1 DEF AreBlocks
<1>4. /\ p \in 1 .. Len(instrs) /\ p + 1 \in blocks[k].first + 1 .. LastOf(k)
      /\ p + 1 \in 1 .. Len(instrs)
    <2>1. p \in blocks[k].first .. LastOf(k)
        BY DEF PositionsOf
    <2> QED  BY <1>1, <1>2, <1>3, <2>1
<1>5. p + 1 \notin Leaders(instrs)
    BY <1>1, <1>4 DEF AreBlocks
<1>6. ClassifyTerminator(instrs[p]) = "FALL_THROUGH"
    BY <1>1, <1>2, <1>4, <1>5, LeadersAre
<1> QED  BY <1>2, <1>4, <1>6, FallsAre

\* No execution is lost: control that can pass from one instruction of the
\* function to another does so inside a block or along an edge of the graph.
THEOREM FlowIsKept == Spec => []NoFlowLost
<1>1. Inv => NoFlowLost
    <2> SUFFICES ASSUME Inv, pass = "done", NEW k \in DOMAIN blocks,
                        NEW p \in PositionsOf(k), NEW q \in Flow(p)
                 PROVE  \/ p # LastOf(k) /\ q = p + 1
                        \/ /\ p = LastOf(k)
                           /\ \E s \in ToSet(blocks[k].succs) : blocks[s].first = q
        BY DEF NoFlowLost
    <2> DEFINE i == instrs[p]
    <2>1. /\ IsProgram(instrs) /\ leaders = Leaders(instrs)
          /\ AreBlocks(blocks, instrs, leaders)
          /\ LastOf(k) = EndOf(blocks, k) /\ LastOf(k) \in DOMAIN instrs
          /\ PositionsOf(k) \subseteq DOMAIN instrs
          /\ Last(blocks[k].instructions) = instrs[LastOf(k)]
        BY BuiltIs
    <2>2. ToSet(blocks[k].succs) = LeadsTo(blocks, k)
        <3>1. k < next
            BY BuiltIs
        <3> QED  BY <3>1, BuiltIs
    <2>3. q \in DOMAIN instrs
        BY DEF Flow
    <2>4. \/ IsBranch(i) /\ q \in ToSet(i.targets)
          \/ Falls(i) /\ q = p + 1
        BY DEF Flow
    <2>5. CASE p # LastOf(k)
        <3>1. ~ IsBranch(i)
            BY <2>5, InsideBlocks
        <3> QED  BY <2>4, <2>5, <3>1
    <2>6. CASE p = LastOf(k) /\ IsBranch(i) /\ q \in ToSet(i.targets)
        <3>1. q \in leaders
            <4>1. ToSet(i.targets) = Items(i.targets)
                BY DEF ToSet, Items
            <4> QED  BY <2>1, <2>3, <2>6, <4>1, LeadersAre
        <3>2. PICK s \in DOMAIN blocks : blocks[s].first = q
            BY <2>1, <3>1 DEF AreBlocks
        <3>3. s \in LeadsTo(blocks, k)
            BY <2>1, <2>6, <3>2 DEF LeadsTo, BlocksAt
        <3> QED  BY <2>2, <2>6, <3>2, <3>3
    <2>7. CASE p = LastOf(k) /\ Falls(i) /\ q = p + 1
        <3>1. DOMAIN instrs = 1 .. Len(instrs) /\ Len(instrs) \in Nat
            BY <2>1, SequenceDomain DEF IsProgram
        <3>2. LastOf(k) # Len(instrs)
            BY <2>3, <2>7, <3>1
        <3>3. k + 1 \in DOMAIN blocks /\ blocks[k + 1].first = q
            BY <2>1, <2>7, <3>2 DEF AreBlocks
        <3>4. k + 1 \in LeadsTo(blocks, k)
            <4>1. FallsInGraph(Last(blocks[k].instructions))
                BY <2>1, <2>7, FallsAre
            <4> QED  BY <3>3, <4>1 DEF LeadsTo
        <3> QED  BY <2>2, <2>7, <3>3, <3>4
    <2> QED  BY <2>4, <2>5, <2>6, <2>7
<1> QED  BY <1>1, Invariant, PTL

\* No execution is invented, where no branch is guarded by @PT: the builder
\* takes such a branch for a conditional one and adds a fall-through edge.
THEOREM FlowIsNotInvented ==
    ASSUME \A f \in Programs : \A i \in DOMAIN f :
              IsBranch(f[i]) => f[i].guard \notin AlwaysTruePreds
    PROVE  Spec => []NoFlowInvented
<1>1. Inv => NoFlowInvented
    <2> SUFFICES ASSUME Inv, pass = "done", NEW k \in DOMAIN blocks
                 PROVE  /\ \A s \in ToSet(blocks[k].succs) :
                              blocks[s].first \in Flow(LastOf(k))
                        /\ \A p \in PositionsOf(k) \ {LastOf(k)} : p + 1 \in Flow(p)
        BY DEF NoFlowInvented
    <2> DEFINE i == instrs[LastOf(k)]
    <2>1. /\ IsProgram(instrs) /\ leaders = Leaders(instrs)
          /\ AreBlocks(blocks, instrs, leaders)
          /\ LastOf(k) = EndOf(blocks, k) /\ LastOf(k) \in DOMAIN instrs
          /\ Last(blocks[k].instructions) = i
        BY BuiltIs
    <2>2. ToSet(blocks[k].succs) = LeadsTo(blocks, k)
        <3>1. k < next
            BY BuiltIs
        <3> QED  BY <3>1, BuiltIs
    <2>3. ASSUME NEW s \in ToSet(blocks[k].succs)
          PROVE  blocks[s].first \in Flow(LastOf(k))
        <3>1. s \in DOMAIN blocks
            BY <2>2, <2>3 DEF LeadsTo, BlocksAt
        <3>2. blocks[s].first \in DOMAIN instrs
            <4>1. leaders \subseteq DOMAIN instrs
                BY <2>1, LeadersAre, SequenceDomain DEF IsProgram
            <4> QED  BY <2>1, <3>1, <4>1 DEF AreBlocks
        <3>3. CASE IsBranch(i) /\ blocks[s].first \in ToSet(i.targets)
            BY <3>2, <3>3 DEF Flow
        <3>4. CASE FallsInGraph(i) /\ s = k + 1
            <4>1. blocks[s].first = LastOf(k) + 1
                BY <2>1, <3>1, <3>4 DEF AreBlocks
            <4>2. IsBranch(i) => i.guard \notin AlwaysTruePreds
                BY <2>1 DEF Inv
            <4>3. Falls(i)
                BY <3>4, <4>2, FallsAre
            <4> QED  BY <3>2, <4>1, <4>3 DEF Flow
        <3> QED  BY <2>1, <2>2, <2>3, <3>3, <3>4 DEF LeadsTo, BlocksAt
    <2>4. ASSUME NEW p \in PositionsOf(k), p # LastOf(k)
          PROVE  p + 1 \in Flow(p)
        <3>1. p + 1 \in DOMAIN instrs /\ ~ IsExit(instrs[p]) /\ ~ IsBranch(instrs[p])
            BY <2>4, InsideBlocks
        <3> QED  BY <3>1 DEF Flow, Falls
    <2> QED  BY <2>3, <2>4
<1> QED  BY <1>1, Invariant, PTL

\* The passes build BuildCfg of the function, which is how the other modules get
\* their graphs.
THEOREM PassesBuildCfg == Spec => [](pass = "done" => blocks = BuildCfg(instrs))
<1>1. Inv => (pass = "done" => blocks = BuildCfg(instrs))
    <2> SUFFICES ASSUME Inv, pass = "done" PROVE blocks = BuildCfg(instrs)
        OBVIOUS
    <2> DEFINE n == Cardinality(DOMAIN Partition(instrs, Leaders(instrs)))
    <2>1. IsProgram(instrs) /\ leaders = Leaders(instrs) /\ OnTheWay
        BY ProgramsAre DEF Inv
    <2>2. next = n
        BY <2>1 DEF Inv
    <2>3. n \in Nat
        BY <2>2 DEF Inv
    <2>4. PICK g : AreWirings(g, instrs, n)
        BY <2>3, WiringsExist
    <2>5. BuildCfg(instrs) = g[n]
        BY <2>3, <2>4, BuildCfgIs
    <2>6. blocks = g[next]
        BY <2>1, <2>4 DEF OnTheWay
    <2> HIDE DEF n
    <2> QED  BY <2>2, <2>5, <2>6
<1> QED  BY <1>1, Invariant, PTL


-----------------------------------------------------------------------------
(* The other backend.                                                      *)

PositionsFrom(lo, n) == [i \in 1 .. n |-> lo + i - 1]
InstructionsAt(f, code) == [n \in DOMAIN code |-> f[code[n]]]
LeftOf(f, code) == Selected(code, {n \in DOMAIN code : code[n] \in DOMAIN f})

\* With every instruction kept, a converted block has those of the builder's.
LEMMA ConvertedCode ==
    ASSUME NEW f, IsSequence(f), NEW lo \in 1 .. Len(f), NEW hi \in lo .. Len(f),
           Len(SubSeq(f, lo, hi)) = hi - lo + 1
    PROVE  LET code == PositionsFrom(lo, hi - lo + 1)
           IN  InstructionsAt(f, LeftOf(f, code)) = SubSeq(f, lo, hi) /\ code[1] = lo
<1> DEFINE is == SubSeq(f, lo, hi)
           code == PositionsFrom(lo, hi - lo + 1)
<1>1. Len(f) \in Nat /\ DOMAIN f = 1 .. Len(f)
    BY SequenceDomain
<1>2. Len(is) \in Nat \ {0}
    BY <1>1
<1>3. DOMAIN code = 1 .. Len(is) /\ \A n \in 1 .. Len(is) : code[n] = lo + n - 1
    BY DEF PositionsFrom
<1>4. IsSequence(code)
    <2>1. code = [n \in 1 .. Len(is) |-> code[n]]
        BY <1>3 DEF PositionsFrom
    <2> HIDE DEF code
    <2> QED  BY <1>2, <2>1, FunctionIsSequence
<1>5. \A n \in 1 .. Len(is) : lo + n - 1 \in 1 .. Len(f)
    BY <1>1
<1>6. {n \in DOMAIN code : code[n] \in DOMAIN f} = DOMAIN code
    BY <1>1, <1>3, <1>5
<1>7. LeftOf(f, code) = code
    BY <1>4, <1>6, SelectedAll DEF LeftOf
<1>8. /\ is \in Seq(Items(f))
      /\ \A i \in 1 .. Len(is) : is[i] = f[lo + i - 1]
    <2>1. \A i \in lo .. hi : f[i] \in Items(f)
        <3>1. \A i \in lo .. hi : i \in DOMAIN f
            BY <1>1
        <3> QED  BY <3>1 DEF Items
    <2>2. lo \in Int /\ hi \in Int /\ lo <= hi
        BY <1>1
    <2> QED  BY <2>1, <2>2, SubSeqProperties
<1>9. is = [i \in 1 .. Len(is) |-> is[i]]
    <2>1. is \in [1 .. Len(is) -> Items(f)]
        BY <1>8, LenProperties
    <2> QED  BY <2>1
<1>10. [n \in DOMAIN code |-> f[code[n]]] = [i \in 1 .. Len(is) |-> is[i]]
    BY <1>3, <1>8
<1>11. code[1] = lo
    BY <1>1, <1>2, <1>3
<1> QED  BY <1>7, <1>9, <1>10, <1>11 DEF InstructionsAt

LEMMA OrderedAre ==
    ASSUME NEW edges, IsSequence(edges)
    PROVE  LET o == OrderedSuccessors(edges)
           IN  /\ IsSequence(o) /\ Items(o) = {edges[n].to : n \in DOMAIN edges}
               /\ \A e1, e2 : /\ edges = <<e1, e2>>
                              /\ e1.label = <<"false", 0>> /\ e2.label = <<"true", 0>>
                              => o = <<e2.to, e1.to>>
<1> DEFINE named(name) == {n \in DOMAIN edges : edges[n].label = <<name, 0>>}
           rest == DOMAIN edges \ (named("true") \cup named("false"))
           t == Selected(edges, named("true"))
           u == Selected(edges, named("false"))
           v == Selected(edges, rest)
           order == IF named("true") # {} /\ named("false") # {}
                    THEN t \o u \o v ELSE edges
           o == OrderedSuccessors(edges)
<1>1. o = [n \in DOMAIN order |-> order[n].to]
    BY DEF OrderedSuccessors
<1>2. /\ named("true") \subseteq DOMAIN edges /\ named("false") \subseteq DOMAIN edges
      /\ rest \subseteq DOMAIN edges
      /\ DOMAIN edges = named("true") \cup named("false") \cup rest
    OBVIOUS
<1>3. /\ IsSequence(t) /\ Items(t) = {edges[n] : n \in named("true")}
      /\ IsSequence(u) /\ Items(u) = {edges[n] : n \in named("false")}
      /\ IsSequence(v) /\ Items(v) = {edges[n] : n \in rest}
    BY <1>2, SelectedItems DEF Selects
<1> DEFINE tu == t \o u
           tuv == tu \o v
<1>4. IsSequence(tu) /\ Items(tu) = Items(t) \cup Items(u)
    <2> HIDE DEF t, u
    <2> QED  BY <1>3, ConcatItems, ConcatRange DEF Joins
<1>5. IsSequence(tuv) /\ Items(tuv) = Items(tu) \cup Items(v)
    <2> HIDE DEF tu, v
    <2> QED  BY <1>3, <1>4, ConcatItems, ConcatRange DEF Joins
<1>6. IsSequence(order) /\ Items(order) = Items(edges)
    <2>1. Items(tuv) = Items(edges)
        <3> HIDE DEF t, u, v, tu, tuv, named, rest
        <3>1. Items(tuv) = {edges[n] : n \in DOMAIN edges}
            BY <1>2, <1>3, <1>4, <1>5
        <3> QED  BY <3>1 DEF Items
    <2>2. order = tuv \/ order = edges
        OBVIOUS
    <2> HIDE DEF order, tuv
    <2> QED  BY <1>5, <2>1, <2>2
<1>7. ASSUME NEW e1, NEW e2, edges = <<e1, e2>>,
             e1.label = <<"false", 0>>, e2.label = <<"true", 0>>
      PROVE  order = <<e2, e1>>
    <2>1. DOMAIN edges = {1, 2} /\ edges[1] = e1 /\ edges[2] = e2
        BY <1>7
    <2>2. named("true") = {2} /\ named("false") = {1} /\ rest = {}
        <3>1. <<"false", 0>> # <<"true", 0>>
            OBVIOUS
        <3> QED  BY <1>7, <2>1, <3>1
    <2>3. Selected(edges, {2}) = <<e2>> /\ Selected(edges, {1}) = <<e1>> /\ Selected(edges, {}) = <<>>
        BY <2>1, SelectedFew
    <2>4. order = (<<e2>> \o <<e1>>) \o <<>>
        BY <2>2, <2>3
    <2>5. (<<e2>> \o <<e1>>) \o <<>> = <<e2>> \o <<e1>>
        <3> DEFINE w == <<e2>> \o <<e1>>
        <3>1. IsSequence(w)
            BY EmptyAndSingle, ConcatItems DEF Joins
        <3> HIDE DEF w
        <3> QED  BY <3>1, EmptyAndSingle, ConcatItems DEF w
    <2> QED  BY <2>4, <2>5, PairJoined
<1> HIDE DEF order
<1>8. Len(order) \in Nat /\ DOMAIN order = 1 .. Len(order)
    BY <1>6, SequenceDomain
<1>9. IsSequence(o) /\ DOMAIN o = DOMAIN order
    <2>1. o = [n \in 1 .. Len(order) |-> o[n]]
        BY <1>1, <1>8
    <2> HIDE DEF o
    <2> QED  BY <1>8, <2>1, FunctionIsSequence
<1>10. \A n \in DOMAIN order : o[n] = order[n].to
    BY <1>1
<1> HIDE DEF o
<1>11. Items(o) = {edges[n].to : n \in DOMAIN edges}
    <2>1. Items(o) = {x.to : x \in Items(order)}
        BY <1>9, <1>10 DEF Items
    <2> QED  BY <1>6, <2>1 DEF Items
<1>12. ASSUME NEW e1, NEW e2, edges = <<e1, e2>>,
              e1.label = <<"false", 0>>, e2.label = <<"true", 0>>
       PROVE  o = <<e2.to, e1.to>>
    <2>1. order = <<e2, e1>>
        BY <1>7, <1>12
    <2> QED  BY <1>1, <2>1 DEF o
<1> QED  BY <1>9, <1>11, <1>12 DEF o

\* What DistinctIn leaves of a sequence.
LEMMA DistinctAre ==
    ASSUME NEW s, IsSequence(s), NEW S
    PROVE  LET d == DistinctIn(s, S)
           IN  /\ IsSequence(d) /\ Differ(d) /\ Items(d) = Items(s) \cap S
               /\ \A x, y : x # y /\ s = <<x, y>> /\ x \in S => d[1] = x
<1> DEFINE P == {n \in DOMAIN s : s[n] \in S /\ \A m \in 1 .. n - 1 : s[m] # s[n]}
           d == DistinctIn(s, S)
<1>1. Len(s) \in Nat /\ DOMAIN s = 1 .. Len(s)
    BY SequenceDomain
<1>2. P \subseteq DOMAIN s /\ d = Selected(s, P)
    BY DEF DistinctIn
<1>3. Selects(d, s, P)
    <2> HIDE DEF P, d
    <2> QED  BY <1>2, SelectedItems
<1> HIDE DEF d
<1>4. PICK order : /\ Ascends(order, P) /\ Len(d) = Len(order)
                   /\ DOMAIN d = 1 .. Len(order) /\ DOMAIN order = 1 .. Len(order)
                   /\ \A n \in DOMAIN d : d[n] = s[order[n]]
    BY <1>3 DEF Selects
<1>5. Items(order) = P /\ \A i \in DOMAIN order : order[i] \in P
    BY <1>4 DEF Ascends, Items
<1>6. ASSUME NEW i \in DOMAIN d, NEW j \in DOMAIN d, i < j PROVE d[i] # d[j]
    <2>1. order[i] \in P /\ order[j] \in P /\ order[i] < order[j]
        BY <1>4, <1>5, <1>6 DEF Ascends
    <2>2. order[i] \in 1 .. order[j] - 1
        BY <1>1, <2>1
    <2> QED  BY <1>4, <2>1, <2>2
<1>7. Differ(d)
    <2>1. \A i, j \in DOMAIN d : i < j \/ j < i \/ i = j
        BY <1>4
    <2> QED  BY <1>6, <2>1 DEF Differ
<1>8. Items(d) = Items(s) \cap S
    <2>1. Items(d) = {s[n] : n \in P}
        BY <1>3 DEF Selects
    <2>2. ASSUME NEW x \in Items(s) \cap S PROVE \E n \in P : s[n] = x
        <3> DEFINE Q == {n \in DOMAIN s : s[n] = x}
        <3>1. Q \subseteq Nat /\ Q # {}
            BY <1>1 DEF Items
        <3>2. PICK n \in Q : \A m \in Q : n <= m
            <4> HIDE DEF Q
            <4> QED  BY <3>1, LeastNat
        <3>3. \A m \in 1 .. n - 1 : m \in DOMAIN s /\ ~ (n <= m)
            BY <1>1, <3>2
        <3> QED  BY <3>2, <3>3
    <2> QED  BY <2>1, <2>2 DEF Items
<1>9. ASSUME NEW x, NEW y, x # y, s = <<x, y>>, x \in S PROVE d[1] = x
    <2>1. DOMAIN s = {1, 2} /\ s[1] = x /\ s[2] = y
        BY <1>9
    <2>2. 1 \in P
        BY <1>9, <2>1
    <2>3. PICK i \in DOMAIN order : order[i] = 1
        BY <1>5, <2>2 DEF Items
    <2>4. i = 1
        <3> SUFFICES ASSUME i # 1 PROVE FALSE
            OBVIOUS
        <3>1. 1 \in 1 .. Len(order) /\ 1 < i
            BY <1>4, <2>3
        <3>2. order[1] < 1 /\ order[1] \in DOMAIN s
            BY <1>4, <1>5, <2>3, <3>1 DEF Ascends
        <3> QED  BY <1>1, <3>2
    <2> QED  BY <1>4, <2>1, <2>3, <2>4
<1>10. IsSequence(d)
    BY <1>3 DEF Selects
<1> QED  BY <1>7, <1>8, <1>9, <1>10 DEF d

-----------------------------------------------------------------------------

\* The edges of a block of the earlier graph, in the order of the adapter.
LEMMA EdgesAre ==
    ASSUME NEW f, IsProgram(f), NEW b, NEW n, WiredUpTo(b, f, n), NEW at, LeadsBy(at, b, f),
           NEW k \in DOMAIN b, NEW last, last = Last(b[k].instructions), last \in Items(f),
           Comparable(f)
    PROVE  LET edges == EdgesOf(b, k, at)
               o == OrderedSuccessors(edges)
           IN  /\ IsSequence(o) /\ Items(o) \cap DOMAIN b = LeadsTo(b, k)
               /\ IsBranch(last) /\ ~ IsIndirect(last) /\ IsConditional(last)
                  /\ k + 1 \in DOMAIN b
                  => o = <<at[last.targets[1]], k + 1>>
               /\ IsBranch(last) /\ ~ IsIndirect(last) =>
                     /\ Items(last.targets) = {last.targets[1]}
                     /\ BlocksAt(b, ToSet(last.targets)) = {at[last.targets[1]]}
<1> DEFINE edges == EdgesOf(b, k, at)
           o == OrderedSuccessors(edges)
           taken == at[last.targets[1]]
<1>1. /\ IsSequence(edges)
      /\ {e.to : e \in Items(edges)} = LeadsTo(b, k) \cup (IF IsExit(last) THEN {ExitBlock} ELSE {})
      /\ IsBranch(last) /\ ~ IsIndirect(last) /\ IsConditional(last) /\ k + 1 \in DOMAIN b
            => edges = <<Edge("false", 0, k + 1), Edge("true", 0, taken)>>
      /\ IsBranch(last) /\ ~ IsIndirect(last) =>
            /\ Items(last.targets) = {last.targets[1]}
            /\ BlocksAt(b, ToSet(last.targets)) = {taken}
    BY LegacyEdges
<1>2. /\ IsSequence(o) /\ Items(o) = {edges[j].to : j \in DOMAIN edges}
      /\ \A e1, e2 : /\ edges = <<e1, e2>>
                     /\ e1.label = <<"false", 0>> /\ e2.label = <<"true", 0>>
                     => o = <<e2.to, e1.to>>
    <2> HIDE DEF edges
    <2> QED  BY <1>1, OrderedAre
<1>3. Items(o) \cap DOMAIN b = LeadsTo(b, k)
    <2>1. Items(o) = {e.to : e \in Items(edges)}
        <3> HIDE DEF o, edges
        <3> QED  BY <1>2 DEF Items
    <2>2. ExitBlock \notin DOMAIN b
        <3>1. \E m \in Nat \ {0} : DOMAIN b = 0 .. m - 1
            BY DEF WiredUpTo, AreBlocks
        <3> QED  BY <3>1 DEF ExitBlock
    <2>3. LeadsTo(b, k) \subseteq DOMAIN b
        BY DEF LeadsTo, BlocksAt
    <2> HIDE DEF o, edges
    <2> QED  BY <1>1, <2>1, <2>2, <2>3
<1>4. ASSUME IsBranch(last), ~ IsIndirect(last), IsConditional(last), k + 1 \in DOMAIN b
      PROVE  o = <<taken, k + 1>>
    <2> DEFINE e1 == Edge("false", 0, k + 1)
               e2 == Edge("true", 0, taken)
    <2>1. /\ e1.label = <<"false", 0>> /\ e1.to = k + 1
          /\ e2.label = <<"true", 0>> /\ e2.to = taken
        BY DEF Edge
    <2>2. edges = <<e1, e2>>
        BY <1>1, <1>4
    <2> HIDE DEF e1, e2, edges, o, taken
    <2> QED  BY <1>2, <2>1, <2>2
<1> HIDE DEF o, edges
<1> QED  BY <1>1, <1>2, <1>3, <1>4 DEF o, edges, taken

\* In every finished graph, what the adapter makes of the earlier backend's graph
\* is the builder's: blocks, edges, the order of the edges that the code generator
\* relies on, and terminators.
LEMMA ConvertedIs ==
    ASSUME Inv, pass = "done", Comparable(instrs)
    PROVE  LET g == BuildLegacyCfg(instrs)
               other == ConvertCfg(instrs, g, DOMAIN instrs)
           IN  /\ DOMAIN other = DOMAIN blocks
               /\ \A k \in DOMAIN blocks :
                     /\ other[k].first = blocks[k].first
                     /\ other[k].instructions = blocks[k].instructions
                     /\ other[k].term = ClassifyGcaBlock(blocks[k].instructions)
                     /\ other[k].succs = DistinctIn(OrderedSuccessors(g[k].succs), DOMAIN blocks)
                     /\ other[k].preds = {j \in DOMAIN blocks :
                           Contains(DistinctIn(OrderedSuccessors(g[j].succs), DOMAIN blocks), k)}
<1> DEFINE f == instrs
           g == BuildLegacyCfg(f)
           ids == DOMAIN g \ {StartBlock, ExitBlock}
           succs(k) == DistinctIn(OrderedSuccessors(g[k].succs), ids)
           left(k) == Selected(g[k].code, {n \in DOMAIN g[k].code : g[k].code[n] \in DOMAIN f})
           code(k) == [n \in DOMAIN left(k) |-> f[left(k)[n]]]
           other == ConvertCfg(f, g, DOMAIN f)
<1>1. IsProgram(f) /\ WiredUpTo(blocks, f, next)
    BY ProgramsAre DEF Inv
<1>2. /\ DOMAIN g = DOMAIN blocks \cup {StartBlock, ExitBlock}
      /\ \A k \in DOMAIN blocks :
            /\ g[k].code = [i \in 1 .. Len(blocks[k].instructions) |-> blocks[k].first + i - 1]
            /\ EndOf(blocks, k) \in blocks[k].first .. Len(f) /\ blocks[k].first \in 1 .. Len(f)
            /\ IsSequence(blocks[k].instructions)
            /\ blocks[k].instructions = SubSeq(f, blocks[k].first, EndOf(blocks, k))
    <2>1. IsLegacyOf(g, blocks, f)
        BY <1>1, LegacyBlocks
    <2> HIDE DEF f, g
    <2> QED  BY <2>1 DEF IsLegacyOf
<1>3. other = [k \in ids |->
                  [id |-> k, first |-> g[k].code[1], instructions |-> code(k),
                   term |-> ClassifyGcaBlock(code(k)), succs |-> succs(k),
                   preds |-> {j \in ids : Contains(succs(j), k)}]]
    BY DEF ConvertCfg
<1> HIDE DEF g, f, other
<1>4. ids = DOMAIN blocks
    <2>1. PICK m \in Nat \ {0} : DOMAIN blocks = 0 .. m - 1
        BY <1>1 DEF WiredUpTo, AreBlocks
    <2>2. StartBlock \notin DOMAIN blocks /\ ExitBlock \notin DOMAIN blocks
        BY <2>1 DEF StartBlock, ExitBlock
    <2> QED  BY <1>2, <2>2
<1>5. ASSUME NEW k \in DOMAIN blocks
      PROVE  code(k) = blocks[k].instructions /\ g[k].code[1] = blocks[k].first
    <2> DEFINE is == blocks[k].instructions
               lo == blocks[k].first
               hi == EndOf(blocks, k)
    <2>1. lo \in 1 .. Len(f) /\ hi \in lo .. Len(f) /\ is = SubSeq(f, lo, hi) /\ IsSequence(is)
        BY <1>2
    <2>2. Len(is) = hi - lo + 1
        BY <2>1, SequenceDomain DEF EndOf
    <2>3. g[k].code = [i \in 1 .. Len(is) |-> lo + i - 1]
        BY <1>2
    <2>4. IsSequence(f)
        BY <1>1 DEF IsProgram
    <2> DEFINE c == g[k].code
    <2>5. code(k) = InstructionsAt(f, LeftOf(f, c))
        BY DEF InstructionsAt, LeftOf
    <2>6. c = PositionsFrom(lo, hi - lo + 1)
        BY <2>2, <2>3 DEF PositionsFrom
    <2> HIDE DEF is, lo, hi, c, code
    <2>7. InstructionsAt(f, LeftOf(f, c)) = is /\ c[1] = lo
        BY <2>1, <2>2, <2>4, <2>6, ConvertedCode
    <2> QED  BY <2>5, <2>7 DEF is, lo, c
<1> HIDE DEF ids, succs, code
<1>6. DOMAIN other = DOMAIN blocks
    BY <1>3, <1>4
<1>7. ASSUME NEW k \in DOMAIN blocks
      PROVE  /\ other[k].first = blocks[k].first
             /\ other[k].instructions = blocks[k].instructions
             /\ other[k].term = ClassifyGcaBlock(blocks[k].instructions)
             /\ other[k].succs = succs(k)
             /\ other[k].preds = {j \in DOMAIN blocks : Contains(succs(j), k)}
    <2> DEFINE ps == {j \in ids : Contains(succs(j), k)}
    <2>1. other[k] = [id |-> k, first |-> g[k].code[1], instructions |-> code(k),
                      term |-> ClassifyGcaBlock(code(k)), succs |-> succs(k), preds |-> ps]
        BY <1>3, <1>4
    <2>2. ps = {j \in DOMAIN blocks : Contains(succs(j), k)}
        BY <1>4
    <2> HIDE DEF ps
    <2> QED  BY <1>5, <2>1, <2>2
<1> QED  BY <1>4, <1>6, <1>7 DEF succs, other, g, f

\* The successors that the adapter lists are those of the builder.
LEMMA SuccessorsAre ==
    ASSUME NEW f, IsProgram(f), NEW b, NEW n, WiredUpTo(b, f, n), Comparable(f),
           NEW k \in DOMAIN b, k < n, n \in Nat, k \in Nat,
           NEW last, last = Last(b[k].instructions)
    PROVE  LET d == DistinctIn(OrderedSuccessors(BuildLegacyCfg(f)[k].succs), DOMAIN b)
           IN  /\ IsSequence(d) /\ Items(d) = Items(b[k].succs)
               /\ b[k].term = "INDIRECT" \/ d = b[k].succs
<1> DEFINE g == BuildLegacyCfg(f)
           o == OrderedSuccessors(g[k].succs)
           d == DistinctIn(o, DOMAIN b)
<1>1. PICK at : LeadsBy(at, b, f) /\ g[k].succs = EdgesOf(b, k, at)
    <2>1. \E at : LeadsBy(at, b, f) /\ \A j \in DOMAIN b : g[j].succs = EdgesOf(b, j, at)
        <3>1. IsLegacyOf(g, b, f)
            BY LegacyBlocks
        <3> HIDE DEF g
        <3> QED  BY <3>1 DEF IsLegacyOf
    <2> HIDE DEF g
    <2> QED  BY <2>1
<1> HIDE DEF g
<1>2. last \in Items(f) /\ b[k].term = ClassifyTerminator(last)
    <2>1. /\ last = f[EndOf(b, k)] /\ b[k].term = ClassifyTerminator(f[EndOf(b, k)])
          /\ EndOf(b, k) \in b[k].first .. Len(f) /\ b[k].first \in Leaders(f)
        BY DEF WiredUpTo, AreBlocks
    <2>2. Leaders(f) \subseteq 1 .. Len(f) /\ DOMAIN f = 1 .. Len(f) /\ Len(f) \in Nat
        BY LeadersAre, SequenceDomain DEF IsProgram
    <2>3. EndOf(b, k) \in DOMAIN f
        BY <2>1, <2>2
    <2> QED  BY <2>1, <2>3 DEF Items
<1>3. /\ IsSequence(o) /\ Items(o) \cap DOMAIN b = LeadsTo(b, k)
      /\ IsBranch(last) /\ ~ IsIndirect(last) /\ IsConditional(last) /\ k + 1 \in DOMAIN b
         => o = <<at[last.targets[1]], k + 1>>
      /\ IsBranch(last) /\ ~ IsIndirect(last) =>
            BlocksAt(b, ToSet(last.targets)) = {at[last.targets[1]]}
    BY <1>1, <1>2, EdgesAre
<1> HIDE DEF o
<1>4. /\ IsSequence(d) /\ Differ(d) /\ Items(d) = LeadsTo(b, k)
      /\ \A x, y : x # y /\ o = <<x, y>> /\ x \in DOMAIN b => d[1] = x
    BY <1>3, DistinctAre
<1> HIDE DEF d
<1>5. /\ IsSequence(b[k].succs) /\ Differ(b[k].succs) /\ Items(b[k].succs) = LeadsTo(b, k)
      /\ TakenFirst(b, k)
    <2>1. IsSequence(b[k].succs) /\ Differ(b[k].succs)
        BY DEF WiredUpTo, AreWired
    <2> QED  BY <2>1 DEF WiredUpTo
<1>6. ~ SeenOtherwise(last)
    BY <1>2 DEF Comparable, Items
<1>7. ASSUME NEW x, LeadsTo(b, k) \subseteq {x} PROVE d = b[k].succs
    <2>1. LeadsTo(b, k) = {} \/ LeadsTo(b, k) = {x}
        BY <1>7
    <2> QED  BY <1>4, <1>5, <2>1, FewItems
<1>8. LeadsTo(b, k) = (IF IsBranch(last) THEN BlocksAt(b, ToSet(last.targets)) ELSE {})
                         \cup (IF FallsInGraph(last) THEN {k + 1} \cap DOMAIN b ELSE {})
    BY DEF LeadsTo
<1>9. CASE ~ IsBranch(last)
    <2>1. LeadsTo(b, k) \subseteq {k + 1}
        BY <1>8, <1>9
    <2> QED  BY <1>4, <1>5, <1>7, <2>1 DEF d, o, g
<1>10. CASE IsBranch(last) /\ ~ IsIndirect(last)
    <2> DEFINE t == at[last.targets[1]]
    <2>1. BlocksAt(b, ToSet(last.targets)) = {t}
        BY <1>3, <1>10
    <2> HIDE DEF t
    <2>2. CASE ~ (FallsInGraph(last) /\ k + 1 \in DOMAIN b) \/ t = k + 1
        <3>1. LeadsTo(b, k) \subseteq {t}
            BY <1>8, <1>10, <2>1, <2>2
        <3> QED  BY <1>4, <1>5, <1>7, <3>1 DEF d, o, g
    <2>3. CASE FallsInGraph(last) /\ k + 1 \in DOMAIN b /\ t # k + 1
        <3>1. LeadsTo(b, k) = {t, k + 1}
            BY <1>8, <1>10, <2>1, <2>3
        <3>2. IsConditional(last) /\ ~ IsUnconditional(last) /\ IsControlInsn(last)
            BY <1>6, <1>10, <2>3, SameConditions DEF IsControlInsn
        <3>3. b[k].term = "CONDITIONAL"
            BY <1>2, <1>10, <3>2 DEF ClassifyTerminator, IsExit, IsBranch
        <3>4. t \in DOMAIN b /\ b[t].first = last.targets[1]
            <4>1. t \in BlocksAt(b, ToSet(last.targets))
                BY <2>1
            <4>2. at[last.targets[1]] \in DOMAIN b
                BY <4>1 DEF BlocksAt, t
            <4>3. Items(last.targets) = {last.targets[1]}
                BY <1>1, <1>2, <1>10, EdgesAre
            <4>4. b[t].first \in ToSet(last.targets) /\ t \in DOMAIN b
                BY <4>1 DEF BlocksAt
            <4>5. ToSet(last.targets) = Items(last.targets)
                BY DEF ToSet, Items
            <4> QED  BY <4>3, <4>4, <4>5
        <3>5. d = <<t, k + 1>>
            <4>1. o = <<t, k + 1>>
                BY <1>3, <1>10, <2>3, <3>2 DEF t
            <4>2. d[1] = t
                BY <1>4, <2>3, <3>4, <4>1
            <4>3. t # k + 1 => (Len(d) = 2 /\ (d[1] = t => d = <<t, k + 1>>))
                BY <1>4, <3>1, TwoItems
            <4> QED  BY <2>3, <4>2, <4>3
        <3>6. b[k].succs = <<t, k + 1>>
            <4>1. Len(b[k].succs) = 2
                BY <1>5, <2>3, <3>1, TwoItems
            <4>2. b[b[k].succs[1]].first = last.targets[1]
                BY <1>5, <3>3, <4>1 DEF TakenFirst
            <4>3. b[k].succs[1] \in DOMAIN b
                <5>1. DOMAIN b[k].succs = 1 .. 2
                    BY <1>5, <4>1, SequenceDomain
                <5>2. b[k].succs[1] \in LeadsTo(b, k)
                    BY <1>5, <5>1 DEF Items
                <5> QED  BY <2>3, <3>1, <3>4, <5>2
            <4>4. \A i, j \in DOMAIN b : b[i].first = b[j].first => i = j
                BY DEF WiredUpTo, AreBlocks
            <4>5. b[k].succs[1] = t
                BY <3>4, <4>2, <4>3, <4>4
            <4>6. t # k + 1 => (b[k].succs[1] = t => b[k].succs = <<t, k + 1>>)
                BY <1>5, <3>1, TwoItems
            <4> QED  BY <2>3, <4>5, <4>6
        <3> QED  BY <1>4, <1>5, <3>5, <3>6 DEF d, o, g
    <2> QED  BY <2>2, <2>3
<1>11. CASE IsIndirect(last)
    <2>1. b[k].term = "INDIRECT"
        BY <1>2, <1>11 DEF ClassifyTerminator, IsExit, IsIndirect
    <2> QED  BY <1>4, <1>5, <2>1 DEF d, o, g
<1> QED  BY <1>9, <1>10, <1>11

\* Through the adapter, the earlier backend yields for every instruction sequence
\* that both see alike the graph that the builder builds.
THEOREM BothBackendsAgree == Spec => []BackendsAgree
<1>1. Inv => BackendsAgree
    <2> SUFFICES ASSUME Inv, pass = "done", Comparable(instrs) PROVE BackendsAgree
        BY DEF BackendsAgree
    <2> DEFINE g == BuildLegacyCfg(instrs)
               other == ConvertCfg(instrs, g, DOMAIN instrs)
               d(k) == DistinctIn(OrderedSuccessors(g[k].succs), DOMAIN blocks)
    <2>1. IsProgram(instrs) /\ WiredUpTo(blocks, instrs, next) /\ next \in Nat
        BY ProgramsAre DEF Inv
    <2>2. /\ DOMAIN other = DOMAIN blocks
          /\ \A k \in DOMAIN blocks :
                /\ other[k].first = blocks[k].first
                /\ other[k].instructions = blocks[k].instructions
                /\ other[k].term = ClassifyGcaBlock(blocks[k].instructions)
                /\ other[k].succs = d(k)
                /\ other[k].preds = {j \in DOMAIN blocks : Contains(d(j), k)}
        BY ConvertedIs
    <2>3. \A k \in DOMAIN blocks : k < next /\ k \in Nat
        <3>1. PICK m \in Nat \ {0} : DOMAIN blocks = 0 .. m - 1
            BY <2>1 DEF WiredUpTo, AreBlocks
        <3> QED  BY <3>1, BuiltIs
    <2>4. \A k \in DOMAIN blocks :
             /\ IsSequence(d(k)) /\ Items(d(k)) = Items(blocks[k].succs)
             /\ blocks[k].term = "INDIRECT" \/ d(k) = blocks[k].succs
        BY <2>1, <2>3, SuccessorsAre
    <2> HIDE DEF other, d
    <2>5. ASSUME NEW k \in DOMAIN blocks
          PROVE  /\ other[k].preds = blocks[k].preds
                 /\ ToSet(other[k].succs) = ToSet(blocks[k].succs)
        <3>1. \A s : ToSet(s) = Items(s)
            BY DEF ToSet, Items
        <3>2. \A j \in DOMAIN blocks : Contains(d(j), k) <=> k \in Items(blocks[j].succs)
            <4>1. \A j \in DOMAIN blocks : Contains(d(j), k) <=> k \in Items(d(j))
                BY <2>4, SequenceDomain DEF Contains, Items
            <4> QED  BY <2>4, <4>1
        <3>3. blocks[k].preds = {j \in DOMAIN blocks : k \in Items(blocks[j].succs)}
            BY <2>1 DEF WiredUpTo, AreWired
        <3> QED  BY <2>2, <2>4, <3>1, <3>2, <3>3
    <2>6. ASSUME NEW k \in DOMAIN blocks
          PROVE  other[k].term = IF IsGuardedExit(Last(blocks[k].instructions)) THEN "EXIT"
                                 ELSE blocks[k].term
        <3> DEFINE last == Last(blocks[k].instructions)
        <3>1. blocks[k].instructions # <<>> /\ blocks[k].term = ClassifyTerminator(last)
            BY <2>1 DEF WiredUpTo, AreBlocks
        <3>2. ~ SeenOtherwise(last)
            <4>1. last = instrs[LastOf(k)] /\ LastOf(k) \in DOMAIN instrs
                BY BuiltIs
            <4> QED  BY <4>1 DEF Comparable
        <3>3. IsBranch(last) => (IsConditional(last) <=> ~ IsUnconditional(last))
            BY <3>2, SameConditions
        <3>4. other[k].term =
                 CASE IsExit(last)     -> "EXIT"
                   [] IsIndirect(last) -> "INDIRECT"
                   [] IsBranch(last) /\ ~ IsIndirect(last) ->
                         IF IsConditional(last) THEN "CONDITIONAL" ELSE "UNCONDITIONAL"
                   [] OTHER -> "FALL_THROUGH"
            BY <2>2, <3>1 DEF ClassifyGcaBlock
        <3> HIDE DEF last
        <3>5. other[k].term = IF IsGuardedExit(last) THEN "EXIT" ELSE blocks[k].term
            BY <3>1, <3>3, <3>4
               DEF ClassifyTerminator, IsGuardedExit, IsExit, IsIndirect, IsBranch
        <3> QED  BY <3>5 DEF last
    <2> QED  BY <2>2, <2>4, <2>5, <2>6 DEF BackendsAgree, other
<1> QED  BY <1>1, Invariant, PTL
=============================================================================
