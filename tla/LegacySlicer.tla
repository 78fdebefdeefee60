----------------------------- MODULE LegacySlicer -----------------------------
(***************************************************************************)
(* The earlier slicer, sass/slicer.py, as a function of its graph: reaching *)
(* definitions, post-dominators, dominance frontiers and the rounds that   *)
(* add control dependencies.                                               *)
(*                                                                         *)
(* The source repeats a pass until one changes nothing.  Here it is        *)
(* repeated as often as it could possibly change something: from the first *)
(* pass that changes nothing on, none does.                                *)
(***************************************************************************)
EXTENDS LegacyCfg, DefUse

-----------------------------------------------------------------------------
(* What an instruction reads and writes.                                   *)

\* Operands in brackets, [R8]: read, unless they stand where a write would.
IsAddress(i, k) == <<i.op, k>> \in {<<"STG", 1>>, <<"LDG.E.128", 2>>}

LegacyWriteCount(i) ==
    CASE i.op \in {"BRX", "RET"} \/ IsBraU(i) -> 0
      [] i.op = "ELECT" -> 2
      [] i.op = "IADD3" /\ Len(i.regs) \in {5, 6} -> Len(i.regs) - 3
      [] OTHER -> 1

LegacyWrites(i) ==
    UNION {AdjacentRegs(i.regs[k], MultiWriter(i, k)) :
              k \in {j \in DOMAIN i.regs : /\ j <= LegacyWriteCount(i)
                                          /\ ~ IsAddress(i, j)
                                          /\ i.regs[j] \notin ConstantRegs}}

LegacyReads(i) ==
    (GuardRegs(i) \cup {i.regs[k] : k \in {j \in DOMAIN i.regs : j > LegacyWriteCount(i)}})
    \ ConstantRegs

-----------------------------------------------------------------------------
(* Reaching definitions, pairs <<register, position>>.                     *)

AllDefinitions(instrs) ==
    UNION {{<<r, p>> : r \in LegacyWrites(instrs[p])} : p \in DOMAIN instrs}

Gens(instrs, p) == {d \in AllDefinitions(instrs) : d[2] = p}

\* Operators named after a fault are variants of the one that follows them; no
\* specification uses them.
KillsThroughGuard(instrs, p) ==
    {d \in AllDefinitions(instrs) : d[1] \in LegacyWrites(instrs[p])} \ Gens(instrs, p)

Kills(instrs, p) ==
    IF instrs[p].guard # "none" THEN {}
    ELSE {d \in AllDefinitions(instrs) : d[1] \in LegacyWrites(instrs[p])} \ Gens(instrs, p)

HomeOf(g, p) == CHOOSE b \in DOMAIN g : Contains(g[b].code, p)

ReachingIn(g, rd, p) ==
    LET b == HomeOf(g, p)
    IN  IF p # g[b].code[1] THEN rd[p - 1]
        ELSE UNION {rd[Last(g[a].code)] : a \in {c \in Predecessors(g, b) : g[c].code # <<>>}}

ReachPass(g, instrs, rd) ==
    LET visited[p \in 0 .. Len(instrs)] ==
            IF p = 0 THEN rd
            ELSE LET before == visited[p - 1]
                 IN  [before EXCEPT ![p] =
                         Gens(instrs, p) \cup (ReachingIn(g, before, p) \ Kills(instrs, p))]
    IN  visited[Len(instrs)]

SettledReach(g, instrs) ==
    LET most == Len(instrs) * Cardinality(AllDefinitions(instrs))
        settled[n \in 0 .. most] ==
            IF n = 0 THEN [p \in DOMAIN instrs |-> {}] ELSE ReachPass(g, instrs, settled[n - 1])
    IN  settled[most]

\* rdefs: the instructions whose results an instruction reads.
ReadDefinitions(g, instrs) ==
    LET rd == SettledReach(g, instrs)
    IN  [p \in DOMAIN instrs |->
            {d[2] : d \in {e \in ReachingIn(g, rd, p) : e[1] \in LegacyReads(instrs[p])}}]

-----------------------------------------------------------------------------
(* Dominators of the reversed graph, where successors are predecessors.    *)

NoBlock == StartBlock - 1

DomPass(g, out) ==
    LET visited[b \in NoBlock .. Cardinality(DOMAIN g) + NoBlock] ==
            IF b = NoBlock THEN out
            ELSE LET before == visited[b - 1]
                 IN  [before EXCEPT ![b] =
                         {b} \cup {d \in DOMAIN g : /\ Successors(g, b) # {}
                                                    /\ \A s \in Successors(g, b) : d \in before[s]}]
    IN  visited[Cardinality(DOMAIN g) + NoBlock]

PostDoms(g) ==
    LET most == Cardinality(DOMAIN g) * Cardinality(DOMAIN g)
        settled[n \in 0 .. most] ==
            IF n = 0 THEN [b \in DOMAIN g |-> DOMAIN g] ELSE DomPass(g, settled[n - 1])
    IN  settled[most]

\* The strict dominator with most dominators; ties, which need a block that
\* reaches no exit, are broken by the order of a Python set of names.
Idoms(dom) ==
    [b \in DOMAIN dom |->
        LET deepest == {d \in dom[b] \ {b} : \A e \in dom[b] \ {b} :
                            Cardinality(dom[e]) <= Cardinality(dom[d])}
        IN  IF deepest = {} THEN NoBlock ELSE FirstOf(deepest)]

\* The blocks on the way from one block up to another, which is not among them.
WalkUp(idom, block, stop) ==
    LET most == Cardinality(DOMAIN idom)
        walked[n \in 0 .. most] ==
            IF n = 0 THEN {block} \ {stop}
            ELSE LET before == walked[n - 1]
                 IN  before \cup ({idom[b] : b \in before} \ {stop})
    IN  walked[most]

Frontiers(g) ==
    LET idom == Idoms(PostDoms(g))
        joins == {b \in DOMAIN g : Cardinality(Successors(g, b)) > 1}
    IN  [a \in DOMAIN g |->
            {b \in joins : \E s \in Successors(g, b) : a \in WalkUp(idom, s, idom[b])}]

-----------------------------------------------------------------------------
(* Slicer.slice                                                            *)

MarkImportant(rdefs, addresses) ==
    LET most == Cardinality(DOMAIN rdefs)
        marked[n \in 0 .. most] ==
            IF n = 0 THEN addresses
            ELSE LET before == marked[n - 1] IN before \cup UNION {rdefs[p] : p \in before}
    IN  marked[most]

\* The control instructions in the frontiers of a block with important code.
ImportantCdeps(g, instrs, df, important) ==
    {Last(g[c].code) :
        c \in {a \in DOMAIN g : /\ g[a].code # <<>>
                                /\ IsControlInsn(instrs[Last(g[a].code)])
                                /\ \E p \in important : a \in df[HomeOf(g, p)]}} \ important

\* The addresses that are asked for are marked in the first round.
SliceRounds(g, instrs, rdefs, df, addresses) ==
    LET round(important, new) ==
            important \cup MarkImportant(rdefs, new \cup ImportantCdeps(g, instrs, df, important))
        sliced[n \in 0 .. Len(instrs)] ==
            IF n = 0 THEN round(addresses, addresses) ELSE round(sliced[n - 1], {})
    IN  sliced[Len(instrs)]

LegacySlice(instrs, labels) ==
    LET g == BuildLegacyCfg(instrs)
    IN  SliceRounds(g, instrs, ReadDefinitions(g, instrs), Frontiers(g), labels)
=============================================================================
