-------------------------------- MODULE Slicer --------------------------------
(***************************************************************************)
(* slice_cfg: which instructions of a graph an analysis keeps, given the   *)
(* mnemonics it asks for.  Three fixpoints follow one another:             *)
(*                                                                         *)
(*   reach      reaching definitions, one instruction per step, repeated   *)
(*              until a pass over the whole graph changes nothing;         *)
(*   data       a worklist from the seeds back to the definitions they     *)
(*              read;                                                      *)
(*   pdom, frontier, control                                               *)
(*              only if control is to be kept: post-dominators, their      *)
(*              frontiers, and rounds that add the branches on which the   *)
(*              instructions kept so far depend, and what those read.      *)
(*                                                                         *)
(* An instruction is identified by its position in the function, a         *)
(* definition is a pair <<register, position>>.  The source pops the last  *)
(* element of a worklist that is first filled from a set, so in no fixed   *)
(* order: here any element is popped.                                      *)
(***************************************************************************)
EXTENDS SassCfg, DefUse

CONSTANTS
    Graphs,        \* the graphs to slice
    Pattern,       \* the mnemonics that match the pattern
    KeepControl    \* the values of keep_control, a subset of BOOLEAN

InstrPositions(blocks, k) == blocks[k].first .. blocks[k].first + Len(blocks[k].instructions) - 1

\* Blocks that follow one another from position 1 on, none of them empty, with
\* edges between them that both ends know.
IsCfg(g) ==
    /\ Cardinality(DOMAIN g) \in Nat
    /\ DOMAIN g = 0 .. Cardinality(DOMAIN g) - 1
    /\ \A k \in DOMAIN g :
          /\ g[k].first \in Nat
          /\ g[k].first = IF k = 0 THEN 1
                          ELSE g[k - 1].first + Len(g[k - 1].instructions)
          /\ g[k].instructions \in Seq(Range(g[k].instructions))
          /\ g[k].instructions # <<>>
          /\ g[k].succs \in Seq(DOMAIN g)
          /\ g[k].preds = {j \in DOMAIN g : k \in ToSet(g[j].succs)}

ASSUME GraphsAssumption == \A g \in Graphs : IsCfg(g)

ASSUME KeepControlAssumption == KeepControl \subseteq BOOLEAN

None == -1

-----------------------------------------------------------------------------
VARIABLES
    cfg,           \* the graph, fixed by Init
    keepControl,   \* keep_control, fixed by Init
    idToInstr,     \* the instruction at each position, fixed by Init
    genMap,        \* the definitions of each instruction, fixed by Init
    killMap,       \* the definitions that each instruction ends, fixed by Init
    phase,         \* "reach", "data", "pdom", "frontier", "control" or "done"
    next,          \* the instruction (reach) or block (pdom) to visit
    changed,       \* whether the current pass has changed anything
    rd,            \* definitions that leave each instruction
    rdIn,          \* definitions that reach each instruction
    important,     \* instructions to keep
    worklist,      \* those whose operands have not been followed yet
    pdom,          \* post-dominators of each block
    pdf,           \* post-dominance frontier of each block
    walks          \* runners of the frontier computation still to run

inputs == <<cfg, keepControl, idToInstr, genMap, killMap>>
vars == <<inputs, phase, next, changed, rd, rdIn, important, worklist,
          pdom, pdf, walks>>
reaching == <<next, changed, rd, rdIn>>
dominance == <<pdom, pdf, walks>>

Positions == DOMAIN idToInstr

BlockOf(p)  == CHOOSE k \in DOMAIN cfg : p \in InstrPositions(cfg, k)
LastOf(k)   == cfg[k].first + Len(cfg[k].instructions) - 1

-----------------------------------------------------------------------------
(* Reaching definitions.                                                   *)

Gen(instr, p) == {<<r, p>> : r \in DefsOf(instr[p])}

AllDefs == UNION {genMap[p] : p \in DOMAIN genMap}

\* Operators named after a fault are variants of the one that follows them; no
\* specification uses them.
\* A guarded instruction taken for one that always writes.
KillGuardedToo(instr, defs, p) == {d \in defs : d[1] \in DefsOf(instr[p]) /\ d[2] # p}

KillNothing(instr, defs, p) == {}

\* A guarded instruction may leave the old value.
Kill(instr, defs, p) ==
    IF IsPredicated(instr[p]) THEN {}
    ELSE {d \in defs : d[1] \in DefsOf(instr[p]) /\ d[2] # p}

\* Only the first edge into the block.
IncomingOne(p) ==
    IF p # cfg[BlockOf(p)].first THEN rd[p - 1]
    ELSE UNION {rd[LastOf(k)] :
                  k \in {j \in cfg[BlockOf(p)].preds :
                            \A i \in cfg[BlockOf(p)].preds : j <= i}}

Incoming(p) ==
    IF p = cfg[BlockOf(p)].first THEN UNION {rd[LastOf(k)] : k \in cfg[BlockOf(p)].preds}
    ELSE rd[p - 1]

\* Only what the last visit did not have.
TransferNewOnly(p) == genMap[p] \cup ((Incoming(p) \ killMap[p]) \ rd[p])

Transfer(p) == genMap[p] \cup (Incoming(p) \ killMap[p])

ReachInstr ==
    /\ phase = "reach"
    /\ next \in Positions
    /\ rdIn' = [rdIn EXCEPT ![next] = Incoming(next)]
    /\ rd' = [rd EXCEPT ![next] = Transfer(next)]
    /\ changed' = (changed \/ Transfer(next) # rd[next])
    /\ next' = next + 1
    /\ UNCHANGED <<inputs, phase, important, worklist, dominance>>

ReachAgain ==
    /\ phase = "reach" /\ next \notin Positions /\ changed
    /\ next' = 1 /\ changed' = FALSE
    /\ UNCHANGED <<inputs, phase, rd, rdIn, important, worklist, dominance>>

ReachDone ==
    /\ phase = "reach" /\ next \notin Positions /\ ~ changed
    /\ phase' = "data"
    /\ UNCHANGED <<inputs, important, worklist, reaching, dominance>>

-----------------------------------------------------------------------------
(* The walk back along the definitions that an instruction reads.          *)

DefinitionsRead(p) == {d[2] : d \in {e \in rdIn[p] : e[1] \in UsesOf(idToInstr[p])}}

\* Definitions kept without following their own operands.
FollowOneLevel ==
    /\ phase \in {"data", "control"}
    /\ \E p \in worklist :
          /\ important' = important \cup DefinitionsRead(p)
          /\ worklist' = worklist \ {p}
    /\ UNCHANGED <<inputs, phase, reaching, dominance>>

\* Definitions followed but not kept.
FollowWithoutKeeping ==
    /\ phase \in {"data", "control"}
    /\ \E p \in worklist : worklist' = (worklist \ {p}) \cup (DefinitionsRead(p) \ important)
    /\ UNCHANGED <<inputs, phase, important, reaching, dominance>>

FollowOperands ==
    /\ phase \in {"data", "control"}
    /\ \E p \in worklist :
          LET found == DefinitionsRead(p) \ important
          IN  /\ important' = important \cup found
              /\ worklist' = (worklist \ {p}) \cup found
    /\ UNCHANGED <<inputs, phase, reaching, dominance>>

-----------------------------------------------------------------------------
(* Post-dominators: dominators of the reversed graph, entered at a virtual *)
(* block behind all exits.                                                 *)

VirtualExit == Cardinality(DOMAIN cfg)
AllBlocks   == DOMAIN cfg \cup {VirtualExit}

\* rev_preds: the successors of the block, then the virtual exit.
RevPreds(b) ==
    IF b = VirtualExit THEN <<>>
    ELSE cfg[b].succs \o (IF b \in ExitBlocks(cfg) THEN <<VirtualExit>> ELSE <<>>)

\* keep_control and cfg.exit_blocks
DataDone ==
    /\ phase = "data" /\ worklist = {}
    /\ IF keepControl /\ ExitBlocks(cfg) # {}
       THEN /\ phase' = "pdom"
            /\ pdom' = [b \in AllBlocks |-> IF b = VirtualExit THEN {b} ELSE AllBlocks]
            /\ next' = 0
       ELSE phase' = "done" /\ UNCHANGED <<pdom, next>>
    /\ changed' = FALSE
    /\ UNCHANGED <<inputs, rd, rdIn, important, worklist, pdf, walks>>

NewDom(b) ==
    {b} \cup {c \in AllBlocks :
                 RevPreds(b) # <<>> /\ \A q \in ToSet(RevPreds(b)) : c \in pdom[q]}

PdomBlock ==
    /\ phase = "pdom"
    /\ next \in DOMAIN cfg
    /\ pdom' = [pdom EXCEPT ![next] = NewDom(next)]
    /\ changed' = (changed \/ NewDom(next) # pdom[next])
    /\ next' = next + 1
    /\ UNCHANGED <<inputs, phase, rd, rdIn, important, worklist, pdf, walks>>

PdomAgain ==
    /\ phase = "pdom" /\ next \notin DOMAIN cfg /\ changed
    /\ next' = 0 /\ changed' = FALSE
    /\ UNCHANGED <<inputs, phase, rd, rdIn, important, worklist, dominance>>

\* The strict post-dominator with most post-dominators.  Several have as many
\* only where no exit can be reached; the source takes the first that the
\* iteration over a set of block numbers meets, here the smallest.
Ipdom(b) ==
    LET candidates == pdom[b] \ {b}
        deepest == {c \in candidates :
                       \A d \in candidates : Cardinality(pdom[d]) <= Cardinality(pdom[c])}
    IN  IF candidates = {} THEN None
        ELSE CHOOSE c \in deepest : \A d \in deepest : c <= d

Runners(b) ==
    IF Len(RevPreds(b)) < 2 THEN <<>>
    ELSE [i \in DOMAIN RevPreds(b) |-> [block |-> b, runner |-> RevPreds(b)[i]]]

PdomDone ==
    /\ phase = "pdom" /\ next \notin DOMAIN cfg /\ ~ changed
    /\ phase' = "frontier"
    /\ pdf' = [b \in AllBlocks |-> {}]
    /\ walks' = FlattenSeq([k \in 1 .. Cardinality(DOMAIN cfg) |-> Runners(k - 1)])
    /\ UNCHANGED <<inputs, important, worklist, pdom, reaching>>

-----------------------------------------------------------------------------
(* Dominance frontiers: a runner walks up from each predecessor.           *)

\* The walk ends too late: the immediate dominator's own frontier grows too.
RunnerStopsLate(w) == w.runner = None

RunnerStops(w) == w.runner = None \/ w.runner = Ipdom(w.block)

FrontierStep ==
    /\ phase = "frontier" /\ walks # <<>>
    /\ LET w == Head(walks)
       IN  IF RunnerStops(w)
           THEN walks' = Tail(walks) /\ UNCHANGED pdf
           ELSE /\ pdf' = [pdf EXCEPT ![w.runner] = @ \cup {w.block}]
                /\ walks' = <<[w EXCEPT !.runner = Ipdom(w.runner)]>> \o Tail(walks)
    /\ UNCHANGED <<inputs, phase, important, worklist, pdom, reaching>>

FrontierDone ==
    /\ phase = "frontier" /\ walks = <<>>
    /\ phase' = "control"
    /\ UNCHANGED <<inputs, important, worklist, reaching, dominance>>

-----------------------------------------------------------------------------
(* Control dependencies.                                                   *)

BlocksWithImportant == {k \in DOMAIN cfg : InstrPositions(cfg, k) \cap important # {}}

IsControl(p) == IsBranch(idToInstr[p]) \/ IsExit(idToInstr[p])

\* The branches on which blocks with important instructions depend.
Controllers ==
    {p \in {LastOf(c) : c \in {k \in DOMAIN cfg : \E b \in BlocksWithImportant : k \in pdf[b]}} :
        IsControl(p)}

\* Controllers that are kept already found again in every round.
ControlRoundRepeats ==
    /\ phase = "control" /\ worklist = {}
    /\ important' = important \cup Controllers
    /\ worklist' = Controllers
    /\ phase' = IF Controllers = {} THEN "done" ELSE "control"
    /\ UNCHANGED <<inputs, reaching, dominance>>

ControlRound ==
    /\ phase = "control" /\ worklist = {}
    /\ LET new == Controllers \ important
       IN  /\ important' = important \cup new
           /\ worklist' = new
           /\ phase' = IF new = {} THEN "done" ELSE "control"
    /\ UNCHANGED <<inputs, reaching, dominance>>

-----------------------------------------------------------------------------
AllPositions(g) == UNION {InstrPositions(g, k) : k \in DOMAIN g}

InstrAt(g, p) ==
    LET k == CHOOSE k \in DOMAIN g : p \in InstrPositions(g, k)
    IN  g[k].instructions[p - g[k].first + 1]

SliceSeeds(instr) == {p \in DOMAIN instr : instr[p].op \in Pattern}

Init ==
    /\ cfg \in Graphs
    /\ keepControl \in KeepControl
    /\ idToInstr = [p \in AllPositions(cfg) |-> InstrAt(cfg, p)]
    /\ genMap = [p \in Positions |-> Gen(idToInstr, p)]
    /\ killMap = [p \in Positions |-> Kill(idToInstr, AllDefs, p)]
    /\ phase = "reach"
    /\ next = 1
    /\ changed = FALSE
    /\ rd = [p \in Positions |-> {}]
    /\ rdIn = [p \in Positions |-> {}]
    /\ important = SliceSeeds(idToInstr)
    /\ worklist = SliceSeeds(idToInstr)
    /\ pdom = <<>> /\ pdf = <<>> /\ walks = <<>>

Next ==
    \/ ReachInstr \/ ReachAgain \/ ReachDone
    \/ FollowOperands \/ DataDone
    \/ PdomBlock \/ PdomAgain \/ PdomDone
    \/ FrontierStep \/ FrontierDone
    \/ ControlRound

Spec == Init /\ [][Next]_vars

\* One thread runs the slicer: it does its next step as long as there is one.
FairSpec == Spec /\ WF_vars(Next)

-----------------------------------------------------------------------------
(* Dependencies, by the paths of the graph and without any fixpoint of the *)
(* source; the reference for what a slice must contain.                    *)

\* One edge further.
Onward(nodes, edges) == nodes \cup {e[2] : e \in {f \in edges : f[1] \in nodes}}

\* What edges lead to from a set of nodes, with the set itself.
ClosureOf(S, edges) ==
    LET reached[n \in 0 .. Cardinality(edges)] ==
            IF n = 0 THEN S ELSE Onward(reached[n - 1], edges)
    IN  reached[Cardinality(edges)]

InstrEdges ==
    UNION {{<<p, p + 1>> : p \in InstrPositions(cfg, k) \ {LastOf(k)}}
              \cup {<<LastOf(k), cfg[s].first>> : s \in ToSet(cfg[k].succs)} : k \in DOMAIN cfg}

AlwaysWrites(p, r) == r \in DefsOf(idToInstr[p]) /\ ~ IsPredicated(idToInstr[p])

\* The instructions to which some path takes the value of r written at p.
Sees(p, r) ==
    ClosureOf({e[2] : e \in {f \in InstrEdges : f[1] = p}},
              {e \in InstrEdges : ~ AlwaysWrites(e[1], r)})

DataDependencies(p) ==
    {d \in Positions : \E r \in DefsOf(idToInstr[d]) \cap UsesOf(idToInstr[p]) : p \in Sees(d, r)}

BlockEdges == UNION {{<<k, s>> : s \in ToSet(RevPreds(k))} : k \in DOMAIN cfg}

\* Every way from a to an exit passes through b.
PostDominates(b, a) ==
    a = b \/ VirtualExit \notin ClosureOf({a}, {e \in BlockEdges : e[1] # b})

\* One of the ways out of c makes b inevitable, another avoids it.
ControlDependsOn(b, c) ==
    /\ \E s \in ToSet(RevPreds(c)) : PostDominates(b, s)
    /\ \E s \in ToSet(RevPreds(c)) : ~ PostDominates(b, s)

\* Some way from the block leads to an exit.
Exits(g, k) ==
    ClosureOf({k}, UNION {{<<j, s>> : s \in ToSet(g[j].succs)} : j \in DOMAIN g})
        \cap ExitBlocks(g) # {}

\* Every block leads somewhere, and where one can go on in more than one way each
\* of them leads to an exit.  The loop on itself that closes every dump is allowed.
ChoicesExit(g) ==
    \A k \in DOMAIN g :
        /\ g[k].succs # <<>> \/ k \in ExitBlocks(g)
        /\ Len(g[k].succs) > 1 \/ k \in ExitBlocks(g) => \A s \in ToSet(g[k].succs) : Exits(g, s)

ControlDependencies(p) ==
    {LastOf(c) : c \in {b \in DOMAIN cfg : /\ IsControl(LastOf(b))
                                          /\ ControlDependsOn(BlockOf(p), b)}}

Dependencies(p) ==
    DataDependencies(p) \cup (IF keepControl THEN ControlDependencies(p) ELSE {})

-----------------------------------------------------------------------------
(* Properties.  Those of the control dependencies are for graphs in which  *)
(* every choice leads to an exit.                                          *)

\* Every variable keeps its type in every phase (cfg is never assigned).
TypeOK ==
    /\ keepControl \in BOOLEAN
    /\ phase \in {"reach", "data", "pdom", "frontier", "control", "done"}
    /\ next \in Nat
    /\ changed \in BOOLEAN
    /\ killMap \in [Positions -> SUBSET AllDefs]
    /\ rd \in [Positions -> SUBSET AllDefs]
    /\ rdIn \in [Positions -> SUBSET AllDefs]
    /\ important \subseteq Positions
    /\ worklist \subseteq important

\* The iteration to a fixpoint only ever adds definitions, in whatever order the
\* blocks of a loop are visited; this is why it ends.
ReachingGrows == [][\A p \in Positions : rd[p] \subseteq rd'[p]]_vars

\* compute_reaching_definitions finds exactly the definitions whose value some
\* path of the graph takes to the instruction, around loops and past guarded
\* instructions, which may leave the old value.
ReachingIsExact ==
    phase = "data" =>
        \A p \in Positions : rdIn[p] = {d \in AllDefs : p \in Sees(d[2], d[1])}

\* The two rounds of the walk share one worklist: an instruction that is kept
\* and no longer waits has had all the definitions it reads kept.
WorklistCoversGaps ==
    phase # "reach" =>
        \A p \in important \ worklist : DefinitionsRead(p) \subseteq important

\* The dominance frontiers of the reversed graph are the control dependencies.
FrontiersAreControlDependencies ==
    phase = "control" =>
        \A b \in DOMAIN cfg : pdf[b] = {c \in DOMAIN cfg : ControlDependsOn(b, c)}

\* A finished slice keeps everything that an instruction it keeps depends on.
SliceComplete == phase = "done" => \A p \in important : Dependencies(p) \subseteq important

\* A finished slice keeps nothing else, whatever order the worklist took.
SliceMinimal ==
    phase = "done" =>
        important \subseteq
            ClosureOf(SliceSeeds(idToInstr),
                      UNION {{<<p, q>> : q \in Dependencies(p)} : p \in Positions})

\* The three fixpoints and the walks up the dominator tree all end: slice_cfg
\* "returns a new CFG".
SliceReturns == <>(phase = "done")
=============================================================================
