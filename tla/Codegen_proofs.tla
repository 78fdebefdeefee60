---------------------------- MODULE Codegen_proofs ----------------------------
(***************************************************************************)
(* For every graph: the definitions that the code generator emits test     *)
(* different labels, are one chain per block, leave a block along its      *)
(* edges and lead to labels that are tested.                               *)
(***************************************************************************)
EXTENDS Codegen, Lemmas

-----------------------------------------------------------------------------
(* Records and labels.                                                     *)

\* The record of a definition with its labels.
LEMMA PlacedFields ==
    ASSUME NEW d, "kind" \in DOMAIN d, NEW a, NEW b
    PROVE  LET r == Placed(d, a, b)
           IN  r.kind = d.kind /\ r.at = a /\ r.to = b
BY DEF Placed

LEMMA BlockLabelsDiffer ==
    ASSUME NEW j \in Nat, NEW k \in Nat
    PROVE  /\ BlockLabel(j) = BlockLabel(k) => j = k
           /\ \A n : BlockLabel(j) # <<"state", n>>
BY DEF BlockLabel, StartLabel
-----------------------------------------------------------------------------
(* The inductive invariant, between two blocks and inside one.             *)

IsThread(th) ==
    /\ DOMAIN th = {"cur", "states", "defs", "log"}
    /\ th.states \in Nat
    /\ IsSequence(th.defs)

BlockLabels == {BlockLabel(j) : j \in DOMAIN cfg}

\* The labels of the blocks before id and the numbered ones.
Used(th, id) ==
    {BlockLabel(j) : j \in 0 .. id - 1} \cup {<<"state", m>> : m \in 0 .. th.states - 1}

Tested(th, label) == \E j \in DOMAIN th.defs : th.defs[j].def.at = label

Successorless(id) == cfg[id].succs = <<>>

\* A definition at the end of a block stays in the graph.
Leaves(e) ==
    IF e.def.kind = "stop" THEN cfg[e.from[1]].term = "EXIT" \/ Successorless(e.from[1])
    ELSE TargetsOf(e.def) \subseteq {BlockLabel(s) : s \in ToSet(cfg[e.from[1]].succs)}

\* One definition, of a block before id.
EntryOK(th, id, e) ==
    /\ e.from[1] \in 0 .. id - 1 /\ e.from[2] \in Nat
    /\ e.from = <<e.from[1], e.from[2]>>
    /\ e.def.at \in Used(th, id)
    /\ TargetsOf(e.def) \subseteq AllocatedLabel(cfg, th)
    /\ e.from[2] = 0 => Leaves(e)

Distinct(th) ==
    \A j, k \in DOMAIN th.defs : th.defs[j].def.at = th.defs[k].def.at => j = k

Follows(d, e) ==
    IF d.from[1] # e.from[1] THEN e.def.at = BlockLabel(e.from[1])
    ELSE /\ TargetsOf(d.def) = {e.def.at}
         /\ e.from[2] # 0 => d.from[2] < e.from[2]
         /\ d.from[2] # 0

Chained(th) ==
    \A k \in DOMAIN th.defs :
        IF k = 1 THEN th.defs[k].def.at = BlockLabel(th.defs[k].from[1])
        ELSE Follows(th.defs[k - 1], th.defs[k])

Sound(th, id) ==
    /\ IsThread(th)
    /\ \A k \in DOMAIN th.defs : EntryOK(th, id, th.defs[k])
    /\ Distinct(th)
    /\ Chained(th)

\* Every block before id is entered where its label is, or has nowhere to go.
Entered(th, id) == \A j \in 0 .. id - 1 : Successorless(j) \/ Tested(th, BlockLabel(j))

Led(th, e) ==
    \A label \in TargetsOf(e.def) :
        label \in BlockLabels \/ Tested(th, label) \/ Successorless(e.from[1])

\* The blocks before id are encoded.
Between(th, id) ==
    /\ Sound(th, id)
    /\ Entered(th, id)
    /\ \A k \in DOMAIN th.defs : Led(th, th.defs[k])

LastDef(th) == th.defs[Len(th.defs)]

Started(th, id) == th.defs # <<>> /\ LastDef(th).from[1] = id

\* So are the first n instructions of block id; cur is where the last of their
\* definitions leads.
Inside(th, id, n) ==
    /\ Sound(th, id + 1)
    /\ Entered(th, id)
    /\ th.cur \in Used(th, id + 1) /\ ~ Tested(th, th.cur)
    /\ IF Started(th, id)
       THEN /\ TargetsOf(LastDef(th).def) = {th.cur} /\ LastDef(th).from[2] \in 1 .. n
            /\ Tested(th, BlockLabel(id))
       ELSE th.cur = BlockLabel(id)
    /\ \A k \in DOMAIN th.defs :
          \/ Led(th, th.defs[k])
          \/ th.defs[k].from[1] = id /\ TargetsOf(th.defs[k].def) = {th.cur}

\* The places that have a definition, and where the definitions that end the
\* encoding of a block lead.
Emitted(th) == {th.defs[k].from : k \in DOMAIN th.defs}

FlowLabels(th, id) ==
    UNION {TargetsOf(th.defs[k].def) : k \in {j \in DOMAIN th.defs : th.defs[j].from = <<id, 0>>}}

\* In a block where the slicer left the terminator: nothing with a handler is
\* missing, and a predicated branch keeps its outcomes.
PlacesKept(th, id) ==
    TerminatorKept(cfg[id]) =>
        \A k \in DOMAIN cfg[id].instructions :
            cfg[id].instructions[k].op \in HandledOps => <<id, k>> \in Emitted(th)

OutcomesKept(th, id) ==
    TerminatorKept(cfg[id]) =>
        LET last == Last(cfg[id].instructions)
        IN  cfg[id].succs # <<>> /\ IsBranch(last) /\ BranchPred(last) \in {"P0", "!P0"} =>
                FlowLabels(th, id) = {BlockLabel(s) : s \in ToSet(cfg[id].succs)}

\* The blocks before id have emitted what they should.
Complete(th, id) == \A j \in 0 .. id - 1 : PlacesKept(th, j) /\ OutcomesKept(th, j)

IInv ==
    /\ IsGraph(cfg)
    /\ next \in 0 .. Cardinality(DOMAIN cfg)
    /\ Between(thread, next)
    /\ Complete(thread, next)
-----------------------------------------------------------------------------
(* One more definition.                                                    *)

LEMMA UsedIsAllocated ==
    ASSUME IsGraph(cfg), NEW id \in DOMAIN cfg, NEW th, IsThread(th)
    PROVE  /\ id \in Nat /\ Used(th, id + 1) \subseteq AllocatedLabel(cfg, th)
           /\ BlockLabel(id) \in Used(th, id + 1)
           /\ BlockLabels \subseteq AllocatedLabel(cfg, th)
<1>1. /\ id \in Nat /\ \A j \in 0 .. id : j \in DOMAIN cfg
      /\ DOMAIN cfg \subseteq Nat
    BY DEF IsGraph
<1>2. \A j \in DOMAIN cfg : BlockLabel(j) \in AllocatedLabel(cfg, th)
    BY DEF BlockLabel, AllocatedLabel
<1> QED  BY <1>1, <1>2 DEF Used, AllocatedLabel, BlockLabels

\* Labels stay used and tested when labels and definitions are added.
LEMMA Grown ==
    ASSUME NEW th, NEW t, NEW e, IsThread(th), IsThread(t), t.defs = Append(th.defs, e),
           th.states <= t.states
    PROVE  /\ \A i \in Nat : Used(th, i) \subseteq Used(t, i)
           /\ AllocatedLabel(cfg, th) \subseteq AllocatedLabel(cfg, t)
           /\ \A label : Tested(t, label) <=> Tested(th, label) \/ label = e.def.at
<1>1. th.states \in Nat /\ t.states \in Nat
    BY DEF IsThread
<1>2. 0 .. th.states - 1 \subseteq 0 .. t.states - 1
    BY <1>1
<1>3. ASSUME NEW label
      PROVE  Tested(t, label) <=> Tested(th, label) \/ label = e.def.at
    <2>1. /\ DOMAIN t.defs = 1 .. Len(th.defs) + 1 /\ DOMAIN th.defs = 1 .. Len(th.defs)
          /\ Len(th.defs) \in Nat
          /\ \A k \in DOMAIN th.defs : t.defs[k] = th.defs[k]
          /\ t.defs[Len(th.defs) + 1] = e
        BY AppendItem DEF IsThread
    <2> QED  BY <2>1 DEF Tested
<1> QED  BY <1>2, <1>3 DEF Used, AllocatedLabel

\* A definition that tests cur, which no other does, keeps what holds of the others.
LEMMA OneMore ==
    ASSUME IsGraph(cfg), NEW id \in DOMAIN cfg, NEW n \in Nat, NEW th, Inside(th, id, n),
           NEW t, IsThread(t), th.states <= t.states,
           NEW e, t.defs = Append(th.defs, e),
           NEW m \in Nat, e.from = <<id, m>>, m # 0 => n < m,
           e.def.at = th.cur, TargetsOf(e.def) \subseteq AllocatedLabel(cfg, t),
           m = 0 => Leaves(e)
    PROVE  /\ Sound(t, id + 1) /\ Entered(t, id + 1)
           /\ Tested(t, BlockLabel(id))
           /\ \A k \in DOMAIN th.defs : Led(t, t.defs[k])
           /\ DOMAIN t.defs = DOMAIN th.defs \cup {Len(t.defs)}
           /\ t.defs # <<>> /\ LastDef(t) = e
<1> DEFINE len == Len(th.defs)
<1>1. /\ IsThread(th) /\ Sound(th, id + 1) /\ id \in Nat
      /\ th.states \in Nat /\ t.states \in Nat
    BY UsedIsAllocated DEF Inside, Sound, IsThread
<1>2. /\ DOMAIN t.defs = 1 .. len + 1 /\ DOMAIN th.defs = 1 .. len /\ len \in Nat
      /\ Len(t.defs) = len + 1
      /\ \A k \in 1 .. len : t.defs[k] = th.defs[k]
      /\ t.defs[len + 1] = e
    BY AppendItem, <1>1 DEF IsThread
<1>3. /\ Used(th, id + 1) \subseteq Used(t, id + 1)
      /\ AllocatedLabel(cfg, th) \subseteq AllocatedLabel(cfg, t)
      /\ \A label : Tested(t, label) <=> Tested(th, label) \/ label = th.cur
    <2>1. id + 1 \in Nat
        BY <1>1
    <2>2. /\ \A i \in Nat : Used(th, i) \subseteq Used(t, i)
          /\ AllocatedLabel(cfg, th) \subseteq AllocatedLabel(cfg, t)
          /\ \A label : Tested(t, label) <=> Tested(th, label) \/ label = e.def.at
        BY Grown, <1>1
    <2> QED  BY <2>1, <2>2
<1>4. Distinct(t)
    <2>1. \A k \in 1 .. len : t.defs[k].def.at # th.cur
        BY <1>2 DEF Inside, Tested
    <2>2. \A j, k \in 1 .. len : th.defs[j].def.at = th.defs[k].def.at => j = k
        BY <1>1, <1>2 DEF Sound, Distinct
    <2>3. t.defs[len + 1].def.at = th.cur
        BY <1>2
    <2>4. \A j, k \in 1 .. len + 1 : t.defs[j].def.at = t.defs[k].def.at => j = k
        BY <1>2, <2>1, <2>2, <2>3
    <2> QED  BY <1>2, <2>4 DEF Distinct
<1>5. Tested(t, BlockLabel(id))
    BY <1>3 DEF Inside
<1>6. Entered(t, id + 1)
    BY <1>1, <1>3, <1>5 DEF Inside, Entered
<1>7. \A k \in DOMAIN th.defs : Led(t, t.defs[k])
    BY <1>2, <1>3 DEF Inside, Led
<1>8. \A k \in DOMAIN t.defs : EntryOK(t, id + 1, t.defs[k])
    <2>1. EntryOK(t, id + 1, e)
        BY <1>1, <1>3 DEF EntryOK, Inside
    <2>2. \A k \in 1 .. len : EntryOK(t, id + 1, t.defs[k])
        BY <1>1, <1>2, <1>3 DEF Sound, EntryOK
    <2> QED  BY <1>2, <2>1, <2>2
<1>9. Chained(t)
    <2> SUFFICES ASSUME NEW k \in 1 .. len + 1
                 PROVE  IF k = 1 THEN t.defs[k].def.at = BlockLabel(t.defs[k].from[1])
                        ELSE Follows(t.defs[k - 1], t.defs[k])
        BY <1>2 DEF Chained
    <2>1. CASE k \in 1 .. len
        <3>1. t.defs[k] = th.defs[k] /\ k \in DOMAIN th.defs
            BY <2>1, <1>2
        <3>2. k # 1 => t.defs[k - 1] = th.defs[k - 1]
            BY <2>1, <1>2
        <3>3. IF k = 1 THEN th.defs[k].def.at = BlockLabel(th.defs[k].from[1])
              ELSE Follows(th.defs[k - 1], th.defs[k])
            BY <3>1, <1>1 DEF Sound, Chained
        <3> QED  BY <3>1, <3>2, <3>3
    <2>2. CASE k = len + 1 /\ Started(th, id)
        <3>1. /\ len # 0 /\ t.defs[k - 1] = LastDef(th) /\ t.defs[k] = e
              /\ LastDef(th).from[1] = id
            BY <2>2, <1>1, <1>2, SequenceDomain DEF LastDef, Started, IsThread
        <3>2. TargetsOf(LastDef(th).def) = {e.def.at} /\ LastDef(th).from[2] \in 1 .. n
            BY <2>2 DEF Inside
        <3> QED  BY <3>1, <3>2, <1>2, <2>2 DEF Follows
    <2>3. CASE k = len + 1 /\ ~ Started(th, id)
        <3>1. t.defs[k] = e /\ e.def.at = BlockLabel(e.from[1])
            BY <2>3, <1>2 DEF Inside
        <3>2. k # 1 => t.defs[k - 1] = LastDef(th) /\ LastDef(th).from[1] # id
            BY <2>3, <1>1, <1>2, SequenceDomain DEF LastDef, Started, IsThread
        <3> QED  BY <3>1, <3>2 DEF Follows
    <2> QED  BY <2>1, <2>2, <2>3
<1> QED  BY <1>1, <1>2, <1>4, <1>5, <1>6, <1>7, <1>8, <1>9, SequenceDomain
            DEF Sound, LastDef, IsThread

\* Where the encoding of a block starts.
LEMMA Begin ==
    ASSUME IsGraph(cfg), NEW id \in DOMAIN cfg, NEW th, Between(th, id)
    PROVE  Inside(SetState(th, BlockLabel(id)), id, 0)
<1> DEFINE t == SetState(th, BlockLabel(id))
<1>1. /\ id \in Nat /\ Sound(th, id) /\ IsThread(th) /\ th.states \in Nat
    BY UsedIsAllocated DEF Between, Sound, IsThread
<1>2. /\ t.cur = BlockLabel(id) /\ t.states = th.states /\ t.defs = th.defs
      /\ DOMAIN t = DOMAIN th
    BY <1>1 DEF SetState, IsThread
<1> HIDE DEF t
<1>3. /\ \A i : Used(t, i) = Used(th, i)
      /\ AllocatedLabel(cfg, t) = AllocatedLabel(cfg, th)
      /\ \A label : Tested(t, label) <=> Tested(th, label)
      /\ \A e : Led(t, e) <=> Led(th, e)
      /\ LastDef(t) = LastDef(th)
    BY <1>2 DEF Used, AllocatedLabel, Tested, Led, LastDef
<1>4. Used(th, id) \subseteq Used(th, id + 1)
    BY <1>1 DEF Used
<1>5. \A k \in DOMAIN t.defs : EntryOK(t, id + 1, t.defs[k])
    BY <1>1, <1>2, <1>3, <1>4 DEF Sound, EntryOK
<1>6. Sound(t, id + 1)
    BY <1>1, <1>2, <1>5 DEF Sound, IsThread, Distinct, Chained
<1>7. BlockLabel(id) \notin Used(th, id)
    BY <1>1, BlockLabelsDiffer DEF Used
<1>8. ~ Tested(t, t.cur)
    BY <1>1, <1>2, <1>3, <1>7 DEF Tested, Sound, EntryOK
<1>9. ~ Started(t, id)
    BY <1>1, <1>2, <1>3, SequenceDomain DEF Started, LastDef, Sound, EntryOK, IsThread
<1>10. t.cur \in Used(t, id + 1)
    BY <1>2, <1>6, UsedIsAllocated DEF Sound
<1> QED  BY <1>1, <1>2, <1>3, <1>6, <1>8, <1>9, <1>10 DEF Inside, Between, Entered, t

\* t has one definition more, from the label th is at to the one t is at.
Adds(th, t, from) ==
    \E e : /\ t.defs = Append(th.defs, e) /\ e.from = from
          /\ e.def.at = th.cur /\ TargetsOf(e.def) = {t.cur}

\* appendInstruction adds a definition between cur and a fresh label.
LEMMA Appended ==
    ASSUME NEW th, IsThread(th), NEW from, NEW prefix,
           NEW def, "kind" \in DOMAIN def, def.kind \notin {"branch", "brx", "stop"},
           NEW t, t = AppendInstruction(th, from, prefix, def)
    PROVE  /\ IsThread(t) /\ t.states = th.states + 1
           /\ t.cur = <<"state", th.states>>
           /\ Adds(th, t, from)
<1> DEFINE pushed == SetState(AllocateState(th), FreshLabel(th))
           d == Placed(def, th.cur, FreshLabel(th))
           e == [name |-> UniqueName(pushed, prefix), from |-> from, def |-> d]
<1>1. /\ DOMAIN pushed = {"cur", "states", "defs", "log"}
      /\ pushed.states = th.states + 1 /\ pushed.cur = <<"state", th.states>>
      /\ pushed.defs = th.defs
    BY DEF SetState, AllocateState, FreshLabel, IsThread
<1>2. d.kind = def.kind /\ d.at = th.cur /\ d.to = <<"state", th.states>>
    BY PlacedFields DEF FreshLabel
<1>3. t = [pushed EXCEPT !.defs = Append(@, e)]
    BY DEF AppendInstruction, AddDefinition
<1> HIDE DEF pushed, d
<1>4. /\ DOMAIN t = {"cur", "states", "defs", "log"} /\ t.states = th.states + 1
      /\ t.cur = <<"state", th.states>> /\ t.defs = Append(th.defs, e)
    BY <1>1, <1>3
<1>5. e.from = from /\ e.def = d
    OBVIOUS
<1>6. TargetsOf(e.def) = {t.cur}
    BY <1>2, <1>4, <1>5 DEF TargetsOf
<1> HIDE DEF e
<1>7. IsThread(t)
    BY <1>4, AppendItem DEF IsThread
<1> QED  BY <1>2, <1>4, <1>5, <1>6, <1>7 DEF Adds

\* One instruction inside a block.
LEMMA Emit ==
    ASSUME IsGraph(cfg), NEW id \in DOMAIN cfg, NEW n \in Nat, NEW th, Inside(th, id, n),
           NEW i
    PROVE  Inside(EmitInstruction(th, <<id, n + 1>>, i), id, n + 1)
<1> DEFINE from == <<id, n + 1>>
           t    == EmitInstruction(th, from, i)
<1>1. IsThread(th) /\ th.states \in Nat /\ id \in Nat /\ Sound(th, id + 1)
    BY UsedIsAllocated DEF Inside, Sound, IsThread
<1>2. ASSUME NEW prefix, NEW def, "kind" \in DOMAIN def,
             def.kind \notin {"branch", "brx", "stop"},
             t = AppendInstruction(th, from, prefix, def)
      PROVE  Inside(t, id, n + 1)
    <2> HIDE DEF t, from
    <2>1. PICK e : /\ IsThread(t) /\ t.states = th.states + 1
                   /\ t.cur = <<"state", th.states>>
                   /\ t.defs = Append(th.defs, e) /\ e.from = from
                   /\ e.def.at = th.cur /\ TargetsOf(e.def) = {t.cur}
        <3>1. /\ IsThread(t) /\ t.states = th.states + 1
              /\ t.cur = <<"state", th.states>>
            BY <1>1, <1>2, Appended
        <3>2. Adds(th, t, from)
            BY <1>1, <1>2, Appended
        <3> QED  BY <3>1, <3>2 DEF Adds
    <2>2. t.cur \in Used(t, id + 1)
        BY <1>1, <2>1 DEF Used
    <2>3. TargetsOf(e.def) \subseteq AllocatedLabel(cfg, t)
        BY <2>1, <2>2, UsedIsAllocated
    <2>4. /\ Sound(t, id + 1) /\ Entered(t, id + 1)
          /\ Tested(t, BlockLabel(id))
          /\ \A k \in DOMAIN th.defs : Led(t, t.defs[k])
          /\ DOMAIN t.defs = DOMAIN th.defs \cup {Len(t.defs)}
          /\ t.defs # <<>> /\ LastDef(t) = e
        <3>1. n + 1 \in Nat /\ n < n + 1 /\ n + 1 # 0 /\ th.states <= t.states
            BY <1>1, <2>1
        <3>2. e.from = <<id, n + 1>>
            BY <2>1 DEF from
        <3>3. IsThread(t) /\ t.defs = Append(th.defs, e) /\ e.def.at = th.cur
            BY <2>1
        <3> QED  BY <3>1, <3>2, <3>3, <2>3, OneMore
    <2>5. ~ Tested(t, t.cur)
        <3>1. <<"state", th.states>> \notin Used(th, id + 1)
            BY <1>1, BlockLabelsDiffer DEF Used
        <3>2. ~ Tested(th, t.cur)
            BY <1>1, <2>1, <3>1 DEF Tested, Sound, EntryOK
        <3>3. t.cur # th.cur
            BY <2>1, <3>1 DEF Inside
        <3>4. Tested(t, t.cur) <=> Tested(th, t.cur) \/ t.cur = e.def.at
            <4>1. IsThread(t) /\ t.defs = Append(th.defs, e) /\ th.states <= t.states
                BY <1>1, <2>1
            <4>2. \A label : Tested(t, label) <=> Tested(th, label) \/ label = e.def.at
                BY <1>1, <4>1, Grown
            <4> QED  BY <4>2
        <3> QED  BY <2>1, <3>2, <3>3, <3>4
    <2>6. Started(t, id) /\ LastDef(t).from[2] = n + 1
        BY <2>1, <2>4 DEF Started, from
    <2>7. Entered(t, id)
        BY <1>1, <2>4 DEF Entered
    <2>8. t.defs[Len(t.defs)].from[1] = id /\ TargetsOf(t.defs[Len(t.defs)].def) = {t.cur}
        BY <2>1, <2>4 DEF LastDef, from
    <2>9. n + 1 \in 1 .. n + 1
        OBVIOUS
    <2> QED  BY <2>1, <2>2, <2>4, <2>5, <2>6, <2>7, <2>8, <2>9 DEF Inside
<1>3. ASSUME t = [th EXCEPT !.log = @ \cup {from}]
      PROVE  Inside(t, id, n + 1)
    <2> HIDE DEF t
    <2>1. /\ t.cur = th.cur /\ t.states = th.states /\ t.defs = th.defs
          /\ DOMAIN t = DOMAIN th
        BY <1>1, <1>3 DEF IsThread
    <2>2. /\ \A j : Used(t, j) = Used(th, j)
          /\ AllocatedLabel(cfg, t) = AllocatedLabel(cfg, th)
          /\ \A label : Tested(t, label) <=> Tested(th, label)
          /\ \A e : Led(t, e) <=> Led(th, e)
          /\ LastDef(t) = LastDef(th)
          /\ Started(t, id) <=> Started(th, id)
        BY <2>1 DEF Used, AllocatedLabel, Tested, Led, LastDef, Started
    <2>3. Sound(t, id + 1)
        BY <1>1, <2>1, <2>2 DEF Sound, IsThread, Distinct, Chained, EntryOK
    <2>4. \A m : m \in 1 .. n => m \in 1 .. n + 1
        OBVIOUS
    <2>5. Entered(t, id)
        BY <2>2 DEF Inside, Entered
    <2> QED  BY <2>1, <2>2, <2>3, <2>4, <2>5 DEF Inside
<1>4. /\ "kind" \in DOMAIN [kind |-> "stutter"]
      /\ [kind |-> "stutter"].kind = "stutter"
      /\ "kind" \in DOMAIN [kind |-> "setp", addr |-> i.arg]
      /\ [kind |-> "setp", addr |-> i.arg].kind = "setp"
      /\ "kind" \in DOMAIN [kind |-> "inc", count |-> i.arg]
      /\ [kind |-> "inc", count |-> i.arg].kind = "inc"
      /\ "kind" \in DOMAIN [kind |-> "dec", count |-> i.arg]
      /\ [kind |-> "dec", count |-> i.arg].kind = "dec"
    OBVIOUS
<1>5. \/ \E prefix, def : /\ "kind" \in DOMAIN def
                          /\ def.kind \notin {"branch", "brx", "stop"}
                          /\ t = AppendInstruction(th, from, prefix, def)
      \/ t = [th EXCEPT !.log = @ \cup {from}]
    <2>1. CASE i.op = "WARPSYNC"
        <3>1. t = AppendInstruction(th, from, "warpsync", [kind |-> "stutter"])
            BY <2>1 DEF EmitInstruction
        <3> QED  BY <3>1, <1>4
    <2>2. CASE i.op = "ISETP"
        <3>1. t = AppendInstruction(th, from, "isetp", [kind |-> "setp", addr |-> i.arg])
            BY <2>2 DEF EmitInstruction
        <3> QED  BY <3>1, <1>4
    <2>3. CASE i.op = "TRY_ALLOC"
        <3>1. t = AppendInstruction(th, from, "usetmaxreg", [kind |-> "inc", count |-> i.arg])
            BY <2>3 DEF EmitInstruction
        <3> QED  BY <3>1, <1>4
    <2>4. CASE i.op = "DEALLOC"
        <3>1. t = AppendInstruction(th, from, "usetmaxreg", [kind |-> "dec", count |-> i.arg])
            BY <2>4 DEF EmitInstruction
        <3> QED  BY <3>1, <1>4
    <2>5. CASE i.op \notin {"WARPSYNC", "ISETP", "TRY_ALLOC", "DEALLOC"}
        BY <2>5 DEF EmitInstruction
    <2> QED  BY <2>1, <2>2, <2>3, <2>4, <2>5
<1>6. CASE \E prefix, def : /\ "kind" \in DOMAIN def
                            /\ def.kind \notin {"branch", "brx", "stop"}
                            /\ t = AppendInstruction(th, from, prefix, def)
    BY <1>2, <1>6
<1> QED  BY <1>3, <1>5, <1>6

-----------------------------------------------------------------------------
(* The body of a block.                                                    *)

\* The equations that define EmittedUpTo.
AreEmitted(g, th, bb, n) ==
    /\ g = [k \in 0 .. n |-> g[k]]
    /\ g[0] = th
    /\ \A k \in 1 .. n : g[k] = EmitInstruction(g[k - 1], <<bb.id, k>>, bb.instructions[k])

\* A shortest sequence without a solution would be one longer than one with one.
LEMMA EmittedExist ==
    ASSUME NEW th, NEW bb, NEW n \in Nat
    PROVE  \E g : AreEmitted(g, th, bb, n)
<1> DEFINE T == {m \in Nat : ~ \E g : AreEmitted(g, th, bb, m)}
<1> SUFFICES ASSUME T # {} PROVE FALSE
    OBVIOUS
<1>1. PICK m \in T : \A y \in T : m <= y
    <2>1. T \subseteq Nat
        OBVIOUS
    <2> HIDE DEF T
    <2> QED  BY <2>1, LeastNat
<1>2. m # 0
    <2>1. AreEmitted([k \in 0 .. 0 |-> th], th, bb, 0)
        BY DEF AreEmitted
    <2> QED  BY <2>1
<1>3. m \in Nat /\ m - 1 \in Nat /\ m - 1 \notin T
    BY <1>1, <1>2
<1>4. PICK s : AreEmitted(s, th, bb, m - 1)
    BY <1>3
<1> DEFINE r == [k \in 0 .. m |->
                    IF k = m THEN EmitInstruction(s[m - 1], <<bb.id, m>>, bb.instructions[m])
                    ELSE s[k]]
<1>5. AreEmitted(r, th, bb, m)
    <2>1. r = [k \in 0 .. m |-> r[k]] /\ r[0] = th
        BY <1>2, <1>3, <1>4 DEF AreEmitted
    <2>2. ASSUME NEW k \in 1 .. m
          PROVE  r[k] = EmitInstruction(r[k - 1], <<bb.id, k>>, bb.instructions[k])
        <3>1. k \in 0 .. m /\ k - 1 \in 0 .. m /\ k - 1 # m
            BY <1>3
        <3>2. CASE k = m
            BY <3>1, <3>2
        <3>3. CASE k # m
            <4>1. k \in 1 .. m - 1
                BY <3>3, <1>3
            <4>2. r[k] = s[k] /\ r[k - 1] = s[k - 1]
                BY <3>1, <3>3
            <4> QED  BY <4>1, <4>2, <1>4 DEF AreEmitted
        <3> QED  BY <3>2, <3>3
    <2> HIDE DEF r
    <2> QED  BY <2>1, <2>2 DEF AreEmitted
<1> QED  BY <1>3, <1>1, <1>5

LEMMA EmittedDef ==
    ASSUME NEW th, NEW bb, NEW n \in Nat
    PROVE  AreEmitted(EmittedUpTo(th, bb, n), th, bb, n)
<1> DEFINE Step(g, k) == IF k = 0 THEN th
                         ELSE EmitInstruction(g[k - 1], <<bb.id, k>>, bb.instructions[k])
           Eq(g) == g = [k \in 0 .. n |-> Step(g, k)]
<1>1. PICK s : AreEmitted(s, th, bb, n)
    BY EmittedExist
<1>2. EmittedUpTo(th, bb, n) = CHOOSE g : Eq(g)
    BY DEF EmittedUpTo
<1>3. ASSUME NEW k \in 0 .. n PROVE s[k] = Step(s, k)
    BY <1>1 DEF AreEmitted
<1>4. s = [k \in 0 .. n |-> s[k]]
    BY <1>1 DEF AreEmitted
<1>5. Eq(s)
    <2> HIDE DEF Step
    <2> QED  BY <1>3, <1>4
<1>6. Eq(EmittedUpTo(th, bb, n))
    <2> HIDE DEF Eq
    <2> QED  BY <1>2, <1>5
<1> DEFINE g == EmittedUpTo(th, bb, n)
<1>7. g = [k \in 0 .. n |-> g[k]] /\ \A k \in 0 .. n : g[k] = Step(g, k)
    <2> HIDE DEF Step, g
    <2> QED  BY <1>6 DEF g
<1> HIDE DEF g
<1>8. AreEmitted(g, th, bb, n)
    <2>1. g[0] = th
        <3>1. 0 \in 0 .. n
            OBVIOUS
        <3> QED  BY <3>1, <1>7
    <2>2. ASSUME NEW k \in 1 .. n
          PROVE  g[k] = EmitInstruction(g[k - 1], <<bb.id, k>>, bb.instructions[k])
        <3>1. k \in 0 .. n /\ k # 0
            OBVIOUS
        <3> QED  BY <3>1, <1>7
    <2> QED  BY <1>7, <2>1, <2>2 DEF AreEmitted
<1> QED  BY <1>8 DEF g

\* The first n instructions of a block.
LEMMA Body ==
    ASSUME IsGraph(cfg), NEW id \in DOMAIN cfg, NEW bb, bb.id = id,
           NEW th, Inside(th, id, 0), NEW n \in Nat
    PROVE  Inside(EmitFirst(th, bb, n), id, n)
<1> DEFINE g == EmittedUpTo(th, bb, n)
           T == {k \in 0 .. n : ~ Inside(g[k], id, k)}
<1>1. AreEmitted(g, th, bb, n)
    BY EmittedDef
<1> HIDE DEF g
<1> SUFFICES ASSUME T # {} PROVE FALSE
    BY DEF EmitFirst, g
<1>2. PICK m \in T : \A y \in T : m <= y
    <2>1. T \subseteq Nat
        OBVIOUS
    <2> HIDE DEF T
    <2> QED  BY <2>1, LeastNat
<1>3. m # 0
    BY <1>1 DEF AreEmitted
<1>4. m \in 1 .. n /\ m - 1 \in 0 .. n /\ m - 1 \notin T /\ m - 1 \in Nat /\ (m - 1) + 1 = m
    BY <1>2, <1>3
<1>5. Inside(g[m - 1], id, m - 1)
    BY <1>4
<1>6. g[m] = EmitInstruction(g[m - 1], <<id, m>>, bb.instructions[m])
    BY <1>1, <1>4 DEF AreEmitted
<1>7. Inside(EmitInstruction(g[m - 1], <<id, (m - 1) + 1>>, bb.instructions[m]), id, (m - 1) + 1)
    BY <1>4, <1>5, Emit
<1>8. Inside(g[m], id, m)
    BY <1>4, <1>6, <1>7
<1> QED  BY <1>8

-----------------------------------------------------------------------------
(* The end of a block.                                                     *)

\* A definition that leaves the block along the graph ends its encoding.
LEMMA Close ==
    ASSUME IsGraph(cfg), NEW id \in DOMAIN cfg, NEW n \in Nat, NEW th, Inside(th, id, n),
           NEW name, NEW def, def.at = th.cur,
           IF def.kind = "stop" THEN cfg[id].term = "EXIT" \/ Successorless(id)
           ELSE TargetsOf(def) \subseteq {BlockLabel(s) : s \in ToSet(cfg[id].succs)}
    PROVE  Between(AddDefinition(th, <<id, 0>>, name, def), id + 1)
<1> DEFINE e == [name |-> name, from |-> <<id, 0>>, def |-> def]
           t == AddDefinition(th, <<id, 0>>, name, def)
<1>1. IsThread(th) /\ th.states \in Nat /\ id \in Nat
    BY UsedIsAllocated DEF Inside, Sound, IsThread
<1>2. t = [th EXCEPT !.defs = Append(@, e)]
    BY DEF AddDefinition
<1>3. e.from = <<id, 0>> /\ e.from[1] = id /\ e.def = def
    OBVIOUS
<1> HIDE DEF e, t
<1>4. /\ DOMAIN t = {"cur", "states", "defs", "log"}
      /\ t.states = th.states /\ t.defs = Append(th.defs, e)
    BY <1>1, <1>2 DEF IsThread
<1>5. IsThread(t)
    BY <1>1, <1>4, AppendItem DEF IsThread
<1>6. TargetsOf(def) \subseteq BlockLabels \/ TargetsOf(def) = {th.cur}
    <2>1. CASE def.kind = "stop"
        BY <2>1 DEF TargetsOf
    <2>2. CASE def.kind # "stop"
        <3>1. cfg[id].succs \in Seq(DOMAIN cfg)
            BY DEF IsGraph
        <3>2. ToSet(cfg[id].succs) \subseteq DOMAIN cfg
            BY <3>1, LenProperties DEF ToSet
        <3> QED  BY <2>2, <3>2 DEF BlockLabels
    <2> QED  BY <2>1, <2>2
<1>7. th.cur \in AllocatedLabel(cfg, t) /\ BlockLabels \subseteq AllocatedLabel(cfg, t)
    <2>1. AllocatedLabel(cfg, t) = AllocatedLabel(cfg, th)
        BY <1>4 DEF AllocatedLabel
    <2>2. th.cur \in Used(th, id + 1)
        BY DEF Inside
    <2> QED  BY <1>1, <2>1, <2>2, UsedIsAllocated
<1>8. TargetsOf(e.def) \subseteq AllocatedLabel(cfg, t)
    BY <1>3, <1>6, <1>7
<1>9. Leaves(e)
    BY <1>3 DEF Leaves
<1>10. /\ Sound(t, id + 1) /\ Entered(t, id + 1)
       /\ \A k \in DOMAIN th.defs : Led(t, t.defs[k])
       /\ DOMAIN t.defs = DOMAIN th.defs \cup {Len(t.defs)}
       /\ LastDef(t) = e
    <2>1. th.states <= t.states /\ e.def.at = th.cur
        BY <1>1, <1>3, <1>4
    <2>2. 0 \in Nat
        OBVIOUS
    <2> QED  BY <1>3, <1>4, <1>5, <1>8, <1>9, <2>1, <2>2, OneMore
<1>11. Tested(t, th.cur)
    <2>1. th.states <= t.states
        BY <1>1, <1>4
    <2>2. \A label : Tested(t, label) <=> Tested(th, label) \/ label = e.def.at
        BY <1>1, <1>4, <1>5, <2>1, Grown
    <2> QED  BY <1>3, <2>2
<1>12. Led(t, e)
    BY <1>3, <1>6, <1>11 DEF Led
<1>13. Between(t, id + 1)
    BY <1>10, <1>12 DEF Between, LastDef
<1> QED  BY <1>13 DEF t

\* A block without successors may end with no definition of its own.
LEMMA Skip ==
    ASSUME IsGraph(cfg), NEW id \in DOMAIN cfg, NEW n \in Nat, NEW th, Inside(th, id, n),
           Successorless(id)
    PROVE  Between(th, id + 1)
<1>1. id \in Nat
    BY UsedIsAllocated DEF Inside, Sound
<1>2. Entered(th, id + 1)
    BY <1>1 DEF Inside, Entered
<1> QED  BY <1>2 DEF Inside, Between, Led

LEMMA FirstAndSecond ==
    ASSUME IsGraph(cfg), NEW id \in DOMAIN cfg
    PROVE  /\ ~ Successorless(id) => cfg[id].succs[1] \in ToSet(cfg[id].succs)
           /\ Len(cfg[id].succs) > 1 => /\ cfg[id].succs[2] \in ToSet(cfg[id].succs)
                                        /\ ~ Successorless(id)
<1> DEFINE s == cfg[id].succs
<1>1. s \in Seq(DOMAIN cfg)
    BY DEF IsGraph
<1> HIDE DEF s
<1>2. Len(s) \in Nat /\ DOMAIN s = 1 .. Len(s) /\ (s = <<>> <=> Len(s) = 0)
    BY <1>1, LenProperties, EmptySeq
<1>3. /\ s # <<>> => s[1] \in ToSet(s)
      /\ Len(s) > 1 => s[2] \in ToSet(s) /\ s # <<>>
    BY <1>2 DEF ToSet
<1> QED  BY <1>3 DEF s, Successorless

LEMMA First ==
    ASSUME IsGraph(cfg), NEW id \in DOMAIN cfg, NEW n \in Nat, NEW th, Inside(th, id, n)
    PROVE  Between(GotoFirst(th, cfg[id]), id + 1)
<1>1. cfg[id].id = id
    BY DEF IsGraph
<1>2. CASE Successorless(id)
    BY <1>2, Skip DEF GotoFirst, Successorless
<1>3. CASE ~ Successorless(id)
    <2> DEFINE target == BlockLabel(cfg[id].succs[1])
               d == [kind |-> "stutter", at |-> th.cur, to |-> target]
    <2>1. GotoFirst(th, cfg[id]) = AddDefinition(th, <<id, 0>>, <<"goto", th.cur>>, d)
        BY <1>1, <1>3 DEF GotoFirst, EmitGoto, Successorless
    <2>2. d.at = th.cur /\ d.kind # "stop" /\ TargetsOf(d) = {target}
        BY DEF TargetsOf
    <2> HIDE DEF d
    <2>3. TargetsOf(d) \subseteq {BlockLabel(s) : s \in ToSet(cfg[id].succs)}
        BY <1>3, <2>2, FirstAndSecond
    <2> QED  BY <2>1, <2>2, <2>3, Close
<1> QED  BY <1>2, <1>3

\* The kinds of block, each with its end.
LEMMA Stop ==
    ASSUME IsGraph(cfg), NEW id \in DOMAIN cfg, NEW n \in Nat, NEW th, Inside(th, id, n),
           cfg[id].term = "EXIT" \/ Successorless(id)
    PROVE  Between(StopInstruction(th, id), id + 1)
<1> DEFINE d == [kind |-> "stop", at |-> th.cur]
<1>1. d.at = th.cur /\ d.kind = "stop"
    OBVIOUS
<1>2. StopInstruction(th, id) = AddDefinition(th, <<id, 0>>, UniqueName(th, "stop"), d)
    BY DEF StopInstruction
<1> HIDE DEF d
<1> QED  BY <1>1, <1>2, Close

LEMMA Branch ==
    ASSUME IsGraph(cfg), NEW id \in DOMAIN cfg, NEW n \in Nat, NEW th, Inside(th, id, n),
           Len(cfg[id].succs) > 1, NEW pred
    PROVE  Between(AppendBranchInstruction(th, id, pred, BlockLabel(cfg[id].succs[1]),
                                           BlockLabel(cfg[id].succs[2])), id + 1)
<1> DEFINE taken == BlockLabel(cfg[id].succs[1])
           fall  == BlockLabel(cfg[id].succs[2])
           whenTrue  == IF pred \in {"P0", "!UP0"} THEN taken ELSE fall
           whenFalse == IF pred \in {"!P0", "!UP0"} THEN taken ELSE fall
           d == [kind |-> "branch", at |-> th.cur, taken |-> whenTrue, fall |-> whenFalse]
<1>1. {taken, fall} \subseteq {BlockLabel(s) : s \in ToSet(cfg[id].succs)}
    BY FirstAndSecond
<1>2. AppendBranchInstruction(th, id, pred, taken, fall) =
          AddDefinition(th, <<id, 0>>, <<"branch", taken, fall>>, d)
    BY DEF AppendBranchInstruction
<1>3. whenTrue \in {taken, fall} /\ whenFalse \in {taken, fall}
    OBVIOUS
<1> HIDE DEF taken, fall, whenTrue, whenFalse
<1>4. d.at = th.cur /\ d.kind = "branch" /\ d.taken = whenTrue /\ d.fall = whenFalse
    OBVIOUS
<1> HIDE DEF d
<1>5. d.kind # "stop" /\ TargetsOf(d) \subseteq {BlockLabel(s) : s \in ToSet(cfg[id].succs)}
    BY <1>1, <1>3, <1>4 DEF TargetsOf
<1>6. Between(AddDefinition(th, <<id, 0>>, <<"branch", taken, fall>>, d), id + 1)
    BY <1>4, <1>5, Close
<1> QED  BY <1>2, <1>6 DEF taken, fall

LEMMA Indirect ==
    ASSUME IsGraph(cfg), NEW id \in DOMAIN cfg, NEW n \in Nat, NEW th, Inside(th, id, n)
    PROVE  Between(EmitIndirectBranch(th, id, {BlockLabel(s) : s \in ToSet(cfg[id].succs)}),
                   id + 1)
<1> DEFINE targets == {BlockLabel(s) : s \in ToSet(cfg[id].succs)}
           d == [kind |-> "brx", at |-> th.cur, targets |-> targets]
<1>1. EmitIndirectBranch(th, id, targets) =
          AddDefinition(th, <<id, 0>>, <<"brx", th.cur>>, d)
    BY DEF EmitIndirectBranch
<1> HIDE DEF targets
<1>2. d.at = th.cur /\ d.kind # "stop" /\ TargetsOf(d) = targets
    BY DEF TargetsOf
<1> HIDE DEF d
<1>3. Between(AddDefinition(th, <<id, 0>>, <<"brx", th.cur>>, d), id + 1)
    BY <1>2, Close DEF targets
<1> QED  BY <1>1, <1>3 DEF targets

LEMMA Terminator ==
    ASSUME IsGraph(cfg), NEW id \in DOMAIN cfg, NEW th,
           NEW n \in Nat, n + 1 = Len(cfg[id].instructions), Inside(th, id, n)
    PROVE  Between(EncodeTerminator(th, cfg[id]), id + 1)
<1> DEFINE bb == cfg[id]
           last == Last(bb.instructions)
<1>1. bb.id = id /\ bb.term \in TerminatorKind
    BY DEF IsGraph
<1>2. CASE bb.term = "EXIT"
    <2>1. EncodeTerminator(th, bb) = StopInstruction(th, id)
        BY <1>1, <1>2 DEF EncodeTerminator
    <2> QED  BY <1>2, <2>1, Stop
<1>3. CASE bb.term = "FALL_THROUGH"
    <2> DEFINE t == EmitInstruction(th, <<id, n + 1>>, last)
    <2>1. EncodeTerminator(th, bb) = GotoFirst(t, bb)
        BY <1>1, <1>3 DEF EncodeTerminator
    <2>2. Inside(t, id, n + 1) /\ n + 1 \in Nat
        BY Emit
    <2> HIDE DEF t
    <2> QED  BY <2>1, <2>2, First
<1>4. CASE bb.term = "UNCONDITIONAL"
    <2>1. EncodeTerminator(th, bb) = GotoFirst(th, bb)
        BY <1>1, <1>4 DEF EncodeTerminator
    <2> QED  BY <2>1, First
<1>5. CASE bb.term = "CONDITIONAL"
    <2> DEFINE pred == BranchPred(last)
    <2>1. CASE pred # "none" /\ Len(bb.succs) > 1
        <3>1. EncodeTerminator(th, bb) =
                  AppendBranchInstruction(th, id, pred, BlockLabel(bb.succs[1]),
                                          BlockLabel(bb.succs[2]))
            BY <1>1, <1>5, <2>1 DEF EncodeTerminator
        <3> HIDE DEF pred
        <3> QED  BY <2>1, <3>1, Branch
    <2>2. CASE ~ (pred # "none" /\ Len(bb.succs) > 1)
        <3>1. EncodeTerminator(th, bb) = GotoFirst(th, bb)
            BY <1>1, <1>5, <2>2 DEF EncodeTerminator
        <3> QED  BY <3>1, First
    <2> QED  BY <2>1, <2>2
<1>6. CASE bb.term = "INDIRECT"
    <2>1. CASE Successorless(id)
        <3>1. EncodeTerminator(th, bb) = StopInstruction(th, id)
            BY <1>1, <1>6, <2>1 DEF EncodeTerminator, Successorless
        <3> QED  BY <2>1, <3>1, Stop
    <2>2. CASE ~ Successorless(id)
        <3>1. EncodeTerminator(th, bb) =
                  EmitIndirectBranch(th, id, {BlockLabel(s) : s \in ToSet(bb.succs)})
            BY <1>1, <1>6, <2>2 DEF EncodeTerminator, Successorless
        <3> QED  BY <3>1, Indirect
    <2> QED  BY <2>1, <2>2
<1> QED  BY <1>1, <1>2, <1>3, <1>4, <1>5, <1>6 DEF TerminatorKind

\* A whole block.
LEMMA Block ==
    ASSUME IsGraph(cfg), NEW id \in DOMAIN cfg, NEW th, Between(th, id)
    PROVE  Between(EncodeBlock(th, cfg[id]), id + 1)
<1> DEFINE bb == cfg[id]
           t  == SetState(th, BlockLabel(id))
           n  == Len(bb.instructions) - 1
<1>1. bb.id = id /\ Inside(t, id, 0)
    BY Begin DEF IsGraph
<1> HIDE DEF t
<1>2. CASE bb.instructions = <<>>
    <2>1. EncodeBlock(th, bb) = GotoFirst(t, bb)
        BY <1>1, <1>2 DEF EncodeBlock, t
    <2> QED  BY <1>1, <2>1, First
<1>3. CASE bb.instructions # <<>>
    <2>1. EncodeBlock(th, bb) = EncodeTerminator(EmitFirst(t, bb, n), bb)
        BY <1>1, <1>3 DEF EncodeBlock, EncodeBody, t
    <2>2. n \in Nat /\ n + 1 = Len(bb.instructions)
        <3>1. bb.instructions \in Seq(ToSet(bb.instructions))
            BY DEF IsGraph
        <3> QED  BY <1>3, <3>1, LenProperties, EmptySeq
    <2> DEFINE body == EmitFirst(t, bb, n)
    <2>3. Inside(body, id, n)
        <3> HIDE DEF n, bb
        <3> QED  BY <1>1, <2>2, Body
    <2>4. Between(EncodeTerminator(body, bb), id + 1)
        <3> HIDE DEF n, body
        <3> QED  BY <2>2, <2>3, Terminator
    <2> QED  BY <2>1, <2>4
<1> QED  BY <1>2, <1>3

-----------------------------------------------------------------------------
(* What a block emits.                                                     *)

\* No place is lost and no other block's flow changes.
Extends(th, t, id) ==
    /\ IsThread(t)
    /\ Emitted(th) \subseteq Emitted(t)
    /\ \A j : j # id => FlowLabels(t, j) = FlowLabels(th, j)

\* One definition more, for one place.
EmitsFlow(th, t, from, targets) ==
    /\ IsThread(t)
    /\ Emitted(t) = Emitted(th) \cup {from}
    /\ \A j : FlowLabels(t, j) =
                IF from = <<j, 0>> THEN FlowLabels(th, j) \cup targets ELSE FlowLabels(th, j)

\* Definitions for some places, none of them the end of a block.
EmitsPlaces(th, t, places) ==
    /\ IsThread(t)
    /\ Emitted(t) = Emitted(th) \cup places
    /\ \A j : FlowLabels(t, j) = FlowLabels(th, j)

LEMMA Added ==
    ASSUME NEW th, IsThread(th), NEW from, NEW name, NEW def,
           NEW t, t = AddDefinition(th, from, name, def)
    PROVE  EmitsFlow(th, t, from, TargetsOf(def))
<1> DEFINE e == [name |-> name, from |-> from, def |-> def]
           len == Len(th.defs)
<1>1. e.from = from /\ e.def = def
    OBVIOUS
<1>2. t = [th EXCEPT !.defs = Append(@, e)]
    BY DEF AddDefinition
<1> HIDE DEF e
<1>3. /\ DOMAIN t = {"cur", "states", "defs", "log"}
      /\ t.states = th.states /\ t.defs = Append(th.defs, e)
    BY <1>2 DEF IsThread
<1>4. /\ IsThread(t)
      /\ DOMAIN t.defs = 1 .. len + 1 /\ DOMAIN th.defs = 1 .. len /\ len \in Nat
      /\ \A k \in 1 .. len : t.defs[k] = th.defs[k]
      /\ t.defs[len + 1] = e
    BY <1>3, AppendItem DEF IsThread
<1> HIDE DEF len
<1>5. Emitted(t) = Emitted(th) \cup {from}
    BY <1>1, <1>4 DEF Emitted
<1>6. ASSUME NEW j
      PROVE  FlowLabels(t, j) =
                IF from = <<j, 0>> THEN FlowLabels(th, j) \cup TargetsOf(def)
                ELSE FlowLabels(th, j)
    <2> DEFINE Of(s, l) == {k \in 1 .. l : s.defs[k].from = <<j, 0>>}
    <2>1. FlowLabels(t, j) = UNION {TargetsOf(t.defs[k].def) : k \in Of(t, len + 1)}
        BY <1>4 DEF FlowLabels
    <2>2. FlowLabels(th, j) = UNION {TargetsOf(th.defs[k].def) : k \in Of(th, len)}
        BY <1>4 DEF FlowLabels
    <2>3. Of(t, len + 1) = IF from = <<j, 0>> THEN Of(th, len) \cup {len + 1} ELSE Of(th, len)
        <3>1. \A k \in 1 .. len + 1 : k \in 1 .. len \/ k = len + 1
            BY <1>4
        <3>2. \A k \in 1 .. len : k \in 1 .. len + 1 /\ t.defs[k].from = th.defs[k].from
            BY <1>4
        <3>3. t.defs[len + 1].from = from /\ len + 1 \in 1 .. len + 1
            BY <1>1, <1>4
        <3> QED  BY <3>1, <3>2, <3>3
    <2>4. \A k \in Of(th, len) : t.defs[k].def = th.defs[k].def
        BY <1>4
    <2>5. t.defs[len + 1].def = def
        BY <1>1, <1>4
    <2> HIDE DEF Of
    <2> QED  BY <2>1, <2>2, <2>3, <2>4, <2>5
<1> QED  BY <1>4, <1>5, <1>6 DEF EmitsFlow

\* appendInstruction, seen from outside.
LEMMA AppendedEmits ==
    ASSUME NEW th, IsThread(th), NEW id, NEW k, k # 0, NEW prefix, NEW def,
           NEW t, t = AppendInstruction(th, <<id, k>>, prefix, def)
    PROVE  EmitsPlaces(th, t, {<<id, k>>})
<1> DEFINE pushed == SetState(AllocateState(th), FreshLabel(th))
           d == Placed(def, th.cur, FreshLabel(th))
<1>1. IsThread(pushed) /\ pushed.defs = th.defs
    BY DEF SetState, AllocateState, IsThread
<1>2. t = AddDefinition(pushed, <<id, k>>, UniqueName(pushed, prefix), d)
    BY DEF AppendInstruction
<1> HIDE DEF pushed, d
<1>3. Emitted(pushed) = Emitted(th) /\ \A j : FlowLabels(pushed, j) = FlowLabels(th, j)
    BY <1>1 DEF Emitted, FlowLabels
<1>4. \A j : <<id, k>> # <<j, 0>>
    OBVIOUS
<1>5. EmitsFlow(pushed, t, <<id, k>>, TargetsOf(d))
    BY <1>1, <1>2, Added
<1> QED  BY <1>3, <1>4, <1>5 DEF EmitsFlow, EmitsPlaces

\* An instruction with a handler is emitted, another is logged.
LEMMA InstructionEmits ==
    ASSUME NEW th, IsThread(th), NEW id, NEW k, k # 0, NEW i,
           NEW t, t = EmitInstruction(th, <<id, k>>, i)
    PROVE  EmitsPlaces(th, t, IF i.op \in HandledOps THEN {<<id, k>>} ELSE {})
<1>1. CASE i.op \in HandledOps
    <2>1. \E prefix, def : t = AppendInstruction(th, <<id, k>>, prefix, def)
        <3>1. CASE i.op = "WARPSYNC"
            BY <3>1 DEF EmitInstruction
        <3>2. CASE i.op = "ISETP"
            BY <3>2 DEF EmitInstruction
        <3>3. CASE i.op = "TRY_ALLOC"
            BY <3>3 DEF EmitInstruction
        <3>4. CASE i.op = "DEALLOC"
            BY <3>4 DEF EmitInstruction
        <3> QED  BY <1>1, <3>1, <3>2, <3>3, <3>4 DEF HandledOps
    <2>2. EmitsPlaces(th, t, {<<id, k>>})
        BY <2>1, AppendedEmits
    <2> QED  BY <1>1, <2>2
<1>2. CASE i.op \notin HandledOps
    <2>1. t = [th EXCEPT !.log = @ \cup {<<id, k>>}]
        BY <1>2 DEF EmitInstruction, HandledOps
    <2>2. IsThread(t) /\ t.defs = th.defs
        BY <2>1 DEF IsThread
    <2> QED  BY <1>2, <2>2 DEF Emitted, FlowLabels, EmitsPlaces
<1> QED  BY <1>1, <1>2

\* The first n instructions of a block are emitted where they have a handler.
BodyEmitted(th, t, bb, n) ==
    /\ IsThread(t) /\ Emitted(th) \subseteq Emitted(t)
    /\ \A k \in 1 .. n : bb.instructions[k].op \in HandledOps => <<bb.id, k>> \in Emitted(t)
    /\ \A j : FlowLabels(t, j) = FlowLabels(th, j)

LEMMA BodyEmits ==
    ASSUME NEW th, IsThread(th), NEW bb, NEW n \in Nat
    PROVE  BodyEmitted(th, EmitFirst(th, bb, n), bb, n)
<1> DEFINE g == EmittedUpTo(th, bb, n)
           T == {k \in 0 .. n : ~ BodyEmitted(th, g[k], bb, k)}
<1>1. AreEmitted(g, th, bb, n)
    BY EmittedDef
<1> HIDE DEF g
<1> SUFFICES ASSUME T # {} PROVE FALSE
    BY DEF EmitFirst, g
<1>2. PICK m \in T : \A y \in T : m <= y
    <2>1. T \subseteq Nat
        OBVIOUS
    <2> HIDE DEF T
    <2> QED  BY <2>1, LeastNat
<1>3. m # 0
    BY <1>1 DEF AreEmitted, BodyEmitted
<1>4. m \in 1 .. n /\ m - 1 \in 0 .. n /\ m - 1 \notin T
    BY <1>2, <1>3
<1>5. BodyEmitted(th, g[m - 1], bb, m - 1)
    BY <1>4
<1>6. g[m] = EmitInstruction(g[m - 1], <<bb.id, m>>, bb.instructions[m])
    BY <1>1, <1>4 DEF AreEmitted
<1>7. EmitsPlaces(g[m - 1], g[m],
                  IF bb.instructions[m].op \in HandledOps THEN {<<bb.id, m>>} ELSE {})
    BY <1>3, <1>5, <1>6, InstructionEmits DEF BodyEmitted
<1>8. \A k \in 1 .. m : k = m \/ k \in 1 .. m - 1
    BY <1>4
<1>9. BodyEmitted(th, g[m], bb, m)
    BY <1>5, <1>7, <1>8 DEF BodyEmitted, EmitsPlaces
<1> QED  BY <1>9

LEMMA GotoEmits ==
    ASSUME IsGraph(cfg), NEW id \in DOMAIN cfg, NEW th, IsThread(th), FlowLabels(th, id) = {},
           NEW t, t = GotoFirst(th, cfg[id])
    PROVE  /\ Extends(th, t, id)
           /\ ~ Successorless(id) => FlowLabels(t, id) = {BlockLabel(cfg[id].succs[1])}
<1>1. cfg[id].id = id
    BY DEF IsGraph
<1>2. CASE Successorless(id)
    BY <1>2 DEF GotoFirst, Successorless, Extends
<1>3. CASE ~ Successorless(id)
    <2> DEFINE target == BlockLabel(cfg[id].succs[1])
               d == [kind |-> "stutter", at |-> th.cur, to |-> target]
    <2>1. t = AddDefinition(th, <<id, 0>>, <<"goto", th.cur>>, d)
        BY <1>1, <1>3 DEF GotoFirst, EmitGoto, Successorless
    <2>2. TargetsOf(d) = {target}
        BY DEF TargetsOf
    <2> HIDE DEF d
    <2>3. EmitsFlow(th, t, <<id, 0>>, {target})
        BY <2>1, <2>2, Added
    <2> QED  BY <2>3 DEF EmitsFlow, Extends
<1> QED  BY <1>2, <1>3

\* What the terminator kinds say of the last instruction.
LEMMA KindOfLast ==
    ASSUME NEW bb, TerminatorKept(bb), NEW last, last = Last(bb.instructions)
    PROVE  /\ last.op \in HandledOps => bb.term = "FALL_THROUGH"
           /\ IsBranch(last) => bb.term \in {"UNCONDITIONAL", "CONDITIONAL", "INDIRECT"}
           /\ bb.term = "UNCONDITIONAL" => BranchPred(last) = "none"
<1>1. bb.term = ClassifyTerminator(last)
    BY DEF TerminatorKept
<1>2. last.op \in HandledOps => ~ IsExit(last) /\ ~ IsBranch(last) /\ ~ IsIndirect(last)
    BY DEF HandledOps, IsExit, IsBranch, IsIndirect
<1>3. IsBranch(last) => ~ IsExit(last)
    BY DEF IsExit, IsBranch
<1>4. IsUnconditional(last) => BranchPred(last) = "none"
    BY DEF IsUnconditional, BranchPred, IsPredicated
<1> QED  BY <1>1, <1>2, <1>3, <1>4 DEF ClassifyTerminator

\* The successors of a block with at most two.
LEMMA TwoSuccessors ==
    ASSUME IsGraph(cfg), NEW id \in DOMAIN cfg, cfg[id].term = "CONDITIONAL",
           ~ Successorless(id)
    PROVE  ToSet(cfg[id].succs) =
               IF Len(cfg[id].succs) > 1 THEN {cfg[id].succs[1], cfg[id].succs[2]}
               ELSE {cfg[id].succs[1]}
<1> DEFINE s == cfg[id].succs
<1>1. s \in Seq(DOMAIN cfg) /\ Len(s) <= 2
    BY DEF IsGraph
<1>2. s # <<>>
    BY DEF Successorless
<1> HIDE DEF s
<1>3. DOMAIN s = 1 .. Len(s) /\ Len(s) \in {1, 2}
    <2>1. DOMAIN s = 1 .. Len(s) /\ Len(s) \in Nat
        BY <1>1, LenProperties
    <2>2. Len(s) # 0
        BY <1>1, <1>2, EmptySeq
    <2> QED  BY <1>1, <2>1, <2>2
<1>4. ToSet(s) = IF Len(s) > 1 THEN {s[1], s[2]} ELSE {s[1]}
    <2>1. CASE Len(s) = 1
        BY <2>1, <1>3 DEF ToSet
    <2>2. CASE Len(s) = 2
        BY <2>2, <1>3 DEF ToSet
    <2> QED  BY <1>3, <2>1, <2>2
<1> QED  BY <1>4 DEF s

LEMMA BranchEmits ==
    ASSUME IsGraph(cfg), NEW id \in DOMAIN cfg, cfg[id].term = "CONDITIONAL",
           NEW th, IsThread(th), FlowLabels(th, id) = {},
           Len(cfg[id].succs) > 1, NEW pred,
           NEW t, t = AppendBranchInstruction(th, id, pred, BlockLabel(cfg[id].succs[1]),
                                              BlockLabel(cfg[id].succs[2]))
    PROVE  /\ Extends(th, t, id)
           /\ pred \in {"P0", "!P0"} =>
                  FlowLabels(t, id) = {BlockLabel(s) : s \in ToSet(cfg[id].succs)}
<1> DEFINE taken == BlockLabel(cfg[id].succs[1])
           fall  == BlockLabel(cfg[id].succs[2])
           whenTrue  == IF pred \in {"P0", "!UP0"} THEN taken ELSE fall
           whenFalse == IF pred \in {"!P0", "!UP0"} THEN taken ELSE fall
           d == [kind |-> "branch", at |-> th.cur, taken |-> whenTrue, fall |-> whenFalse]
<1>1. {BlockLabel(s) : s \in ToSet(cfg[id].succs)} = {taken, fall}
    BY TwoSuccessors, FirstAndSecond
<1>2. t = AddDefinition(th, <<id, 0>>, <<"branch", taken, fall>>, d)
    BY DEF AppendBranchInstruction
<1>3. pred \in {"P0", "!P0"} => {whenTrue, whenFalse} = {taken, fall}
    OBVIOUS
<1> HIDE DEF taken, fall, whenTrue, whenFalse
<1>4. TargetsOf(d) = {whenTrue, whenFalse}
    BY DEF TargetsOf
<1> HIDE DEF d
<1>5. EmitsFlow(th, t, <<id, 0>>, {whenTrue, whenFalse})
    BY <1>2, <1>4, Added
<1> QED  BY <1>1, <1>3, <1>5 DEF EmitsFlow, Extends

LEMMA TerminatorEmits ==
    ASSUME IsGraph(cfg), NEW id \in DOMAIN cfg, NEW th, IsThread(th), FlowLabels(th, id) = {},
           NEW n \in Nat, n + 1 = Len(cfg[id].instructions),
           NEW t, t = EncodeTerminator(th, cfg[id])
    PROVE  /\ Extends(th, t, id)
           /\ TerminatorKept(cfg[id]) =>
                  (Last(cfg[id].instructions).op \in HandledOps => <<id, n + 1>> \in Emitted(t))
           /\ OutcomesKept(t, id)
<1> DEFINE bb == cfg[id]
           last == Last(bb.instructions)
           pred == BranchPred(last)
<1>1. bb.id = id /\ bb.term \in TerminatorKind
    BY DEF IsGraph
<1>2. TerminatorKept(bb) =>
          /\ last.op \in HandledOps => bb.term = "FALL_THROUGH"
          /\ IsBranch(last) => bb.term \in {"UNCONDITIONAL", "CONDITIONAL", "INDIRECT"}
          /\ bb.term = "UNCONDITIONAL" => pred = "none"
    BY KindOfLast
<1>3. SUFFICES /\ Extends(th, t, id)
               /\ bb.term = "FALL_THROUGH" =>
                      (last.op \in HandledOps => <<id, n + 1>> \in Emitted(t))
               /\ bb.term \in {"CONDITIONAL", "INDIRECT"} /\ ~ Successorless(id)
                     /\ pred \in {"P0", "!P0"} =>
                         FlowLabels(t, id) = {BlockLabel(s) : s \in ToSet(bb.succs)}
    BY <1>2 DEF OutcomesKept, Successorless
<1>4. CASE bb.term = "EXIT" \/ (bb.term = "INDIRECT" /\ Successorless(id))
    <2> DEFINE d == [kind |-> "stop", at |-> th.cur]
    <2>1. t = AddDefinition(th, <<id, 0>>, UniqueName(th, "stop"), d)
        BY <1>1, <1>4 DEF EncodeTerminator, StopInstruction, Successorless
    <2> HIDE DEF d
    <2>2. EmitsFlow(th, t, <<id, 0>>, TargetsOf(d))
        BY <2>1, Added
    <2>3. Extends(th, t, id)
        BY <2>2 DEF EmitsFlow, Extends
    <2> QED  BY <1>4, <2>3
<1>5. CASE bb.term = "FALL_THROUGH"
    <2> DEFINE u == EmitInstruction(th, <<id, n + 1>>, last)
    <2>1. t = GotoFirst(u, bb)
        BY <1>1, <1>5 DEF EncodeTerminator
    <2>2. n + 1 # 0
        OBVIOUS
    <2>3. EmitsPlaces(th, u, IF last.op \in HandledOps THEN {<<id, n + 1>>} ELSE {})
        BY <2>2, InstructionEmits
    <2> HIDE DEF u
    <2>4. IsThread(u) /\ FlowLabels(u, id) = {}
        BY <2>3 DEF EmitsPlaces
    <2>5. Extends(u, t, id)
        BY <2>1, <2>4, GotoEmits
    <2> QED  BY <1>5, <2>3, <2>5 DEF EmitsPlaces, Extends
<1>6. CASE bb.term = "UNCONDITIONAL"
    <2>1. t = GotoFirst(th, bb)
        BY <1>1, <1>6 DEF EncodeTerminator
    <2> QED  BY <1>6, <2>1, GotoEmits
<1>7. CASE bb.term = "CONDITIONAL" /\ pred # "none" /\ Len(bb.succs) > 1
    <2>1. t = AppendBranchInstruction(th, id, pred, BlockLabel(bb.succs[1]),
                                      BlockLabel(bb.succs[2]))
        BY <1>1, <1>7 DEF EncodeTerminator
    <2> HIDE DEF pred, last
    <2> QED  BY <1>7, <2>1, BranchEmits
<1>8. CASE bb.term = "CONDITIONAL" /\ ~ (pred # "none" /\ Len(bb.succs) > 1)
    <2>1. t = GotoFirst(th, bb)
        BY <1>1, <1>8 DEF EncodeTerminator
    <2>2. /\ Extends(th, t, id)
          /\ ~ Successorless(id) => FlowLabels(t, id) = {BlockLabel(bb.succs[1])}
        BY <2>1, GotoEmits
    <2>3. ~ Successorless(id) /\ pred # "none" => ToSet(bb.succs) = {bb.succs[1]}
        BY <1>8, TwoSuccessors
    <2> QED  BY <1>8, <2>2, <2>3
<1>9. CASE bb.term = "INDIRECT" /\ ~ Successorless(id)
    <2> DEFINE targets == {BlockLabel(s) : s \in ToSet(bb.succs)}
               d == [kind |-> "brx", at |-> th.cur, targets |-> targets]
    <2>1. t = AddDefinition(th, <<id, 0>>, <<"brx", th.cur>>, d)
        BY <1>1, <1>9 DEF EncodeTerminator, EmitIndirectBranch, Successorless
    <2> HIDE DEF targets
    <2>2. TargetsOf(d) = targets
        BY DEF TargetsOf
    <2> HIDE DEF d
    <2>3. EmitsFlow(th, t, <<id, 0>>, targets)
        BY <2>1, <2>2, Added
    <2>4. Extends(th, t, id) /\ FlowLabels(t, id) = targets
        BY <2>3 DEF EmitsFlow, Extends
    <2> QED  BY <1>9, <2>4 DEF targets
<1> HIDE DEF pred, last
<1>10. \/ bb.term = "EXIT" \/ (bb.term = "INDIRECT" /\ Successorless(id))
       \/ bb.term = "FALL_THROUGH"
       \/ bb.term = "UNCONDITIONAL"
       \/ bb.term = "CONDITIONAL" /\ pred # "none" /\ Len(bb.succs) > 1
       \/ bb.term = "CONDITIONAL" /\ ~ (pred # "none" /\ Len(bb.succs) > 1)
       \/ bb.term = "INDIRECT" /\ ~ Successorless(id)
    <2> HIDE DEF bb
    <2>1. bb.term \in {"FALL_THROUGH", "UNCONDITIONAL", "CONDITIONAL", "EXIT", "INDIRECT"}
        BY <1>1 DEF TerminatorKind
    <2> QED  BY <2>1
<1> QED  BY <1>4, <1>5, <1>6, <1>7, <1>8, <1>9, <1>10

\* A whole block, and what it leaves of the others.
LEMMA BlockEmits ==
    ASSUME IsGraph(cfg), NEW id \in DOMAIN cfg, NEW th, IsThread(th), FlowLabels(th, id) = {},
           NEW t, t = EncodeBlock(th, cfg[id])
    PROVE  Extends(th, t, id) /\ PlacesKept(t, id) /\ OutcomesKept(t, id)
<1> DEFINE bb == cfg[id]
           s  == SetState(th, BlockLabel(id))
           n  == Len(bb.instructions) - 1
<1>1. bb.id = id /\ IsSequence(bb.instructions)
    BY DEF IsGraph, IsSequence, Items, ToSet
<1>2. IsThread(s) /\ s.defs = th.defs
    BY DEF SetState, IsThread
<1> HIDE DEF s
<1>3. Emitted(s) = Emitted(th) /\ \A j : FlowLabels(s, j) = FlowLabels(th, j)
    BY <1>2 DEF Emitted, FlowLabels
<1>4. CASE bb.instructions = <<>>
    <2>1. t = GotoFirst(s, bb)
        BY <1>1, <1>4 DEF EncodeBlock, s
    <2>2. Extends(s, t, id)
        BY <1>2, <1>3, <2>1, GotoEmits
    <2> QED  BY <1>3, <1>4, <2>2 DEF Extends, PlacesKept, OutcomesKept, TerminatorKept
<1>5. CASE bb.instructions # <<>>
    <2> DEFINE u == EmitFirst(s, bb, n)
    <2>1. t = EncodeTerminator(u, bb)
        BY <1>1, <1>5 DEF EncodeBlock, EncodeBody, s
    <2>2. /\ n \in Nat /\ n + 1 = Len(bb.instructions)
          /\ DOMAIN bb.instructions = 1 .. n + 1
          /\ Last(bb.instructions) = bb.instructions[n + 1]
        BY <1>1, <1>5, SequenceDomain DEF Last
    <2> HIDE DEF n
    <2>3. BodyEmitted(s, u, bb, n)
        BY <1>2, <2>2, BodyEmits
    <2> HIDE DEF u
    <2>4. IsThread(u) /\ FlowLabels(u, id) = {}
        BY <1>3, <2>3 DEF BodyEmitted
    <2>5. /\ Extends(u, t, id) /\ OutcomesKept(t, id)
          /\ TerminatorKept(bb) =>
                 (Last(bb.instructions).op \in HandledOps => <<id, n + 1>> \in Emitted(t))
        BY <2>1, <2>2, <2>4, TerminatorEmits
    <2>6. \A k \in 1 .. n + 1 : k = n + 1 \/ k \in 1 .. n
        BY <2>2
    <2>7. PlacesKept(t, id)
        BY <1>1, <2>2, <2>3, <2>5, <2>6 DEF PlacesKept, Extends, BodyEmitted
    <2> QED  BY <1>3, <2>3, <2>5, <2>7 DEF Extends, BodyEmitted
<1> QED  BY <1>4, <1>5

LEMMA OneMoreBlock ==
    ASSUME IsGraph(cfg), NEW id \in DOMAIN cfg, NEW th, Between(th, id), Complete(th, id)
    PROVE  Complete(EncodeBlock(th, cfg[id]), id + 1)
<1> DEFINE t == EncodeBlock(th, cfg[id])
<1>1. IsThread(th) /\ id \in Nat
    BY UsedIsAllocated DEF Between, Sound
<1>2. FlowLabels(th, id) = {}
    <2>1. \A k \in DOMAIN th.defs : th.defs[k].from[1] \in 0 .. id - 1
        BY DEF Between, Sound, EntryOK
    <2>2. \A k \in DOMAIN th.defs : th.defs[k].from # <<id, 0>>
        BY <1>1, <2>1
    <2> QED  BY <2>2 DEF FlowLabels
<1>3. Extends(th, t, id) /\ PlacesKept(t, id) /\ OutcomesKept(t, id)
    BY <1>1, <1>2, BlockEmits
<1> HIDE DEF t
<1>4. ASSUME NEW j \in 0 .. id - 1 PROVE PlacesKept(t, j) /\ OutcomesKept(t, j)
    <2>1. PlacesKept(th, j) /\ OutcomesKept(th, j) /\ j # id
        BY <1>1 DEF Complete
    <2>2. PlacesKept(t, j)
        BY <1>3, <2>1 DEF PlacesKept, Extends
    <2>3. FlowLabels(t, j) = FlowLabels(th, j)
        BY <1>3, <2>1 DEF Extends
    <2> QED  BY <2>1, <2>2, <2>3 DEF OutcomesKept
<1>5. \A j \in 0 .. id : j = id \/ j \in 0 .. id - 1
    BY <1>1
<1>6. Complete(t, id + 1)
    BY <1>1, <1>3, <1>4, <1>5 DEF Complete
<1> QED  BY <1>6 DEF t

-----------------------------------------------------------------------------
(* The specification.                                                      *)

LEMMA InitInv == Init => IInv
<1> SUFFICES ASSUME Init PROVE IInv
    OBVIOUS
<1>1. IsGraph(cfg)
    BY GraphsAssumption DEF Init
<1>2. Cardinality(DOMAIN cfg) \in Nat /\ next = 0
    BY <1>1 DEF IsGraph, Init
<1>3. Cardinality(DOMAIN cfg \ {0}) \in Nat
    <2>1. IsFiniteSet(DOMAIN cfg)
        BY <1>1, FS_Interval DEF IsGraph
    <2> QED  BY <2>1, FS_Subset, FS_CardinalityType
<1>4. /\ DOMAIN thread = {"cur", "states", "defs", "log"}
      /\ thread.states \in Nat /\ thread.defs = <<>>
    BY <1>3 DEF Init, AllocateBlockStates, NewThread
<1>5. IsThread(thread)
    BY <1>4, EmptySeq DEF IsThread, IsSequence
<1>6. DOMAIN thread.defs = {}
    BY <1>4, EmptySeq
<1>7. Sound(thread, next)
    BY <1>5, <1>6 DEF Sound, Distinct, Chained
<1>8. Complete(thread, next)
    BY <1>2 DEF Complete
<1> QED  BY <1>1, <1>2, <1>6, <1>7, <1>8 DEF IInv, Between, Entered

LEMMA NextInv == IInv /\ [Next]_vars => IInv'
<1> SUFFICES ASSUME IInv, [Next]_vars PROVE IInv'
    OBVIOUS
<1>1. CASE EncodeNext
    <2>1. /\ next \in DOMAIN cfg /\ cfg' = cfg /\ next' = next + 1
          /\ thread' = EncodeBlock(thread, cfg[next])
        BY <1>1 DEF EncodeNext
    <2>2. Between(EncodeBlock(thread, cfg[next]), next + 1)
        BY <2>1, Block DEF IInv
    <2>3. next + 1 \in 0 .. Cardinality(DOMAIN cfg)
        BY <2>1 DEF IInv, IsGraph
    <2>4. Between(thread, next)'
        BY <2>1, <2>2 DEF Between, Sound, IsThread, EntryOK, Leaves, Successorless, Used,
              AllocatedLabel, Distinct, Chained, Entered, Led, Tested, BlockLabels
    <2>5. Complete(EncodeBlock(thread, cfg[next]), next + 1)
        BY <2>1, OneMoreBlock DEF IInv
    <2>6. Complete(thread, next)'
        <3>1. ASSUME NEW j
              PROVE  /\ PlacesKept(thread, j)' <=> PlacesKept(thread', j)
                     /\ OutcomesKept(thread, j)' <=> OutcomesKept(thread', j)
            BY <2>1 DEF PlacesKept, Emitted, OutcomesKept, FlowLabels
        <3> QED  BY <2>1, <2>5, <3>1 DEF Complete
    <2> QED  BY <2>1, <2>3, <2>4, <2>6 DEF IInv, IsGraph
<1>2. CASE UNCHANGED vars
    <2>1. cfg' = cfg /\ next' = next /\ thread' = thread
        BY <1>2 DEF vars
    <2>2. Between(thread, next)'
        BY <2>1 DEF IInv, Between, Sound, IsThread, EntryOK, Leaves, Successorless, Used,
              AllocatedLabel, Distinct, Chained, Entered, Led, Tested, BlockLabels
    <2>3. Complete(thread, next)'
        <3>1. ASSUME NEW j
              PROVE  /\ PlacesKept(thread, j)' <=> PlacesKept(thread, j)
                     /\ OutcomesKept(thread, j)' <=> OutcomesKept(thread, j)
            BY <2>1 DEF PlacesKept, Emitted, OutcomesKept, FlowLabels
        <3> QED  BY <2>1, <3>1 DEF IInv, Complete
    <2> QED  BY <2>1, <2>2, <2>3 DEF IInv, IsGraph
<1> QED  BY <1>1, <1>2 DEF Next

\* The invariant holds of every reachable state.
THEOREM Invariance == Spec => []IInv
BY InitInv, NextInv, PTL DEF Spec

LEMMA CompleteImplies ==
    IInv => EmittedWithTerminator /\ PredicatedBranchesEmitted
<1> SUFFICES ASSUME IInv PROVE EmittedWithTerminator /\ PredicatedBranchesEmitted
    OBVIOUS
<1>1. \A id \in 0 .. next - 1 : PlacesKept(thread, id) /\ OutcomesKept(thread, id)
    BY DEF IInv, Complete
<1>2. EmittedWithTerminator
    BY <1>1 DEF PlacesKept, Emitted, EmittedWithTerminator, Defs
<1>3. \A id : FlowLabels(thread, id) = UNION {TargetsOf(Defs[k].def) : k \in FlowOf(id)}
    BY DEF FlowLabels, FlowOf, Defs
<1>4. PredicatedBranchesEmitted
    BY <1>1, <1>3 DEF OutcomesKept, PredicatedBranchesEmitted
<1> QED  BY <1>2, <1>4

LEMMA InvImplies ==
    IInv => /\ TypeOK /\ OneDefinitionPerLabel /\ BlocksAreChains
            /\ FlowStaysInGraph /\ NoDeadLabel
<1> SUFFICES ASSUME IInv
             PROVE  /\ TypeOK /\ OneDefinitionPerLabel /\ BlocksAreChains
                    /\ FlowStaysInGraph /\ NoDeadLabel
    OBVIOUS
<1>1. /\ IsGraph(cfg) /\ Between(thread, next) /\ Sound(thread, next)
      /\ next \in 0 .. Cardinality(DOMAIN cfg) /\ Cardinality(DOMAIN cfg) \in Nat
      /\ DOMAIN cfg = 0 .. Cardinality(DOMAIN cfg) - 1
    BY DEF IInv, Between, IsGraph
<1>2. \A k \in DOMAIN Defs : EntryOK(thread, next, Defs[k])
    BY <1>1 DEF Sound, Defs
<1>3. TypeOK
    <2>1. \A j \in 0 .. next - 1 : BlockLabel(j) \in AllocatedLabel(cfg, thread)
        BY <1>1 DEF BlockLabel, AllocatedLabel
    <2>2. Used(thread, next) \subseteq AllocatedLabel(cfg, thread)
        BY <2>1 DEF Used, AllocatedLabel
    <2> QED  BY <1>1, <1>2, <2>2 DEF TypeOK, Sound, IsThread, EntryOK
<1>4. OneDefinitionPerLabel
    BY <1>1 DEF OneDefinitionPerLabel, Sound, Distinct, Defs
<1>5. BlocksAreChains
    BY <1>1 DEF BlocksAreChains, Sound, Chained, Follows, Defs
<1>6. FlowStaysInGraph
    <2> SUFFICES ASSUME NEW id \in 0 .. next - 1, NEW k \in FlowOf(id)
                 PROVE  LET d == Defs[k].def
                        IN  IF d.kind = "stop" THEN cfg[id].term = "EXIT" \/ cfg[id].succs = <<>>
                            ELSE TargetsOf(d) \subseteq
                                    {BlockLabel(s) : s \in ToSet(cfg[id].succs)}
        BY DEF FlowStaysInGraph
    <2>1. k \in DOMAIN Defs /\ Defs[k].from = <<id, 0>>
        BY DEF FlowOf
    <2>2. Defs[k].from[1] = id /\ Defs[k].from[2] = 0
        BY <2>1
    <2>3. Leaves(Defs[k])
        BY <1>2, <2>1, <2>2 DEF EntryOK
    <2> QED  BY <2>2, <2>3 DEF Leaves, Successorless
<1>7. NoDeadLabel
    <2> SUFFICES ASSUME next = Cardinality(DOMAIN cfg),
                        NEW k \in DOMAIN Defs, NEW label \in TargetsOf(Defs[k].def)
                 PROVE  \/ \E j \in DOMAIN Defs : Defs[j].def.at = label
                        \/ \E id \in DOMAIN cfg :
                              /\ cfg[id].succs = <<>>
                              /\ label = BlockLabel(id) \/ Defs[k].from[1] = id
        BY DEF NoDeadLabel
    <2>1. Led(thread, Defs[k]) /\ Defs[k].from[1] \in DOMAIN cfg
        BY <1>1, <1>2 DEF Between, EntryOK, Defs
    <2>2. CASE label \in BlockLabels
        <3>1. PICK id \in DOMAIN cfg : label = BlockLabel(id)
            BY <2>2 DEF BlockLabels
        <3>2. Successorless(id) \/ Tested(thread, BlockLabel(id))
            BY <1>1 DEF Between, Entered
        <3> QED  BY <3>1, <3>2 DEF Successorless, Tested, Defs
    <2>3. CASE Tested(thread, label)
        BY <2>3 DEF Tested, Defs
    <2>4. CASE Successorless(Defs[k].from[1])
        BY <2>1, <2>4 DEF Successorless
    <2> QED  BY <2>1, <2>2, <2>3, <2>4 DEF Led
<1> QED  BY <1>3, <1>4, <1>5, <1>6, <1>7

\* Definitions mention allocated labels only.
THEOREM TypeCorrect == Spec => []TypeOK
BY Invariance, InvImplies, PTL

\* No two definitions test the same label, whatever the graph: the emitted
\* process has no choice that the kernel does not have.
THEOREM Deterministic == Spec => []OneDefinitionPerLabel
BY Invariance, InvImplies, PTL

\* The definitions of a block are one chain from its label, in program order.
THEOREM ProgramOrder == Spec => []BlocksAreChains
BY Invariance, InvImplies, PTL

\* A block is left along its edges only, and the thread stops only at an EXIT or
\* where the graph ends.
THEOREM AlongEdges == Spec => []FlowStaysInGraph
BY Invariance, InvImplies, PTL

\* In the complete output every label that is led to is tested, except where the
\* graph ends.
THEOREM NoThreadStuck == Spec => []NoDeadLabel
BY Invariance, InvImplies, PTL

\* Where the slicer left the terminator of a block, each of its instructions that
\* has a handler is emitted.
THEOREM HandledAreEmitted == Spec => []EmittedWithTerminator
BY Invariance, CompleteImplies, PTL

\* There, a branch on a predicate register leads to every successor of its block.
THEOREM OutcomesAreEmitted == Spec => []PredicatedBranchesEmitted
BY Invariance, CompleteImplies, PTL

\* The assumption about the graphs holds of every instruction sequence, lowered
\* whole or sliced and collapsed: whatever the slicer removes and however many
\* retry loops are cut, the graph that generate receives is well-formed.
THEOREM LoweredIsGraph ==
    ASSUME NEW f, IsProgram(f), NEW slicing
    PROVE  IsGraph(Lower(f, slicing))
<1>1. PICK m \in Nat : AreLinked(BuildCfg(f), m)
    BY BuildCfgLinked
<1>2. AreLinked(Lower(f, slicing), m)
    <2>1. AreLinked(DefaultSlice(f), m)
        BY <1>1, SliceLinked DEF DefaultSlice
    <2>2. AreLinked(CollapseTryAllocRetry(DefaultSlice(f)), m)
        BY <2>1, CollapseLinked
    <2> QED  BY <1>1, <2>2 DEF Lower
<1> DEFINE g == Lower(f, slicing)
<1> HIDE DEF g
<1>3. AreLinked(g, m)
    BY <1>2 DEF g
<1>4. Cardinality(DOMAIN g) = m
    BY <1>3, FS_Interval DEF AreLinked
<1>5. ASSUME NEW k \in DOMAIN g
      PROVE  /\ g[k].id = k /\ g[k].term \in TerminatorKind
             /\ g[k].instructions \in Seq(ToSet(g[k].instructions))
             /\ g[k].succs \in Seq(DOMAIN g)
             /\ g[k].term = "CONDITIONAL" => Len(g[k].succs) <= 2
    <2>1. /\ IsSequence(g[k].instructions) /\ IsSequence(g[k].succs)
          /\ Items(g[k].succs) \subseteq DOMAIN g
        BY <1>3 DEF AreLinked
    <2>2. ToSet(g[k].instructions) = Items(g[k].instructions)
        BY DEF ToSet, Items
    <2>3. g[k].succs \in Seq(DOMAIN g)
        BY <2>1, LenProperties, SeqDef DEF IsSequence
    <2> QED  BY <1>3, <2>1, <2>2, <2>3 DEF AreLinked, IsSequence
<1>6. IsGraph(g)
    BY <1>3, <1>4, <1>5 DEF IsGraph, AreLinked
<1> QED  BY <1>6 DEF g
=============================================================================
