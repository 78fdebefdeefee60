--------------------------- MODULE FrontEnd_proofs ---------------------------
(***************************************************************************)
(* Proofs about the front end, for every text.                             *)
(*                                                                         *)
(* What each pass hands to the next is a list of the lines of a set, in    *)
(* the order of the text; the statements of a function are those of the    *)
(* lines between two markers.  A label stands for an address, which tells  *)
(* the instructions of a function apart because a disassembler counts      *)
(* addresses up between two markers.                                       *)
(***************************************************************************)
EXTENDS FrontEnd, Lemmas

-----------------------------------------------------------------------------
(* Lists of lines.                                                         *)

\* The lines of the set S as the cleaner writes them, in order.
Lists(seq, t, S) ==
    /\ IsSequence(seq)
    /\ \A p \in DOMAIN seq : seq[p].at \in S /\ seq[p] = Kept(t, seq[p].at)
    /\ \A p, q \in DOMAIN seq : p < q => seq[p].at < seq[q].at
    /\ \A n \in S : \E p \in DOMAIN seq : seq[p].at = n

\* The fields of a line that is kept.
LEMMA KeptFields ==
    ASSUME NEW t, NEW n
    PROVE  LET k == Kept(t, n)
           IN  /\ k.at = n /\ k.name = t[n].name /\ k.insn = t[n].insn
               /\ k.labels = t[n].labels /\ k.address = Address(t, n)
               /\ t[n].kind # "marker" => k.kind = t[n].kind
               /\ t[n].kind = "marker" => k.kind = "function"
BY DEF Kept

LEMMA NothingListed == ASSUME NEW t PROVE Lists(<<>>, t, {})
BY EmptyAndSingle DEF Lists

\* A line behind all others, added at the end.
LEMMA OneMoreListed ==
    ASSUME NEW t, NEW S, S \subseteq Nat, NEW n \in Nat, \A m \in S : m < n,
           NEW seq, Lists(seq, t, S), NEW u, IsSequence(u), Len(u) = Len(seq) + 1,
           \A k \in DOMAIN seq : u[k] = seq[k],
           u[Len(seq) + 1] = Kept(t, n)
    PROVE  Lists(u, t, S \cup {n})
<1>1. Len(seq) \in Nat /\ DOMAIN seq = 1 .. Len(seq) /\ DOMAIN u = 1 .. Len(seq) + 1
    BY SequenceDomain DEF Lists
<1>2. \A k \in DOMAIN u : k \in DOMAIN seq \/ k = Len(seq) + 1
    BY <1>1
<1>3. u[Len(seq) + 1].at = n
    BY KeptFields
<1>4. \A p \in DOMAIN u : u[p].at \in S \cup {n} /\ u[p] = Kept(t, u[p].at)
    BY <1>2, <1>3 DEF Lists
<1>5. ASSUME NEW p \in DOMAIN u, NEW q \in DOMAIN u, p < q PROVE u[p].at < u[q].at
    <2>1. p \in DOMAIN seq
        BY <1>1, <1>5
    <2>2. u[p].at = seq[p].at /\ u[p].at \in S
        BY <2>1 DEF Lists
    <2>3. CASE q \in DOMAIN seq
        BY <1>5, <2>1, <2>3 DEF Lists
    <2>4. CASE q = Len(seq) + 1
        BY <1>3, <2>2, <2>4
    <2> QED  BY <1>2, <2>3, <2>4
<1>6. ASSUME NEW m \in S \cup {n} PROVE \E p \in DOMAIN u : u[p].at = m
    <2>1. CASE m \in S
        <3>1. PICK p \in DOMAIN seq : seq[p].at = m
            BY <2>1 DEF Lists
        <3>2. p \in DOMAIN u
            BY <1>1
        <3> QED  BY <3>1, <3>2
    <2>2. CASE m = n
        <3>1. Len(seq) + 1 \in DOMAIN u
            BY <1>1
        <3> QED  BY <1>3, <2>2, <3>1
    <2> QED  BY <2>1, <2>2
<1> QED  BY <1>4, <1>5, <1>6 DEF Lists

LEMMA AppendListed ==
    ASSUME NEW t, NEW S, S \subseteq Nat, NEW n \in Nat, \A m \in S : m < n,
           NEW seq, Lists(seq, t, S)
    PROVE  /\ Lists(Append(seq, Kept(t, n)), t, S \cup {n})
           /\ Lists(seq \o <<Kept(t, n)>>, t, S \cup {n})
<1> DEFINE k == Kept(t, n)
<1>1. IsSequence(seq) /\ Len(seq) \in Nat /\ DOMAIN seq = 1 .. Len(seq)
    BY SequenceDomain DEF Lists
<1> HIDE DEF k
<1>2. LET u == Append(seq, k)
      IN  /\ IsSequence(u) /\ Len(u) = Len(seq) + 1
          /\ \A j \in DOMAIN seq : u[j] = seq[j]
          /\ u[Len(seq) + 1] = k
    BY <1>1, AppendItem
<1>3. LET u == seq \o <<k>>
      IN  /\ IsSequence(u) /\ Len(u) = Len(seq) + 1
          /\ \A j \in DOMAIN seq : u[j] = seq[j]
          /\ u[Len(seq) + 1] = k
    <2>1. IsSequence(<<k>>) /\ Len(<<k>>) = 1 /\ <<k>>[1] = k
        BY EmptyAndSingle
    <2>2. Joins(seq \o <<k>>, seq, <<k>>)
        BY <1>1, <2>1, ConcatItems
    <2>3. 1 \in 1 .. 1
        OBVIOUS
    <2> QED  BY <1>1, <2>1, <2>2, <2>3 DEF Joins
<1>4. Lists(Append(seq, k), t, S \cup {n})
    BY <1>2, OneMoreListed DEF k
<1>5. Lists(seq \o <<k>>, t, S \cup {n})
    BY <1>3, OneMoreListed DEF k
<1> QED  BY <1>4, <1>5 DEF k

\* Lines are numbered from 1, so no more are listed than the last one's number.
LEMMA FewListed ==
    ASSUME NEW t, NEW n \in Nat, NEW S, S \subseteq 1 .. n, NEW seq, Lists(seq, t, S)
    PROVE  Len(seq) \in 0 .. n
<1>1. Len(seq) \in Nat /\ DOMAIN seq = 1 .. Len(seq)
    BY SequenceDomain DEF Lists
<1>2. \A p \in DOMAIN seq : seq[p].at \in 1 .. n
    BY DEF Lists
<1> DEFINE T == {p \in DOMAIN seq : seq[p].at < p}
<1>3. T = {}
    <2> SUFFICES ASSUME T # {} PROVE FALSE
        OBVIOUS
    <2>1. PICK p \in T : \A y \in T : p <= y
        <3>1. T \subseteq Nat
            BY <1>1
        <3> HIDE DEF T
        <3> QED  BY <3>1, LeastNat
    <2>2. p \in DOMAIN seq /\ seq[p].at < p /\ p \in Nat /\ seq[p].at >= 1 /\ seq[p].at \in Nat
        BY <1>1, <1>2, <2>1
    <2>3. p - 1 \in DOMAIN seq /\ p - 1 < p /\ p - 1 \in Nat
        BY <1>1, <2>2
    <2>4. seq[p - 1].at < seq[p].at /\ seq[p - 1].at \in Nat
        BY <1>2, <2>2, <2>3 DEF Lists
    <2>5. p - 1 \in T
        BY <2>2, <2>3, <2>4
    <2> QED  BY <2>1, <2>2, <2>3, <2>5
<1>4. CASE Len(seq) # 0
    <2>1. Len(seq) \in DOMAIN seq
        BY <1>1, <1>4
    <2>2. ~ (seq[Len(seq)].at < Len(seq))
        BY <1>3, <2>1
    <2> QED  BY <1>1, <1>2, <2>1, <2>2
<1> QED  BY <1>1, <1>4

\* The instructions among the statements.
LEMMA InstructionsListed ==
    ASSUME NEW t, NEW S, S \subseteq Nat, NEW stmts, Lists(stmts, t, S)
    PROVE  Lists(InstructionsOf(stmts), t, {n \in S : t[n].kind = "insn"})
<1> DEFINE P == {n \in DOMAIN stmts : stmts[n].kind = "insn"}
           order == Sorted(P, Len(stmts))
           u == InstructionsOf(stmts)
           I == {n \in S : t[n].kind = "insn"}
<1>1. Len(stmts) \in Nat /\ DOMAIN stmts = 1 .. Len(stmts)
    BY SequenceDomain DEF Lists
<1>2. Ascends(order, P)
    BY <1>1, SortedMembers
<1>3. u = [n \in DOMAIN order |-> stmts[order[n]]]
    BY DEF InstructionsOf, Selected
<1> HIDE DEF order
<1>4. Len(order) \in Nat /\ DOMAIN order = 1 .. Len(order) /\ Items(order) = P
    BY <1>2, SequenceDomain DEF Ascends
<1>5. IsSequence(u) /\ DOMAIN u = DOMAIN order
    <2>1. u = [n \in 1 .. Len(order) |-> u[n]]
        BY <1>3, <1>4
    <2> HIDE DEF u
    <2> QED  BY <1>4, <2>1, FunctionIsSequence
<1> HIDE DEF u
<1>6. \A n \in DOMAIN u : order[n] \in P /\ u[n] = stmts[order[n]]
    BY <1>3, <1>4, <1>5 DEF Items
<1>7. ASSUME NEW p \in DOMAIN u PROVE u[p].at \in I /\ u[p] = Kept(t, u[p].at)
    <2>1. order[p] \in DOMAIN stmts /\ u[p] = stmts[order[p]] /\ u[p].kind = "insn"
        BY <1>6
    <2>2. u[p].at \in S /\ u[p] = Kept(t, u[p].at)
        BY <2>1 DEF Lists
    <2>3. t[u[p].at].kind = "insn"
        BY <2>1, <2>2, KeptFields
    <2> QED  BY <2>2, <2>3
<1>8. ASSUME NEW p \in DOMAIN u, NEW q \in DOMAIN u, p < q PROVE u[p].at < u[q].at
    <2>1. order[p] < order[q]
        BY <1>2, <1>4, <1>5, <1>8 DEF Ascends
    <2> QED  BY <1>6, <2>1 DEF Lists
<1>9. ASSUME NEW n \in I PROVE \E p \in DOMAIN u : u[p].at = n
    <2>1. PICK p \in DOMAIN stmts : stmts[p].at = n /\ stmts[p] = Kept(t, n)
        BY DEF Lists
    <2>2. stmts[p].kind = "insn"
        BY <2>1, KeptFields
    <2>3. PICK k \in DOMAIN order : order[k] = p
        BY <1>4, <2>2 DEF Items
    <2> QED  BY <1>5, <1>6, <2>1, <2>3
<1> QED  BY <1>5, <1>7, <1>8, <1>9 DEF Lists, u

-----------------------------------------------------------------------------
(* Labels.                                                                 *)

\* The label at q stands in front of the instruction at r.
Stands(stmts, q, r) ==
    /\ stmts[q].kind = "label" /\ stmts[r].kind = "insn" /\ q < r
    /\ \A j \in q .. r - 1 : stmts[j].kind # "insn"

Waits(stmts, q, k) ==
    stmts[q].kind = "label" /\ \A j \in q .. k : stmts[j].kind # "insn"

\* What pass 1 knows of the labels after k statements.
IsMap(m, stmts, k) ==
    /\ \A l : l \in m.pending <=>
          \E q \in 1 .. k : Waits(stmts, q, k) /\ stmts[q].name = l
    /\ \A l : l \in DOMAIN m.label_to_addr <=>
          \E q, r \in 1 .. k : Stands(stmts, q, r) /\ stmts[q].name = l
    /\ \A l \in DOMAIN m.label_to_addr :
          \E q, r \in 1 .. k : /\ Stands(stmts, q, r) /\ stmts[q].name = l
                               /\ m.label_to_addr[l] = stmts[r].address

LEMMA NoLabelsIsMap == ASSUME NEW stmts PROVE IsMap(NoLabels, stmts, 0)
<1>1. NoLabels.pending = {} /\ NoLabels.label_to_addr = <<>> /\ DOMAIN <<>> = {}
    BY EmptyAndSingle DEF NoLabels
<1>2. 1 .. 0 = {}
    OBVIOUS
<1> QED  BY <1>1, <1>2 DEF IsMap

LEMMA LabelLinearised ==
    ASSUME NEW stmts, NEW k \in Nat, NEW m, IsMap(m, stmts, k),
           m = [label_to_addr |-> m.label_to_addr, pending |-> m.pending],
           stmts[k + 1].kind = "label"
    PROVE  LET h == Linearise(m, stmts[k + 1])
           IN  /\ IsMap(h, stmts, k + 1)
               /\ h = [label_to_addr |-> h.label_to_addr, pending |-> h.pending]
<1> DEFINE h == Linearise(m, stmts[k + 1])
<1>1. /\ h.pending = m.pending \cup {stmts[k + 1].name}
      /\ h.label_to_addr = m.label_to_addr
      /\ h = [label_to_addr |-> h.label_to_addr, pending |-> h.pending]
    BY DEF Linearise
<1> HIDE DEF h
<1>2. \A q \in 1 .. k + 1 : q \in 1 .. k \/ q = k + 1
    OBVIOUS
<1>3. 1 .. k \subseteq 1 .. k + 1 /\ k + 1 \in 1 .. k + 1
    OBVIOUS
<1>4. stmts[k + 1].kind # "insn"
    OBVIOUS
<1>5. \A q \in 1 .. k : Waits(stmts, q, k + 1) <=> Waits(stmts, q, k)
    <2> SUFFICES ASSUME NEW q \in 1 .. k
                 PROVE  Waits(stmts, q, k + 1) <=> Waits(stmts, q, k)
        OBVIOUS
    <2>1. \A j : j \in q .. k + 1 <=> j \in q .. k \/ j = k + 1
        OBVIOUS
    <2> QED  BY <1>4, <2>1 DEF Waits
<1>6. Waits(stmts, k + 1, k + 1)
    <2>1. \A j \in k + 1 .. k + 1 : j = k + 1
        OBVIOUS
    <2> QED  BY <1>4, <2>1 DEF Waits
<1>7. \A l : l \in h.pending <=>
          \E q \in 1 .. k + 1 : Waits(stmts, q, k + 1) /\ stmts[q].name = l
    BY <1>1, <1>2, <1>3, <1>5, <1>6 DEF IsMap
<1>8. \A q, r \in 1 .. k + 1 : Stands(stmts, q, r) => q \in 1 .. k /\ r \in 1 .. k
    <2> SUFFICES ASSUME NEW q \in 1 .. k + 1, NEW r \in 1 .. k + 1, Stands(stmts, q, r)
                 PROVE  q \in 1 .. k /\ r \in 1 .. k
        OBVIOUS
    <2>1. r # k + 1 /\ q < r
        BY <1>4 DEF Stands
    <2> QED  BY <2>1
<1>9. \A l : l \in DOMAIN h.label_to_addr <=>
          \E q, r \in 1 .. k + 1 : Stands(stmts, q, r) /\ stmts[q].name = l
    BY <1>1, <1>3, <1>8 DEF IsMap
<1>10. \A l \in DOMAIN h.label_to_addr :
          \E q, r \in 1 .. k + 1 : /\ Stands(stmts, q, r) /\ stmts[q].name = l
                                   /\ h.label_to_addr[l] = stmts[r].address
    BY <1>1, <1>3 DEF IsMap
<1> QED  BY <1>1, <1>7, <1>9, <1>10 DEF IsMap, h

LEMMA InstructionLinearised ==
    ASSUME NEW stmts, NEW k \in Nat, NEW m, IsMap(m, stmts, k),
           stmts[k + 1].kind = "insn"
    PROVE  LET h == Linearise(m, stmts[k + 1])
           IN  /\ IsMap(h, stmts, k + 1)
               /\ h = [label_to_addr |-> h.label_to_addr, pending |-> h.pending]
<1> DEFINE h == Linearise(m, stmts[k + 1])
           a == stmts[k + 1].address
           d == h.label_to_addr
           f == m.label_to_addr
<1>1. /\ h.pending = {}
      /\ d = Updated(f, [l \in m.pending |-> a])
      /\ h = [label_to_addr |-> d, pending |-> h.pending]
    BY DEF Linearise
<1>2. /\ DOMAIN d = m.pending \cup DOMAIN f
      /\ \A l \in m.pending : d[l] = a
      /\ \A l \in DOMAIN f \ m.pending : d[l] = f[l]
    <2> DEFINE L == m.pending
    <2>1. d = Updated(f, [l \in L |-> a])
        BY <1>1
    <2> HIDE DEF h, a, L, f, d
    <2>2. /\ DOMAIN d = L \cup DOMAIN f
          /\ \A l \in L : d[l] = a
          /\ \A l \in DOMAIN f \ L : d[l] = f[l]
        BY <2>1 DEF Updated
    <2> QED  BY <2>2 DEF L
<1> HIDE DEF h
<1>3. \A q \in 1 .. k + 1 : q \in 1 .. k \/ q = k + 1
    OBVIOUS
<1>4. 1 .. k \subseteq 1 .. k + 1 /\ k + 1 \in 1 .. k + 1
    OBVIOUS
<1>5. \A q \in 1 .. k + 1 : ~ Waits(stmts, q, k + 1)
    <2> SUFFICES ASSUME NEW q \in 1 .. k + 1 PROVE k + 1 \in q .. k + 1
        BY DEF Waits
    <2> QED  OBVIOUS
<1>6. \A l : l \in h.pending <=>
          \E q \in 1 .. k + 1 : Waits(stmts, q, k + 1) /\ stmts[q].name = l
    BY <1>1, <1>5
\* The new instruction stands behind the labels that waited, and no others.
<1>7. \A q \in 1 .. k : Stands(stmts, q, k + 1) <=> Waits(stmts, q, k)
    <2> SUFFICES ASSUME NEW q \in 1 .. k
                 PROVE  Stands(stmts, q, k + 1) <=> Waits(stmts, q, k)
        OBVIOUS
    <2>1. (k + 1) - 1 = k /\ q < k + 1
        OBVIOUS
    <2> QED  BY <2>1 DEF Stands, Waits
<1>8. ~ Stands(stmts, k + 1, k + 1) /\ \A r \in 1 .. k : ~ Stands(stmts, k + 1, r)
    BY DEF Stands
<1>9. \A l : l \in m.pending <=>
          \E q \in 1 .. k : Stands(stmts, q, k + 1) /\ stmts[q].name = l
    BY <1>7 DEF IsMap
<1>10. \A l : l \in DOMAIN d <=>
          \E q, r \in 1 .. k + 1 : Stands(stmts, q, r) /\ stmts[q].name = l
    BY <1>2, <1>3, <1>4, <1>8, <1>9 DEF IsMap
<1>11. ASSUME NEW l \in DOMAIN d
       PROVE  \E q, r \in 1 .. k + 1 : /\ Stands(stmts, q, r) /\ stmts[q].name = l
                                       /\ d[l] = stmts[r].address
    <2>1. CASE l \in m.pending
        BY <1>2, <1>4, <1>9, <2>1
    <2>2. CASE l \notin m.pending
        BY <1>2, <1>4, <2>2 DEF IsMap
    <2> QED  BY <2>1, <2>2
<1> QED  BY <1>1, <1>6, <1>10, <1>11 DEF IsMap, h

\* The equations of the maps that pass 1 goes through.
AreMaps(g, stmts, n) ==
    /\ g = [k \in 0 .. n |-> g[k]]
    /\ \A k \in 0 .. n : g[k] = IF k = 0 THEN NoLabels ELSE Linearise(g[k - 1], stmts[k])

LEMMA MapsExist ==
    ASSUME NEW stmts, NEW n \in Nat
    PROVE  \E g : AreMaps(g, stmts, n)
<1> DEFINE T == {m \in Nat : ~ \E g : AreMaps(g, stmts, m)}
<1> SUFFICES ASSUME T # {} PROVE FALSE
    OBVIOUS
<1>1. PICK m \in T : \A y \in T : m <= y
    <2>1. T \subseteq Nat
        OBVIOUS
    <2> HIDE DEF T
    <2> QED  BY <2>1, LeastNat
<1>2. m # 0
    <2>1. AreMaps([k \in 0 .. 0 |-> NoLabels], stmts, 0)
        BY DEF AreMaps
    <2> QED  BY <2>1
<1>3. m \in Nat /\ m - 1 \in Nat /\ m - 1 \notin T
    BY <1>1, <1>2
<1>4. PICK s : AreMaps(s, stmts, m - 1)
    BY <1>3
<1> DEFINE r == [k \in 0 .. m |-> IF k = m THEN Linearise(s[m - 1], stmts[m]) ELSE s[k]]
<1>5. AreMaps(r, stmts, m)
    <2>1. r = [k \in 0 .. m |-> r[k]]
        OBVIOUS
    <2>2. ASSUME NEW k \in 0 .. m
          PROVE  r[k] = IF k = 0 THEN NoLabels ELSE Linearise(r[k - 1], stmts[k])
        <3>1. CASE k = m
            <4>1. k - 1 \in 0 .. m /\ k - 1 # m /\ k # 0
                BY <1>2, <1>3, <3>1
            <4> QED  BY <3>1, <4>1
        <3>2. CASE k # m
            <4>1. k \in 0 .. m - 1 /\ (k # 0 => k - 1 \in 0 .. m /\ k - 1 # m)
                BY <1>3, <3>2
            <4>2. r[k] = s[k] /\ (k # 0 => r[k - 1] = s[k - 1])
                BY <3>2, <4>1
            <4> QED  BY <1>4, <4>1, <4>2 DEF AreMaps
        <3> QED  BY <3>1, <3>2
    <2> HIDE DEF r
    <2> QED  BY <2>1, <2>2 DEF AreMaps
<1> QED  BY <1>1, <1>3, <1>5

LEMMA LabelToAddrIs ==
    ASSUME NEW stmts, NEW n, n = Len(stmts), n \in Nat
    PROVE  \E g : AreMaps(g, stmts, n) /\ LabelToAddr(stmts) = g[n].label_to_addr
<1> DEFINE Step(g, k) == IF k = 0 THEN NoLabels ELSE Linearise(g[k - 1], stmts[k])
           Eq(g) == g = [k \in 0 .. n |-> Step(g, k)]
<1>1. PICK s : AreMaps(s, stmts, n)
    BY MapsExist
<1>2. LabelToAddr(stmts) = (CHOOSE g : Eq(g))[n].label_to_addr
    BY DEF LabelToAddr
<1>3. Eq(s)
    <2>1. \A k \in 0 .. n : s[k] = Step(s, k)
        BY <1>1 DEF AreMaps
    <2>2. s = [k \in 0 .. n |-> s[k]]
        BY <1>1 DEF AreMaps
    <2> HIDE DEF Step
    <2> QED  BY <2>1, <2>2
<1>4. PICK g : g = (CHOOSE h : Eq(h)) /\ Eq(g)
    <2> HIDE DEF Eq
    <2> QED  BY <1>3
<1>5. AreMaps(g, stmts, n)
    <2>1. g = [k \in 0 .. n |-> g[k]] /\ \A k \in 0 .. n : g[k] = Step(g, k)
        <3> HIDE DEF Step
        <3> QED  BY <1>4
    <2> QED  BY <2>1 DEF AreMaps
<1> QED  BY <1>2, <1>4, <1>5

\* A label has the address of an instruction that it stands in front of, if there
\* is one.
LEMMA LabelsLinearised ==
    ASSUME NEW stmts, IsSequence(stmts),
           \A k \in DOMAIN stmts : stmts[k].kind \in {"label", "insn"}
    PROVE  LET d == LabelToAddr(stmts)
           IN  /\ \A l : l \in DOMAIN d <=>
                     \E q, r \in DOMAIN stmts : Stands(stmts, q, r) /\ stmts[q].name = l
               /\ \A l \in DOMAIN d :
                     \E q, r \in DOMAIN stmts : /\ Stands(stmts, q, r) /\ stmts[q].name = l
                                                /\ d[l] = stmts[r].address
<1> DEFINE n == Len(stmts)
           Good(m, k) == /\ IsMap(m, stmts, k)
                         /\ m = [label_to_addr |-> m.label_to_addr, pending |-> m.pending]
<1>1. n \in Nat /\ DOMAIN stmts = 1 .. n
    BY SequenceDomain
<1>2. PICK g : AreMaps(g, stmts, n) /\ LabelToAddr(stmts) = g[n].label_to_addr
    BY <1>1, LabelToAddrIs
<1> HIDE DEF n
<1>3. g[0] = NoLabels /\ \A k \in 0 .. n : k # 0 => g[k] = Linearise(g[k - 1], stmts[k])
    <2>1. \A k \in 0 .. n : g[k] = IF k = 0 THEN NoLabels ELSE Linearise(g[k - 1], stmts[k])
        BY <1>2 DEF AreMaps
    <2>2. 0 \in 0 .. n
        BY <1>1
    <2>3. g[0] = NoLabels
        BY <2>1, <2>2, Zenon
    <2>4. ASSUME NEW k \in 0 .. n, k # 0
          PROVE  g[k] = Linearise(g[k - 1], stmts[k])
        BY <2>1, <2>4, Zenon
    <2> QED  BY <2>3, <2>4
<1> DEFINE T == {k \in 0 .. n : ~ Good(g[k], k)}
<1>4. T = {}
    <2> SUFFICES ASSUME T # {} PROVE FALSE
        OBVIOUS
    <2>1. PICK j \in T : \A y \in T : j <= y
        <3>1. T \subseteq Nat
            BY <1>1
        <3> HIDE DEF T
        <3> QED  BY <3>1, LeastNat
    <2>2. Good(NoLabels, 0)
        BY NoLabelsIsMap DEF NoLabels
    <2>3. j # 0
        BY <1>3, <2>1, <2>2
    <2> DEFINE k == j - 1
    <2>4. j \in 0 .. n /\ k \in Nat /\ k \in 0 .. n /\ k + 1 = j /\ j \in 1 .. n /\ k < j
        BY <1>1, <2>1, <2>3
    <2> HIDE DEF k
    <2>5. Good(g[k], k)
        BY <2>1, <2>4
    <2>6. g[j] = Linearise(g[k], stmts[k + 1])
        BY <1>3, <2>3, <2>4 DEF k
    <2>7. stmts[k + 1].kind \in {"label", "insn"}
        BY <1>1, <2>4
    <2>8. Good(g[j], j)
        <3>1. CASE stmts[k + 1].kind = "label"
            BY <2>4, <2>5, <2>6, <3>1, LabelLinearised
        <3>2. CASE stmts[k + 1].kind = "insn"
            BY <2>4, <2>5, <2>6, <3>2, InstructionLinearised
        <3> QED  BY <2>7, <3>1, <3>2
    <2> QED  BY <2>1, <2>8
<1>5. IsMap(g[n], stmts, n)
    <2>1. n \in 0 .. n
        BY <1>1
    <2> QED  BY <1>4, <2>1
<1> QED  BY <1>1, <1>2, <1>5 DEF IsMap

-----------------------------------------------------------------------------
(* Functions.                                                              *)

\* Between two markers addresses go up.
LEMMA AddressesIncrease ==
    ASSUME NEW t, NEW m \in Nat \ {0}, NEW n \in Nat, m < n, t[m].kind = "insn",
           \A k \in m .. n : t[k].kind # "marker"
    PROVE  Address(t, m) < Address(t, n) /\ Address(t, m) \in Nat /\ Address(t, n) \in Nat
<1> DEFINE Before(a) == {j \in 1 .. a - 1 : /\ t[j].kind \in {"insn", "unmatched", "unparsed"}
                                            /\ \A k \in j .. a : t[k].kind # "marker"}
<1>1. ASSUME NEW a \in Nat PROVE IsFiniteSet(Before(a)) /\ Cardinality(Before(a)) \in Nat
    <2>1. IsFiniteSet(1 .. a - 1) /\ Before(a) \subseteq 1 .. a - 1
        BY FS_Interval
    <2> HIDE DEF Before
    <2> QED  BY <2>1, FS_Subset, FS_CardinalityType
<1>2. Before(m) \subseteq Before(n)
    <2> SUFFICES ASSUME NEW j \in Before(m) PROVE j \in Before(n)
        OBVIOUS
    <2>1. j \in 1 .. n - 1
        OBVIOUS
    <2>2. \A k \in j .. n : k \in j .. m \/ k \in m .. n
        OBVIOUS
    <2> QED  BY <2>1, <2>2
<1>3. m \in Before(n) /\ m \notin Before(m)
    OBVIOUS
<1>4. Address(t, m) = Cardinality(Before(m)) /\ Address(t, n) = Cardinality(Before(n))
    BY DEF Address
<1> HIDE DEF Before
<1>5. /\ Cardinality(Before(m)) <= Cardinality(Before(n))
      /\ Cardinality(Before(n)) = Cardinality(Before(m)) => Before(n) = Before(m)
    BY <1>1, <1>2, FS_Subset
<1> QED  BY <1>1, <1>3, <1>4, <1>5

\* The address of an instruction, when no later one has it.
LEMMA LastIndex ==
    ASSUME NEW s, IsSequence(s), NEW i \in DOMAIN s,
           \A j \in DOMAIN s : s[j].address = s[i].address => j = i
    PROVE  AddrToIdx(s, s[i].address) = i
<1>1. Len(s) \in Nat /\ DOMAIN s = 1 .. Len(s)
    BY SequenceDomain
<1> DEFINE I == {j \in 1 .. Len(s) : s[j].address = s[i].address}
<1>2. I = {i}
    BY <1>1
<1>3. AddrToIdx(s, s[i].address) = IF I # {} THEN Max(I) ELSE 0
    BY DEF AddrToIdx, SelectLastInSeq
<1>4. Max({i}) = i
    <2>1. {i} \subseteq 0 .. i /\ i \in Nat
        BY <1>1
    <2> QED  BY <2>1, MaxMember
<1> QED  BY <1>2, <1>3, <1>4

\* What the run checks of a function that is read from the section of s.
IsFunctionOf(prog, s) ==
    /\ IsSequence(prog)
    /\ {prog[n].at : n \in DOMAIN prog} = InsnLines(s)
    /\ \A m, n \in DOMAIN prog : m < n => prog[m].at < prog[n].at
    /\ \A n \in DOMAIN prog :
          LET labels  == text[prog[n].at].labels
              targets == prog[n].insn.targets
          IN  /\ DOMAIN targets = DOMAIN labels
              /\ \A k \in DOMAIN labels :
                    IF Labelled(s, labels[k]) = {} THEN targets[k] = Nowhere
                    ELSE /\ targets[k] \in DOMAIN prog
                         /\ prog[targets[k]].at \in Labelled(s, labels[k])

StatementLines(s) == {n \in SectionLines(s) : IsStatement(n)}

LEMMA TextFacts ==
    ASSUME text \in Texts
    PROVE  /\ Len(text) \in Nat /\ DOMAIN text = 1 .. Len(text)
           /\ \A n \in DOMAIN text : /\ text[n].kind \in LineKind \ {"function"}
                                     /\ "targets" \in DOMAIN text[n].insn
<1>1. IsText(text)
    BY TextsAssumption
<1>2. text \in Seq(ToSet(text))
    BY <1>1 DEF IsText
<1>3. Len(text) \in Nat /\ DOMAIN text = 1 .. Len(text)
    BY <1>2, LenProperties
<1> QED  BY <1>1, <1>3 DEF IsText

\* The statements of a section.
LEMMA SectionStatements ==
    ASSUME text \in Texts, NEW s \in Nat, NEW stmts, Lists(stmts, text, StatementLines(s))
    PROVE  /\ DOMAIN stmts = 1 .. Len(stmts) /\ Len(stmts) \in Nat
           /\ \A p \in DOMAIN stmts :
                 /\ stmts[p].at \in StatementLines(s) /\ stmts[p].at \in Nat
                 /\ stmts[p] = Kept(text, stmts[p].at)
                 /\ stmts[p].kind = text[stmts[p].at].kind
                 /\ stmts[p].kind \in {"label", "insn"}
                 /\ stmts[p].name = text[stmts[p].at].name
<1>1. DOMAIN stmts = 1 .. Len(stmts) /\ Len(stmts) \in Nat
    BY SequenceDomain DEF Lists
<1>2. ASSUME NEW p \in DOMAIN stmts
      PROVE  /\ stmts[p].at \in StatementLines(s) /\ stmts[p].at \in Nat
             /\ stmts[p] = Kept(text, stmts[p].at)
             /\ stmts[p].kind = text[stmts[p].at].kind
             /\ stmts[p].kind \in {"label", "insn"}
             /\ stmts[p].name = text[stmts[p].at].name
    <2>1. stmts[p].at \in StatementLines(s) /\ stmts[p] = Kept(text, stmts[p].at)
        BY DEF Lists
    <2>2. stmts[p].at \in DOMAIN text /\ text[stmts[p].at].kind \in {"label", "insn"}
        BY <2>1 DEF StatementLines, SectionLines, IsStatement
    <2>3. stmts[p].at \in Nat
        BY <2>2, TextFacts
    <2> QED  BY <2>1, <2>2, <2>3, KeptFields
<1> QED  BY <1>1, <1>2

\* A label stands in front of an instruction among the statements where it does in
\* the text, past the lines that were dropped.
LEMMA StandsInText ==
    ASSUME text \in Texts, NEW s \in Nat, NEW stmts, Lists(stmts, text, StatementLines(s)),
           NEW q \in DOMAIN stmts, NEW r \in DOMAIN stmts, Stands(stmts, q, r)
    PROVE  stmts[r].at \in Labelled(s, stmts[q].name)
<1> DEFINE m == stmts[q].at
           n == stmts[r].at
<1>1. DOMAIN stmts = 1 .. Len(stmts) /\ Len(stmts) \in Nat
    BY SectionStatements
<1>2. /\ m \in StatementLines(s) /\ m \in Nat /\ text[m].kind = "label"
      /\ text[m].name = stmts[q].name
      /\ n \in StatementLines(s) /\ n \in Nat /\ text[n].kind = "insn"
    BY SectionStatements DEF Stands
<1>3. m < n
    BY DEF Lists, Stands
<1>4. ASSUME NEW k \in m .. n - 1, k \in InsnLines(s) PROVE FALSE
    <2>1. k \in StatementLines(s) /\ text[k].kind = "insn"
        BY <1>4 DEF InsnLines, StatementLines, IsStatement
    <2>2. PICK p \in DOMAIN stmts : stmts[p].at = k
        BY <2>1 DEF Lists
    <2>3. ~ (p < q) /\ ~ (r < p) /\ p # r
        BY <1>2, <2>2 DEF Lists
    <2>4. p \in q .. r - 1
        BY <1>1, <2>3
    <2>5. stmts[p].kind = "insn"
        BY <2>1, <2>2, SectionStatements
    <2> QED  BY <2>4, <2>5 DEF Stands
<1>5. m \in SectionLines(s) /\ n \in InsnLines(s)
    BY <1>2 DEF StatementLines, InsnLines
<1> HIDE DEF m, n
<1>6. n \in Labelled(s, stmts[q].name)
    BY <1>2, <1>3, <1>4, <1>5 DEF Labelled
<1> QED  BY <1>6 DEF n

LEMMA StandsInStatements ==
    ASSUME text \in Texts, NEW s \in Nat, NEW stmts, Lists(stmts, text, StatementLines(s)),
           NEW l, Labelled(s, l) # {}
    PROVE  \E q, r \in DOMAIN stmts : Stands(stmts, q, r) /\ stmts[q].name = l
<1>1. DOMAIN stmts = 1 .. Len(stmts) /\ Len(stmts) \in Nat
    BY SectionStatements
<1>2. PICK n \in InsnLines(s), m \in SectionLines(s) :
          /\ m < n /\ text[m].kind = "label" /\ text[m].name = l
          /\ \A k \in m .. n - 1 : k \notin InsnLines(s)
    BY DEF Labelled
<1>3. n \in StatementLines(s) /\ m \in StatementLines(s) /\ text[n].kind = "insn"
    BY <1>2 DEF StatementLines, InsnLines, IsStatement
<1>4. PICK q \in DOMAIN stmts : stmts[q].at = m
    BY <1>3 DEF Lists
<1>5. PICK r \in DOMAIN stmts : stmts[r].at = n
    BY <1>3 DEF Lists
<1>6. /\ stmts[q].kind = "label" /\ stmts[q].name = l /\ stmts[r].kind = "insn"
      /\ m \in Nat /\ n \in Nat
    BY <1>2, <1>3, <1>4, <1>5, SectionStatements
<1>7. q < r
    <2>1. ~ (r < q) /\ r # q
        BY <1>2, <1>4, <1>5, <1>6 DEF Lists
    <2> QED  BY <1>1, <2>1
<1>8. ASSUME NEW j \in q .. r - 1, stmts[j].kind = "insn" PROVE FALSE
    <2>1. j \in DOMAIN stmts /\ j < r /\ (q < j \/ q = j)
        BY <1>1, <1>8
    <2>2. stmts[j].at < n /\ m <= stmts[j].at /\ stmts[j].at \in Nat
        <3>1. stmts[j].at \in Nat /\ stmts[j].at < n
            BY <1>5, <2>1, SectionStatements DEF Lists
        <3>2. CASE q = j
            BY <1>4, <1>6, <3>1, <3>2
        <3>3. CASE q < j
            <4>1. m < stmts[j].at
                BY <1>4, <2>1, <3>3 DEF Lists
            <4> QED  BY <1>6, <3>1, <4>1
        <3> QED  BY <2>1, <3>1, <3>2, <3>3
    <2>3. stmts[j].at \in m .. n - 1
        BY <1>6, <2>2
    <2>4. stmts[j].at \in InsnLines(s)
        BY <1>8, <2>1, SectionStatements DEF InsnLines, StatementLines
    <2> QED  BY <1>2, <2>3, <2>4
<1> QED  BY <1>6, <1>7, <1>8 DEF Stands

\* An instruction of a function is found by its address.
LEMMA InstructionFound ==
    ASSUME text \in Texts, NEW s \in Nat, NEW stmts, Lists(stmts, text, StatementLines(s))
    PROVE  LET instrs == InstructionsOf(stmts)
           IN  /\ Lists(instrs, text, InsnLines(s))
               /\ \A i \in DOMAIN instrs :
                     /\ AddrToIdx(instrs, instrs[i].address) = i
                     /\ instrs[i].at \in InsnLines(s) /\ instrs[i] = Kept(text, instrs[i].at)
<1> DEFINE instrs == InstructionsOf(stmts)
<1>1. StatementLines(s) \subseteq Nat
    BY TextFacts DEF StatementLines, SectionLines
<1>2. {n \in StatementLines(s) : text[n].kind = "insn"} = InsnLines(s)
    BY DEF StatementLines, InsnLines, IsStatement
<1>3. Lists(instrs, text, InsnLines(s))
    BY <1>1, <1>2, InstructionsListed
<1> HIDE DEF instrs
<1>4. DOMAIN instrs = 1 .. Len(instrs) /\ Len(instrs) \in Nat /\ IsSequence(instrs)
    BY <1>3, SequenceDomain DEF Lists
<1>5. \A i \in DOMAIN instrs :
          instrs[i].at \in InsnLines(s) /\ instrs[i] = Kept(text, instrs[i].at)
    BY <1>3 DEF Lists
<1>6. ASSUME NEW i \in DOMAIN instrs, NEW j \in DOMAIN instrs, i < j
      PROVE  instrs[i].address # instrs[j].address
    <2> DEFINE m == instrs[i].at
               n == instrs[j].at
    <2>1. m < n /\ m \in InsnLines(s) /\ n \in InsnLines(s)
        BY <1>3, <1>6 DEF Lists
    <2>2. /\ m \in Nat \ {0} /\ n \in Nat /\ s < m /\ text[m].kind = "insn"
          /\ n \in DOMAIN text /\ \A k \in s + 1 .. n : k \notin SectionStarts
        BY <2>1, TextFacts DEF InsnLines, SectionLines
    <2>3. instrs[i].address = Address(text, m) /\ instrs[j].address = Address(text, n)
        BY <1>5, KeptFields
    <2> HIDE DEF m, n
    <2>4. ASSUME NEW k \in m .. n PROVE text[k].kind # "marker"
        <3>1. k \in s + 1 .. n /\ k \in DOMAIN text
            BY <2>2, TextFacts
        <3> QED  BY <2>2, <3>1 DEF SectionStarts
    <2> QED  BY <2>1, <2>2, <2>3, <2>4, AddressesIncrease
<1>7. ASSUME NEW i \in DOMAIN instrs PROVE AddrToIdx(instrs, instrs[i].address) = i
    <2>1. ASSUME NEW j \in DOMAIN instrs, instrs[j].address = instrs[i].address PROVE j = i
        <3>1. ~ (i < j) /\ ~ (j < i)
            BY <1>6, <2>1
        <3> QED  BY <1>4, <3>1
    <2> QED  BY <1>4, <2>1, LastIndex
<1> QED  BY <1>3, <1>5, <1>7 DEF instrs

\* Pass 1 gives a label of a section an instruction that it stands in front of.
LEMMA TargetFound ==
    ASSUME text \in Texts, NEW s \in Nat, NEW stmts, Lists(stmts, text, StatementLines(s)),
           NEW l
    PROVE  LET instrs == InstructionsOf(stmts)
               labels == LabelToAddr(stmts)
               i      == TargetIndex(instrs, labels, l)
           IN  /\ l \in DOMAIN labels <=> Labelled(s, l) # {}
               /\ l \notin DOMAIN labels => i = Nowhere
               /\ l \in DOMAIN labels =>
                     i \in DOMAIN instrs /\ instrs[i].at \in Labelled(s, l)
<1> DEFINE instrs == InstructionsOf(stmts)
           labels == LabelToAddr(stmts)
           i == TargetIndex(instrs, labels, l)
<1>1. IsSequence(stmts) /\ \A k \in DOMAIN stmts : stmts[k].kind \in {"label", "insn"}
    BY SectionStatements DEF Lists
<1>2. /\ l \in DOMAIN labels <=>
            \E q, r \in DOMAIN stmts : Stands(stmts, q, r) /\ stmts[q].name = l
      /\ l \in DOMAIN labels =>
            \E q, r \in DOMAIN stmts : /\ Stands(stmts, q, r) /\ stmts[q].name = l
                                       /\ labels[l] = stmts[r].address
    BY <1>1, LabelsLinearised
<1>3. i = IF l \in DOMAIN labels THEN AddrToIdx(instrs, labels[l]) ELSE Nowhere
    BY DEF TargetIndex
<1>4. /\ Lists(instrs, text, InsnLines(s))
      /\ \A k \in DOMAIN instrs :
            /\ AddrToIdx(instrs, instrs[k].address) = k
            /\ instrs[k] = Kept(text, instrs[k].at)
    BY InstructionFound
<1> HIDE DEF instrs, labels, i
<1>5. l \in DOMAIN labels <=> Labelled(s, l) # {}
    BY <1>2, StandsInText, StandsInStatements
<1>6. CASE l \in DOMAIN labels
    <2>1. PICK q \in DOMAIN stmts, r \in DOMAIN stmts :
              /\ Stands(stmts, q, r) /\ stmts[q].name = l
              /\ labels[l] = stmts[r].address
        BY <1>2, <1>6
    <2>2. stmts[r].at \in Labelled(s, l)
        BY <2>1, StandsInText
    <2>3. stmts[r].at \in InsnLines(s) /\ stmts[r] = Kept(text, stmts[r].at)
        BY <2>2, SectionStatements DEF Labelled
    <2>4. PICK k \in DOMAIN instrs : instrs[k].at = stmts[r].at
        BY <1>4, <2>3 DEF Lists
    <2>5. instrs[k].address = labels[l]
        BY <1>4, <2>1, <2>3, <2>4
    <2>6. i = k
        BY <1>3, <1>4, <1>6, <2>5
    <2> QED  BY <1>5, <1>6, <2>2, <2>4, <2>6 DEF instrs, labels, i
<1>7. CASE l \notin DOMAIN labels
    BY <1>3, <1>5, <1>7 DEF instrs, labels, i
<1> QED  BY <1>6, <1>7

LEMMA SectionProgram ==
    ASSUME text \in Texts, NEW s \in Nat, NEW stmts, Lists(stmts, text, StatementLines(s))
    PROVE  IsFunctionOf(ProgramOf(stmts), s)
<1> DEFINE instrs == InstructionsOf(stmts)
           labels == LabelToAddr(stmts)
           Targets(n) == [k \in DOMAIN instrs[n].labels |->
                             TargetIndex(instrs, labels, instrs[n].labels[k])]
           prog == ProgramOf(stmts)
<1>1. prog = [n \in DOMAIN instrs |->
                 [insn |-> [instrs[n].insn EXCEPT !.targets = Targets(n)],
                  at   |-> instrs[n].at]]
    BY DEF ProgramOf
<1>2. /\ Lists(instrs, text, InsnLines(s))
      /\ \A k \in DOMAIN instrs :
            instrs[k].at \in InsnLines(s) /\ instrs[k] = Kept(text, instrs[k].at)
    BY InstructionFound
<1>3. \A l : LET i == TargetIndex(instrs, labels, l)
             IN  IF Labelled(s, l) = {} THEN i = Nowhere
                 ELSE i \in DOMAIN instrs /\ instrs[i].at \in Labelled(s, l)
    BY TargetFound
<1> HIDE DEF instrs, labels, prog, Targets
<1>4. DOMAIN prog = DOMAIN instrs /\ \A n \in DOMAIN prog : prog[n].at = instrs[n].at
    BY <1>1
<1>5. ASSUME NEW n \in DOMAIN prog
      PROVE  LET ls == text[prog[n].at].labels
                 targets == prog[n].insn.targets
             IN  /\ DOMAIN targets = DOMAIN ls
                 /\ \A k \in DOMAIN ls :
                       IF Labelled(s, ls[k]) = {} THEN targets[k] = Nowhere
                       ELSE /\ targets[k] \in DOMAIN prog
                            /\ prog[targets[k]].at \in Labelled(s, ls[k])
    <2> DEFINE a == instrs[n].at
    <2>1. instrs[n].insn = text[a].insn /\ instrs[n].labels = text[a].labels
        BY <1>2, <1>4, KeptFields
    <2>2. "targets" \in DOMAIN text[a].insn
        BY <1>2, <1>4, TextFacts DEF InsnLines, SectionLines
    <2>3. prog[n].insn.targets = Targets(n)
        BY <1>1, <1>4, <2>1, <2>2
    <2>4. /\ DOMAIN Targets(n) = DOMAIN text[a].labels
          /\ \A k \in DOMAIN text[a].labels :
                Targets(n)[k] = TargetIndex(instrs, labels, text[a].labels[k])
        BY <2>1 DEF Targets
    <2> QED  BY <1>3, <1>4, <2>3, <2>4
<1>6. {prog[n].at : n \in DOMAIN prog} = InsnLines(s)
    BY <1>2, <1>4 DEF Lists
<1>7. \A m, n \in DOMAIN prog : m < n => prog[m].at < prog[n].at
    BY <1>2, <1>4 DEF Lists
<1>8. IsSequence(prog)
    <2>1. Len(instrs) \in Nat /\ DOMAIN instrs = 1 .. Len(instrs)
        BY <1>2, SequenceDomain DEF Lists
    <2>2. prog = [n \in 1 .. Len(instrs) |-> prog[n]]
        BY <1>1, <2>1
    <2> QED  BY <2>1, <2>2, FunctionIsSequence
<1> QED  BY <1>5, <1>6, <1>7, <1>8 DEF IsFunctionOf, prog

LEMMA SectionDangles ==
    ASSUME text \in Texts, NEW s \in Nat, NEW stmts, Lists(stmts, text, StatementLines(s))
    PROVE  LabelsMissing(stmts) <=> Dangling(s)
<1> DEFINE labels == LabelToAddr(stmts)
<1>1. \A l : l \in DOMAIN labels <=> Labelled(s, l) # {}
    BY TargetFound
<1>2. ASSUME NEW n \in DOMAIN stmts, stmts[n].kind = "insn"
      PROVE  /\ stmts[n].at \in InsnLines(s)
             /\ stmts[n].insn = text[stmts[n].at].insn
             /\ stmts[n].labels = text[stmts[n].at].labels
    <2>1. /\ stmts[n].at \in StatementLines(s) /\ stmts[n] = Kept(text, stmts[n].at)
          /\ text[stmts[n].at].kind = "insn"
        BY <1>2, SectionStatements
    <2>2. stmts[n].at \in InsnLines(s)
        BY <2>1 DEF StatementLines, InsnLines
    <2> QED  BY <2>1, <2>2, KeptFields
<1>3. ASSUME NEW m \in InsnLines(s)
      PROVE  \E n \in DOMAIN stmts : stmts[n].at = m /\ stmts[n].kind = "insn"
    <2>1. m \in StatementLines(s) /\ text[m].kind = "insn"
        BY DEF InsnLines, StatementLines, IsStatement
    <2>2. PICK n \in DOMAIN stmts : stmts[n].at = m
        BY <2>1 DEF Lists
    <2> QED  BY <2>1, <2>2, SectionStatements
<1> HIDE DEF labels
<1>4. LabelsMissing(stmts) <=>
         \E n \in DOMAIN stmts :
            /\ stmts[n].kind = "insn"
            /\ IsBranch(stmts[n].insn) /\ ~ IsIndirect(stmts[n].insn)
            /\ \E k \in DOMAIN stmts[n].labels : stmts[n].labels[k] \notin DOMAIN labels
    BY DEF LabelsMissing, labels
<1>5. ASSUME LabelsMissing(stmts) PROVE Dangling(s)
    BY <1>1, <1>2, <1>4, <1>5 DEF Dangling
<1>6. ASSUME Dangling(s) PROVE LabelsMissing(stmts)
    <2>1. PICK m \in InsnLines(s) :
              /\ IsBranch(text[m].insn) /\ ~ IsIndirect(text[m].insn)
              /\ \E k \in DOMAIN text[m].labels : Labelled(s, text[m].labels[k]) = {}
        BY <1>6 DEF Dangling
    <2>2. PICK n \in DOMAIN stmts : stmts[n].at = m /\ stmts[n].kind = "insn"
        BY <1>3
    <2>3. stmts[n].insn = text[m].insn /\ stmts[n].labels = text[m].labels
        BY <1>2, <2>2
    <2> QED  BY <1>1, <1>4, <2>1, <2>2, <2>3
<1> QED  BY <1>5, <1>6

-----------------------------------------------------------------------------
(* The inductive invariant.                                                *)

KeptLines   == {n \in DOMAIN text : text[n].kind \in {"label", "marker", "insn", "unparsed"}}
ParsedLines == {n \in DOMAIN text : text[n].kind \in {"label", "marker", "insn"}}

\* The line of the item that a pass reads next, or the end of the text.
NextAt(seq, k) == IF k \in DOMAIN seq THEN seq[k].at ELSE Len(text) + 1

NothingBuilt ==
    current_stmts = <<>> /\ functions = <<>> /\ current_func = "unknown_kernel"

CleanInv ==
    phase = "clean" =>
        /\ line \in 1 .. Len(text) + 1
        /\ Lists(out, text, {n \in KeptLines : n < line})
        /\ statements = <<>> /\ NothingBuilt

ParseInv ==
    phase = "parse" =>
        /\ line \in 1 .. Len(out) + 1
        /\ Lists(out, text, KeptLines)
        /\ Lists(statements, text, {n \in ParsedLines : n < NextAt(out, line)})
        /\ NothingBuilt

\* The functions are those of the sections that start before a line.
FunctionsRead(end) ==
    LET read == {s \in Sections : s < end}
    IN  /\ DOMAIN functions = {SectionName(s) : s \in read}
        /\ \A f \in DOMAIN functions :
              \E s \in read : /\ SectionName(s) = f /\ IsFunctionOf(functions[f], s)
                              /\ \A r \in read : SectionName(r) = f => r <= s
        /\ \A s \in read : ~ Dangling(s)

\* current_stmts are the statements read so far of the section that starts last.
IsCurrent(cur) ==
    LET next == NextAt(statements, line)
    IN  /\ cur < next /\ \A m \in SectionStarts : m < next => m <= cur
        /\ current_func = SectionName(cur)
        /\ Lists(current_stmts, text, {n \in ParsedLines : cur < n /\ n < next})

BuildInv ==
    phase \in {"build", "done", "failed"} =>
        /\ line \in 1 .. Len(statements) + 1
        /\ Lists(out, text, KeptLines)
        /\ Lists(statements, text, ParsedLines)
        /\ \E cur \in SectionStarts : /\ IsCurrent(cur)
                                      /\ phase # "done" => FunctionsRead(cur)
        /\ phase = "done" => FunctionsRead(Len(text) + 1)
        /\ phase = "failed" => \E s \in Sections : Dangling(s)

Phases == {"clean", "parse", "build", "done", "failed"}

IInv == text \in Texts /\ phase \in Phases /\ CleanInv /\ ParseInv /\ BuildInv

-----------------------------------------------------------------------------
(* A step of a pass over a list.                                           *)

LEMMA ReadNext ==
    ASSUME text \in Texts, NEW S, S \subseteq DOMAIN text, NEW seq, Lists(seq, text, S),
           NEW k \in 1 .. Len(seq) + 1
    PROVE  /\ NextAt(seq, k) \in 1 .. Len(text) + 1
           /\ k \in DOMAIN seq <=> k # Len(seq) + 1
           /\ k = 1 => \A n \in S : ~ (n < NextAt(seq, k))
           /\ k \notin DOMAIN seq =>
                 NextAt(seq, k) = Len(text) + 1 /\ \A n \in S : n < NextAt(seq, k)
           /\ k \in DOMAIN seq =>
                 /\ NextAt(seq, k) \in S /\ seq[k] = Kept(text, NextAt(seq, k))
                 /\ NextAt(seq, k) < NextAt(seq, k + 1)
                 /\ k + 1 \in 1 .. Len(seq) + 1
                 /\ \A n \in S : n < NextAt(seq, k + 1) <=>
                                     n < NextAt(seq, k) \/ n = NextAt(seq, k)
<1>1. Len(text) \in Nat /\ DOMAIN text = 1 .. Len(text)
    BY TextFacts
<1>2. Len(seq) \in Nat /\ DOMAIN seq = 1 .. Len(seq)
    BY SequenceDomain DEF Lists
<1>3. \A p \in DOMAIN seq : seq[p].at \in S /\ seq[p].at \in 1 .. Len(text)
    BY <1>1 DEF Lists
<1>4. \A p \in DOMAIN seq : NextAt(seq, p) = seq[p].at
    BY DEF NextAt
<1>5. \A p : p \notin DOMAIN seq => NextAt(seq, p) = Len(text) + 1
    BY DEF NextAt
<1>6. NextAt(seq, k) \in 1 .. Len(text) + 1
    BY <1>1, <1>3, <1>4, <1>5
<1>7. k \in DOMAIN seq <=> k # Len(seq) + 1
    BY <1>2
<1>8. ASSUME k = 1, NEW n \in S PROVE ~ (n < NextAt(seq, k))
    <2>1. PICK p \in DOMAIN seq : seq[p].at = n
        BY DEF Lists
    <2>2. 1 \in DOMAIN seq /\ (p = 1 \/ 1 < p)
        BY <1>2
    <2>3. seq[1].at = n \/ seq[1].at < n
        BY <2>1, <2>2 DEF Lists
    <2> QED  BY <1>3, <1>4, <1>8, <2>1, <2>2, <2>3
<1>9. ASSUME k \notin DOMAIN seq
      PROVE  NextAt(seq, k) = Len(text) + 1 /\ \A n \in S : n < NextAt(seq, k)
    BY <1>1, <1>5, <1>9
<1>10. ASSUME k \in DOMAIN seq
       PROVE  /\ NextAt(seq, k) \in S /\ seq[k] = Kept(text, NextAt(seq, k))
              /\ NextAt(seq, k) < NextAt(seq, k + 1)
              /\ k + 1 \in 1 .. Len(seq) + 1
              /\ \A n \in S : n < NextAt(seq, k + 1) <=>
                                  n < NextAt(seq, k) \/ n = NextAt(seq, k)
    <2>1. NextAt(seq, k) \in S /\ seq[k] = Kept(text, NextAt(seq, k))
        BY <1>4, <1>10 DEF Lists
    <2>2. k + 1 \in 1 .. Len(seq) + 1
        BY <1>2, <1>10
    <2>3. NextAt(seq, k) < NextAt(seq, k + 1) /\ NextAt(seq, k + 1) \in 1 .. Len(text) + 1
        <3>1. CASE k + 1 \in DOMAIN seq
            <4>1. seq[k].at < seq[k + 1].at
                BY <1>2, <1>10, <3>1 DEF Lists
            <4> QED  BY <1>1, <1>3, <1>4, <1>10, <3>1, <4>1
        <3>2. CASE k + 1 \notin DOMAIN seq
            BY <1>1, <1>3, <1>4, <1>5, <1>10, <3>2
        <3> QED  BY <3>1, <3>2
    <2>4. ASSUME NEW n \in S
          PROVE  n < NextAt(seq, k + 1) <=> n < NextAt(seq, k) \/ n = NextAt(seq, k)
        <3>1. PICK p \in DOMAIN seq : seq[p].at = n
            BY DEF Lists
        <3>2. n \in 1 .. Len(text) /\ NextAt(seq, k) \in 1 .. Len(text)
            BY <1>3, <1>4, <1>10, <3>1
        <3>3. CASE p <= k
            <4>1. p < k \/ p = k
                BY <1>2, <3>3
            <4>2. n < NextAt(seq, k) \/ n = NextAt(seq, k)
                BY <1>4, <1>10, <3>1, <4>1 DEF Lists
            <4> QED  BY <2>3, <3>2, <4>2
        <3>4. CASE ~ (p <= k)
            <4>1. k + 1 \in DOMAIN seq /\ k < p /\ (k + 1 = p \/ k + 1 < p)
                BY <1>2, <3>4
            <4>2. NextAt(seq, k + 1) = n \/ NextAt(seq, k + 1) < n
                BY <1>4, <3>1, <4>1 DEF Lists
            <4>3. NextAt(seq, k) < n
                BY <1>4, <1>10, <3>1, <4>1 DEF Lists
            <4> QED  BY <2>3, <3>2, <4>2, <4>3
        <3> QED  BY <3>3, <3>4
    <2> QED  BY <2>1, <2>2, <2>3, <2>4
<1> QED  BY <1>6, <1>7, <1>8, <1>9, <1>10

\* Nothing else is written to the text.
LEMMA TextStays ==
    ASSUME text' = text
    PROVE  /\ KeptLines' = KeptLines /\ ParsedLines' = ParsedLines
           /\ SectionStarts' = SectionStarts /\ Sections' = Sections
           /\ \A s : /\ SectionName(s)' = SectionName(s)
                     /\ SectionLines(s)' = SectionLines(s)
                     /\ InsnLines(s)' = InsnLines(s)
                     /\ Dangling(s)' = Dangling(s)
                     /\ \A p : IsFunctionOf(p, s)' = IsFunctionOf(p, s)
<1>1. /\ KeptLines' = KeptLines /\ ParsedLines' = ParsedLines
      /\ SectionStarts' = SectionStarts
    BY DEF KeptLines, ParsedLines, SectionStarts
<1>2. \A s : /\ SectionName(s)' = SectionName(s)
             /\ SectionLines(s)' = SectionLines(s)
    BY <1>1 DEF SectionName, SectionLines
<1>3. Sections' = Sections /\ \A s : InsnLines(s)' = InsnLines(s)
    BY <1>1, <1>2 DEF Sections, InsnLines, IsStatement
<1>4. \A s, l : Labelled(s, l)' = Labelled(s, l)
    BY <1>2, <1>3 DEF Labelled
<1>5. \A s : Dangling(s)' = Dangling(s)
    BY <1>3, <1>4 DEF Dangling
<1>6. \A s, p : IsFunctionOf(p, s)' = IsFunctionOf(p, s)
    BY <1>2, <1>3 DEF IsFunctionOf, Labelled
<1> QED  BY <1>1, <1>2, <1>3, <1>5, <1>6

\* At a marker and at the end, current_stmts are the statements of a section.
LEMMA CurrentSection ==
    ASSUME text \in Texts, NEW cur \in SectionStarts, IsCurrent(cur),
           NEW next, next = NextAt(statements, line),
           next \in SectionStarts \cup {Len(text) + 1}
    PROVE  /\ Lists(current_stmts, text, StatementLines(cur))
           /\ cur \in Sections <=> current_stmts # <<>>
           /\ {s \in Sections : s < next} =
                 {s \in Sections : s < cur} \cup (Sections \cap {cur})
<1>1. Len(text) \in Nat /\ DOMAIN text = 1 .. Len(text)
    BY TextFacts
<1>2. SectionStarts \subseteq Nat /\ next \in Nat
    BY <1>1 DEF SectionStarts
<1>3. cur < next /\ \A m \in SectionStarts : m < next => m <= cur
    BY DEF IsCurrent
<1>4. \A n \in DOMAIN text : n \in SectionLines(cur) <=> cur < n /\ n < next
    <2> SUFFICES ASSUME NEW n \in DOMAIN text
                 PROVE  n \in SectionLines(cur) <=> cur < n /\ n < next
        OBVIOUS
    <2>1. ASSUME n \in SectionLines(cur), ~ (n < next) PROVE FALSE
        <3>1. next \in cur + 1 .. n /\ next # Len(text) + 1
            BY <1>1, <1>2, <1>3, <2>1
        <3> QED  BY <2>1, <3>1 DEF SectionLines
    <2>2. ASSUME cur < n, n < next, NEW m \in cur + 1 .. n PROVE m \notin SectionStarts
        <3>1. m < next /\ ~ (m <= cur)
            BY <1>1, <1>2, <2>2
        <3> QED  BY <1>3, <3>1
    <2> QED  BY <2>1, <2>2 DEF SectionLines
<1>5. StatementLines(cur) = {n \in ParsedLines : cur < n /\ n < next}
    <2>1. StatementLines(cur) \subseteq {n \in ParsedLines : cur < n /\ n < next}
        BY <1>4 DEF StatementLines, SectionLines, IsStatement, ParsedLines
    <2>2. ASSUME NEW n \in ParsedLines, cur < n, n < next PROVE n \in StatementLines(cur)
        <3>1. n \in DOMAIN text /\ n \in SectionLines(cur)
            BY <1>4, <2>2 DEF ParsedLines
        <3>2. n \notin SectionStarts
            BY <1>1, <1>2, <1>3, <2>2, <3>1
        <3> QED  BY <3>1, <3>2 DEF ParsedLines, SectionStarts, StatementLines, IsStatement
    <2> QED  BY <2>1, <2>2
<1>6. Lists(current_stmts, text, StatementLines(cur))
    BY <1>5 DEF IsCurrent
<1>7. cur \in Sections <=> StatementLines(cur) # {}
    BY DEF Sections, StatementLines
<1>8. StatementLines(cur) # {} <=> current_stmts # <<>>
    <2>1. /\ IsSequence(current_stmts)
          /\ DOMAIN current_stmts = 1 .. Len(current_stmts) /\ Len(current_stmts) \in Nat
          /\ current_stmts = <<>> <=> Len(current_stmts) = 0
        BY <1>6, SequenceDomain DEF Lists
    <2>2. ASSUME current_stmts = <<>> PROVE StatementLines(cur) = {}
        BY <1>6, <2>1, <2>2 DEF Lists
    <2>3. ASSUME current_stmts # <<>> PROVE StatementLines(cur) # {}
        <3>1. 1 \in DOMAIN current_stmts
            BY <2>1, <2>3
        <3> QED  BY <1>6, <3>1 DEF Lists
    <2> QED  BY <2>2, <2>3
<1>9. \A s \in Sections : s < next <=> s < cur \/ s = cur
    <2> SUFFICES ASSUME NEW s \in Sections PROVE s < next <=> s < cur \/ s = cur
        OBVIOUS
    <2>1. s \in SectionStarts /\ s \in Nat /\ cur \in Nat
        BY <1>2 DEF Sections
    <2> QED  BY <1>2, <1>3, <2>1
<1> QED  BY <1>6, <1>7, <1>8, <1>9

LEMMA FlushRead ==
    ASSUME text \in Texts, NEW cur \in SectionStarts, IsCurrent(cur), FunctionsRead(cur),
           NEW next, next = NextAt(statements, line),
           next \in SectionStarts \cup {Len(text) + 1},
           ~ LabelsMissing(current_stmts), functions' = Flush, text' = text
    PROVE  FunctionsRead(next)'
<1> DEFINE old  == {s \in Sections : s < cur}
           read == {s \in Sections : s < next}
           fns  == functions'
           name == SectionName(cur)
<1>1. /\ Lists(current_stmts, text, StatementLines(cur))
      /\ cur \in Sections <=> current_stmts # <<>>
      /\ read = old \cup (Sections \cap {cur})
    BY CurrentSection
<1>2. /\ DOMAIN functions = {SectionName(s) : s \in old}
      /\ \A f \in DOMAIN functions :
            \E s \in old : /\ SectionName(s) = f /\ IsFunctionOf(functions[f], s)
                           /\ \A r \in old : SectionName(r) = f => r <= s
      /\ \A s \in old : ~ Dangling(s)
    BY DEF FunctionsRead
<1>3. current_func = name
    BY DEF IsCurrent
<1>4. cur \in Nat
    BY TextFacts DEF SectionStarts
<1> HIDE DEF old, read, name
<1>5. /\ DOMAIN fns = {SectionName(s) : s \in read}
      /\ \A f \in DOMAIN fns :
            \E s \in read : /\ SectionName(s) = f /\ IsFunctionOf(fns[f], s)
                            /\ \A r \in read : SectionName(r) = f => r <= s
      /\ \A s \in read : ~ Dangling(s)
    <2>1. CASE current_stmts = <<>>
        <3>1. fns = functions /\ read = old
            BY <1>1, <2>1 DEF Flush
        <3> HIDE DEF fns
        <3> QED  BY <1>2, <3>1
    <2>2. CASE current_stmts # <<>>
        <3> DEFINE prog == ProgramOf(current_stmts)
        <3>1. fns = Updated(functions, [f \in {name} |-> prog])
            BY <1>3, <2>2 DEF Flush
        <3> HIDE DEF prog
        <3>2. /\ DOMAIN fns = DOMAIN functions \cup {name}
              /\ fns[name] = prog
              /\ \A f \in DOMAIN functions : f # name => fns[f] = functions[f]
            BY <3>1 DEF Updated
        <3> HIDE DEF fns
        <3>3. read = old \cup {cur} /\ cur \in Sections
            BY <1>1, <2>2
        <3>4. IsFunctionOf(prog, cur) /\ ~ Dangling(cur)
            BY <1>1, <1>4, SectionProgram, SectionDangles DEF prog
        <3>5. \A r \in read : r <= cur
            BY <1>4, <3>3, TextFacts DEF old, Sections, SectionStarts
        <3>6. ASSUME NEW f \in DOMAIN fns
              PROVE  \E s \in read : /\ SectionName(s) = f /\ IsFunctionOf(fns[f], s)
                                     /\ \A r \in read : SectionName(r) = f => r <= s
            <4>1. CASE f = name
                BY <3>2, <3>3, <3>4, <3>5, <4>1 DEF name
            <4>2. CASE f # name
                <5>1. f \in DOMAIN functions /\ fns[f] = functions[f]
                    BY <3>2, <4>2
                <5>2. PICK s \in old : /\ SectionName(s) = f /\ IsFunctionOf(functions[f], s)
                                       /\ \A r \in old : SectionName(r) = f => r <= s
                    BY <1>2, <5>1
                <5>3. \A r \in read : SectionName(r) = f => r \in old
                    BY <3>3, <4>2 DEF name
                <5> QED  BY <3>3, <5>1, <5>2, <5>3
            <4> QED  BY <4>1, <4>2
        <3>7. DOMAIN fns = {SectionName(s) : s \in read}
            BY <1>2, <3>2, <3>3 DEF name
        <3>8. \A s \in read : ~ Dangling(s)
            BY <1>2, <3>3, <3>4
        <3> QED  BY <3>6, <3>7, <3>8
    <2> QED  BY <2>1, <2>2
<1>6. Sections' = Sections /\ \A s : /\ SectionName(s)' = SectionName(s)
                                     /\ Dangling(s)' = Dangling(s)
                                     /\ \A p : IsFunctionOf(p, s)' = IsFunctionOf(p, s)
    BY TextStays
<1> QED  BY <1>5, <1>6 DEF FunctionsRead, read

-----------------------------------------------------------------------------
(* One step.                                                               *)

\* What holds in every phase and what the run's type invariant needs.
LEMMA LinesOfText ==
    ASSUME text \in Texts
    PROVE  /\ KeptLines \subseteq DOMAIN text /\ ParsedLines \subseteq KeptLines
           /\ ParsedLines \subseteq Nat /\ KeptLines \subseteq Nat
           /\ SectionStarts \ {0} \subseteq ParsedLines /\ 0 \in SectionStarts
           /\ SectionStarts \subseteq Nat
BY TextFacts DEF KeptLines, ParsedLines, SectionStarts

LEMMA InitInv == Init => IInv
<1> SUFFICES ASSUME Init PROVE IInv
    OBVIOUS
<1>1. text \in Texts /\ phase = "clean" /\ line = 1 /\ out = <<>> /\ statements = <<>>
    BY DEF Init
<1>2. Len(text) \in Nat /\ {n \in KeptLines : n < line} = {}
    BY <1>1, TextFacts, LinesOfText
<1>3. CleanInv
    BY <1>1, <1>2, NothingListed DEF Init, CleanInv, NothingBuilt
<1> QED  BY <1>1, <1>3 DEF IInv, ParseInv, BuildInv, Phases

LEMMA CleanLineInv == IInv /\ CleanLine => IInv'
<1> SUFFICES ASSUME IInv, CleanLine PROVE IInv'
    OBVIOUS
<1>1. /\ text \in Texts /\ text' = text /\ phase = "clean" /\ phase' = phase
      /\ line \in DOMAIN text /\ line' = line + 1 /\ out' = out \o Cleaned(text, line)
      /\ statements' = statements /\ current_func' = current_func
      /\ current_stmts' = current_stmts /\ functions' = functions
    BY DEF CleanLine, IInv
<1>2. /\ Lists(out, text, {n \in KeptLines : n < line})
      /\ statements = <<>> /\ NothingBuilt
    BY <1>1 DEF IInv, CleanInv
<1>3. KeptLines' = KeptLines
    BY <1>1, TextStays
<1>4. Len(text) \in Nat /\ line \in 1 .. Len(text) /\ KeptLines \subseteq Nat
    BY <1>1, TextFacts, LinesOfText
<1> DEFINE before == {n \in KeptLines : n < line}
           after  == {n \in KeptLines : n < line + 1}
<1>5. before \subseteq Nat /\ (\A m \in before : m < line) /\ line \in Nat
    <2>1. line \in Nat
        BY <1>4
    <2> QED  BY <1>4, <2>1
<1>6. Lists(out', text, after)
    <2>1. CASE line \in KeptLines
        <3>1. after = before \cup {line}
            <4>1. \A n \in KeptLines : n \in Nat /\ (n < line + 1 <=> n < line \/ n = line)
                BY <1>4, <1>5
            <4> QED  BY <2>1, <4>1
        <3>2. out' = out \o <<Kept(text, line)>>
            BY <1>1, <2>1 DEF Cleaned, KeptLines
        <3> HIDE DEF before, after
        <3> QED  BY <1>2, <1>5, <3>1, <3>2, AppendListed DEF before
    <2>2. CASE line \notin KeptLines
        <3>1. after = before
            <4>1. \A n \in KeptLines : n \in Nat /\ (n < line + 1 <=> n < line \/ n = line)
                BY <1>4, <1>5
            <4> QED  BY <2>2, <4>1
        <3>2. out' = out \o <<>>
            BY <1>1, <2>2 DEF Cleaned, KeptLines
        <3>3. out' = out
            BY <1>2, <3>2, EmptyAndSingle, ConcatItems DEF Lists
        <3> QED  BY <1>2, <3>1, <3>3
    <2> QED  BY <2>1, <2>2
<1>7. CleanInv'
    BY <1>1, <1>2, <1>3, <1>4, <1>6 DEF CleanInv, NothingBuilt
<1> QED  BY <1>1, <1>7 DEF IInv, ParseInv, BuildInv, Phases

LEMMA CleanDoneInv == IInv /\ CleanDone => IInv'
<1> SUFFICES ASSUME IInv, CleanDone PROVE IInv'
    OBVIOUS
<1>1. /\ text \in Texts /\ text' = text /\ phase = "clean" /\ phase' = "parse"
      /\ line \notin DOMAIN text /\ line' = 1 /\ out' = out
      /\ statements' = statements /\ current_func' = current_func
      /\ current_stmts' = current_stmts /\ functions' = functions
    BY DEF CleanDone, IInv
<1>2. /\ line \in 1 .. Len(text) + 1
      /\ Lists(out, text, {n \in KeptLines : n < line})
      /\ statements = <<>> /\ NothingBuilt
    BY <1>1 DEF IInv, CleanInv
<1>3. Len(text) \in Nat /\ DOMAIN text = 1 .. Len(text) /\ KeptLines \subseteq DOMAIN text
    BY <1>1, TextFacts, LinesOfText
<1>4. {n \in KeptLines : n < line} = KeptLines
    BY <1>1, <1>2, <1>3
<1>5. Lists(out, text, KeptLines)
    BY <1>2, <1>4
<1>6. Len(out) \in Nat /\ 1 \in 1 .. Len(out) + 1
    BY <1>5, SequenceDomain DEF Lists
<1>7. \A n \in KeptLines : ~ (n < NextAt(out, 1))
    BY <1>1, <1>3, <1>5, <1>6, ReadNext
<1>8. {n \in ParsedLines : n < NextAt(out, 1)} = {}
    BY <1>1, <1>7, LinesOfText
<1>9. KeptLines' = KeptLines /\ ParsedLines' = ParsedLines
    BY <1>1, TextStays
<1>10. NextAt(out, line)' = NextAt(out, 1)
    BY <1>1 DEF NextAt
<1>11. ParseInv'
    BY <1>1, <1>2, <1>5, <1>6, <1>8, <1>9, <1>10, NothingListed DEF ParseInv, NothingBuilt
<1> QED  BY <1>1, <1>11 DEF IInv, CleanInv, BuildInv, Phases

LEMMA ParseLineInv == IInv /\ ParseLine => IInv'
<1> SUFFICES ASSUME IInv, ParseLine PROVE IInv'
    OBVIOUS
<1>1. /\ text \in Texts /\ text' = text /\ phase = "parse" /\ phase' = phase
      /\ line \in DOMAIN out /\ line' = line + 1 /\ out' = out
      /\ statements' = statements \o ParsedLine(out[line]) /\ current_func' = current_func
      /\ current_stmts' = current_stmts /\ functions' = functions
    BY DEF ParseLine, IInv
<1> DEFINE a == NextAt(out, line)
           b == NextAt(out, line + 1)
           before == {n \in ParsedLines : n < a}
           after  == {n \in ParsedLines : n < b}
<1>2. /\ line \in 1 .. Len(out) + 1
      /\ Lists(out, text, KeptLines) /\ Lists(statements, text, before)
      /\ NothingBuilt
    BY <1>1 DEF IInv, ParseInv
<1>3. /\ KeptLines \subseteq DOMAIN text /\ ParsedLines \subseteq KeptLines
      /\ ParsedLines \subseteq Nat
    BY <1>1, LinesOfText
<1>4. /\ a \in KeptLines /\ out[line] = Kept(text, a)
      /\ line + 1 \in 1 .. Len(out) + 1
      /\ \A n \in KeptLines : n < b <=> n < a \/ n = a
    BY <1>1, <1>2, <1>3, ReadNext
<1>5. a \in Nat /\ before \subseteq Nat /\ \A m \in before : m < a
    BY <1>1, <1>3, <1>4, LinesOfText
<1>6. out[line].kind = "unparsed" <=> a \notin ParsedLines
    BY <1>4, KeptFields DEF KeptLines, ParsedLines
<1> HIDE DEF a, b
<1>7. Lists(statements', text, after)
    <2>1. CASE a \in ParsedLines
        <3>1. after = before \cup {a}
            BY <1>3, <1>4, <2>1
        <3>2. statements' = statements \o <<Kept(text, a)>>
            BY <1>1, <1>4, <1>6, <2>1 DEF ParsedLine
        <3> HIDE DEF before, after
        <3> QED  BY <1>2, <1>5, <3>1, <3>2, AppendListed
    <2>2. CASE a \notin ParsedLines
        <3>1. after = before
            BY <1>3, <1>4, <2>2
        <3>2. statements' = statements \o <<>>
            BY <1>1, <1>6, <2>2 DEF ParsedLine
        <3>3. statements' = statements
            BY <1>2, <3>2, EmptyAndSingle, ConcatItems DEF Lists
        <3> QED  BY <1>2, <3>1, <3>3
    <2> QED  BY <2>1, <2>2
<1>8. KeptLines' = KeptLines /\ ParsedLines' = ParsedLines
    BY <1>1, TextStays
<1>9. NextAt(out, line)' = b
    BY <1>1 DEF NextAt, b
<1>10. ParseInv'
    BY <1>1, <1>2, <1>4, <1>7, <1>8, <1>9 DEF ParseInv, NothingBuilt
<1> QED  BY <1>1, <1>10 DEF IInv, CleanInv, BuildInv, Phases

LEMMA ParseDoneInv == IInv /\ ParseDone => IInv'
<1> SUFFICES ASSUME IInv, ParseDone PROVE IInv'
    OBVIOUS
<1>1. /\ text \in Texts /\ text' = text /\ phase = "parse" /\ phase' = "build"
      /\ line \notin DOMAIN out /\ line' = 1 /\ out' = out
      /\ statements' = statements /\ current_func' = current_func
      /\ current_stmts' = current_stmts /\ functions' = functions
    BY DEF ParseDone, IInv
<1>2. /\ line \in 1 .. Len(out) + 1 /\ Lists(out, text, KeptLines)
      /\ Lists(statements, text, {n \in ParsedLines : n < NextAt(out, line)})
      /\ NothingBuilt
    BY <1>1 DEF IInv, ParseInv
<1>3. /\ KeptLines \subseteq DOMAIN text /\ ParsedLines \subseteq KeptLines
      /\ ParsedLines \subseteq Nat /\ ParsedLines \subseteq DOMAIN text
      /\ SectionStarts \ {0} \subseteq ParsedLines /\ 0 \in SectionStarts
      /\ SectionStarts \subseteq Nat
    BY <1>1, LinesOfText
<1>4. \A n \in KeptLines : n < NextAt(out, line)
    BY <1>1, <1>2, <1>3, ReadNext
<1>5. {n \in ParsedLines : n < NextAt(out, line)} = ParsedLines
    BY <1>3, <1>4
<1>6. Lists(statements, text, ParsedLines)
    BY <1>2, <1>5
<1>7. Len(statements) \in Nat /\ 1 \in 1 .. Len(statements) + 1
    BY <1>6, SequenceDomain DEF Lists
<1>8. /\ \A n \in ParsedLines : ~ (n < NextAt(statements, 1))
      /\ NextAt(statements, 1) \in 1 .. Len(text) + 1
    BY <1>1, <1>3, <1>6, <1>7, ReadNext
<1>9. 0 < NextAt(statements, 1)
    BY <1>1, <1>8, TextFacts
<1> DEFINE next == NextAt(statements, 1)
           current == {n \in ParsedLines : 0 < n /\ n < next}
<1>10. \A m \in SectionStarts : m < next => m <= 0
    <2> SUFFICES ASSUME NEW m \in SectionStarts, m < next, m # 0 PROVE FALSE
        BY <1>3
    <2> QED  BY <1>3, <1>8
<1>11. current = {}
    BY <1>8
<1>12. NextAt(statements, line)' = next
    BY <1>1 DEF NextAt
<1>13. /\ KeptLines' = KeptLines /\ ParsedLines' = ParsedLines
       /\ SectionStarts' = SectionStarts /\ Sections' = Sections
       /\ SectionName(0)' = "unknown_kernel"
    BY <1>1, TextStays DEF SectionName
<1> HIDE DEF next
<1>14. IsCurrent(0)'
    BY <1>1, <1>2, <1>9, <1>10, <1>11, <1>12, <1>13, NothingListed
    DEF IsCurrent, NothingBuilt, next
<1>15. FunctionsRead(0)'
    <2>1. {s \in Sections : s < 0} = {}
        <3>1. \A s \in Sections : s \in Nat
            BY <1>3 DEF Sections
        <3> QED  BY <3>1
    <2>2. functions' = <<>> /\ DOMAIN functions' = {}
        BY <1>1, <1>2, EmptyAndSingle DEF NothingBuilt
    <2> QED  BY <1>13, <2>1, <2>2 DEF FunctionsRead
<1>16. BuildInv'
    BY <1>1, <1>2, <1>3, <1>6, <1>7, <1>13, <1>14, <1>15 DEF BuildInv
<1> QED  BY <1>1, <1>16 DEF IInv, CleanInv, ParseInv, Phases

\* What a step of build_cfgs starts from.
LEMMA Building ==
    ASSUME IInv, phase = "build"
    PROVE  /\ text \in Texts /\ line \in 1 .. Len(statements) + 1
           /\ Lists(out, text, KeptLines) /\ Lists(statements, text, ParsedLines)
           /\ ParsedLines \subseteq DOMAIN text /\ ParsedLines \subseteq Nat
           /\ \E cur \in SectionStarts : IsCurrent(cur) /\ FunctionsRead(cur)
           /\ NextAt(statements, line) \in 1 .. Len(text) + 1
<1>1. /\ text \in Texts /\ line \in 1 .. Len(statements) + 1
      /\ Lists(out, text, KeptLines) /\ Lists(statements, text, ParsedLines)
      /\ \E cur \in SectionStarts : IsCurrent(cur) /\ FunctionsRead(cur)
    BY DEF IInv, BuildInv
<1>2. ParsedLines \subseteq DOMAIN text /\ ParsedLines \subseteq Nat
    BY <1>1, LinesOfText
<1>3. NextAt(statements, line) \in 1 .. Len(text) + 1
    BY <1>1, <1>2, ReadNext
<1> QED  BY <1>1, <1>2, <1>3

LEMMA BuildStatementInv == IInv /\ BuildStatement => IInv'
<1> SUFFICES ASSUME IInv, BuildStatement PROVE IInv'
    OBVIOUS
<1>1. /\ text' = text /\ phase = "build" /\ phase' = phase
      /\ line \in DOMAIN statements /\ statements[line].kind # "function"
      /\ current_stmts' = Append(current_stmts, statements[line])
      /\ line' = line + 1 /\ out' = out /\ statements' = statements
      /\ current_func' = current_func /\ functions' = functions
    BY DEF BuildStatement
<1>2. /\ text \in Texts /\ line \in 1 .. Len(statements) + 1
      /\ Lists(out, text, KeptLines) /\ Lists(statements, text, ParsedLines)
      /\ ParsedLines \subseteq DOMAIN text /\ ParsedLines \subseteq Nat
    BY <1>1, Building
<1>3. PICK cur \in SectionStarts : IsCurrent(cur) /\ FunctionsRead(cur)
    BY <1>1, Building
<1> DEFINE a == NextAt(statements, line)
           b == NextAt(statements, line + 1)
           before == {n \in ParsedLines : cur < n /\ n < a}
           after  == {n \in ParsedLines : cur < n /\ n < b}
<1>4. /\ a \in ParsedLines /\ statements[line] = Kept(text, a) /\ a < b
      /\ line + 1 \in 1 .. Len(statements) + 1
      /\ \A n \in ParsedLines : n < b <=> n < a \/ n = a
    BY <1>1, <1>2, ReadNext
<1>5. /\ cur < a /\ \A m \in SectionStarts : m < a => m <= cur
      /\ current_func = SectionName(cur) /\ Lists(current_stmts, text, before)
    BY <1>3 DEF IsCurrent
<1>6. a \notin SectionStarts
    <2>1. text[a].kind # "marker"
        BY <1>1, <1>4, KeptFields
    <2>2. a # 0
        BY <1>2, <1>4, TextFacts
    <2> QED  BY <2>1, <2>2 DEF SectionStarts
<1>7. /\ SectionStarts \ {0} \subseteq ParsedLines /\ 0 \in SectionStarts
      /\ SectionStarts \subseteq Nat /\ a \in Nat /\ cur \in Nat
    BY <1>2, <1>4, LinesOfText
<1>8. b \in 1 .. Len(text) + 1 /\ Len(text) \in Nat
    <2>1. PICK k \in 1 .. Len(statements) + 1 : k = line + 1
        BY <1>4
    <2>2. NextAt(statements, k) \in 1 .. Len(text) + 1
        BY <1>2, ReadNext
    <2> QED  BY <1>2, <2>1, <2>2, TextFacts
<1> HIDE DEF a, b
<1>9. Lists(current_stmts', text, after)
    <2>1. after = before \cup {a}
        BY <1>4, <1>5
    <2>2. before \subseteq Nat /\ \A m \in before : m < a
        BY <1>2
    <2> HIDE DEF before, after
    <2> QED  BY <1>1, <1>4, <1>5, <1>7, <2>1, <2>2, AppendListed
<1>10. cur < b
    BY <1>4, <1>5, <1>7, <1>8
<1>11. \A m \in SectionStarts : m < b => m <= cur
    <2> SUFFICES ASSUME NEW m \in SectionStarts, m < b PROVE m <= cur
        OBVIOUS
    <2>1. CASE m = 0
        BY <1>7, <2>1
    <2>2. CASE m # 0
        <3>1. m \in ParsedLines /\ m # a
            BY <1>6, <1>7, <2>2
        <3> QED  BY <1>4, <1>5, <3>1
    <2> QED  BY <2>1, <2>2
<1>12. NextAt(statements, line)' = b
    BY <1>1 DEF NextAt, b
<1>13. /\ KeptLines' = KeptLines /\ ParsedLines' = ParsedLines
       /\ SectionStarts' = SectionStarts /\ Sections' = Sections
       /\ \A s : /\ SectionName(s)' = SectionName(s) /\ Dangling(s)' = Dangling(s)
                 /\ \A p : IsFunctionOf(p, s)' = IsFunctionOf(p, s)
    BY <1>1, TextStays
<1>14. IsCurrent(cur)'
    BY <1>1, <1>5, <1>9, <1>10, <1>11, <1>12, <1>13 DEF IsCurrent
<1>15. FunctionsRead(cur)'
    BY <1>1, <1>3, <1>13 DEF FunctionsRead
<1>16. BuildInv'
    BY <1>1, <1>2, <1>4, <1>13, <1>14, <1>15 DEF BuildInv
<1> QED  BY <1>1, <1>2, <1>16 DEF IInv, CleanInv, ParseInv, Phases

LEMMA BuildMarkerInv == IInv /\ BuildMarker => IInv'
<1> SUFFICES ASSUME IInv, BuildMarker PROVE IInv'
    OBVIOUS
<1>1. /\ text' = text /\ phase = "build" /\ phase' = phase
      /\ line \in DOMAIN statements /\ statements[line].kind = "function"
      /\ ~ LabelsMissing(current_stmts) /\ functions' = Flush
      /\ current_func' = statements[line].name /\ current_stmts' = <<>>
      /\ line' = line + 1 /\ out' = out /\ statements' = statements
    BY DEF BuildMarker
<1>2. /\ text \in Texts /\ line \in 1 .. Len(statements) + 1
      /\ Lists(out, text, KeptLines) /\ Lists(statements, text, ParsedLines)
      /\ ParsedLines \subseteq DOMAIN text /\ ParsedLines \subseteq Nat
    BY <1>1, Building
<1>3. PICK cur \in SectionStarts : IsCurrent(cur) /\ FunctionsRead(cur)
    BY <1>1, Building
<1>4. PICK a : a = NextAt(statements, line)
    OBVIOUS
<1> DEFINE b == NextAt(statements, line + 1)
<1>5. /\ a \in ParsedLines /\ statements[line] = Kept(text, a) /\ a < b
      /\ line + 1 \in 1 .. Len(statements) + 1
      /\ \A n \in ParsedLines : n < b <=> n < a \/ n = a
    BY <1>1, <1>2, <1>4, ReadNext
<1>6. /\ text[a].kind = "marker" /\ statements[line].name = text[a].name
    <2>1. text[a].kind \in LineKind \ {"function"}
        BY <1>2, <1>5, TextFacts
    <2> QED  BY <1>1, <1>5, <2>1, KeptFields
<1>7. a \in SectionStarts /\ a # 0 /\ a \in Nat
    BY <1>2, <1>5, <1>6, TextFacts DEF SectionStarts
<1>8. FunctionsRead(a)'
    BY <1>1, <1>2, <1>3, <1>4, <1>7, FlushRead
<1>9. /\ SectionStarts \ {0} \subseteq ParsedLines /\ SectionStarts \subseteq Nat
    BY <1>2, LinesOfText
<1> HIDE DEF b
<1>10. \A m \in SectionStarts : m < b => m <= a
    <2> SUFFICES ASSUME NEW m \in SectionStarts, m < b, m # 0 PROVE m <= a
        BY <1>7
    <2>1. m \in ParsedLines /\ m \in Nat
        BY <1>9
    <2> QED  BY <1>5, <1>7, <2>1
<1>11. {n \in ParsedLines : a < n /\ n < b} = {}
    <2>1. \A n \in ParsedLines : n < b => ~ (a < n)
        BY <1>2, <1>5, <1>7
    <2> QED  BY <2>1
<1>12. NextAt(statements, line)' = b
    BY <1>1 DEF NextAt, b
<1>13. /\ KeptLines' = KeptLines /\ ParsedLines' = ParsedLines
       /\ SectionStarts' = SectionStarts /\ SectionName(a)' = SectionName(a)
    BY <1>1, TextStays
<1>14. SectionName(a) = text[a].name
    BY <1>7 DEF SectionName
<1>15. IsCurrent(a)'
    BY <1>1, <1>5, <1>6, <1>10, <1>11, <1>12, <1>13, <1>14, NothingListed DEF IsCurrent
<1>16. BuildInv'
    BY <1>1, <1>2, <1>5, <1>7, <1>8, <1>13, <1>15 DEF BuildInv
<1> QED  BY <1>1, <1>2, <1>16 DEF IInv, CleanInv, ParseInv, Phases

LEMMA BuildDoneInv == IInv /\ BuildDone => IInv'
<1> SUFFICES ASSUME IInv, BuildDone PROVE IInv'
    OBVIOUS
<1>1. /\ text' = text /\ phase = "build" /\ phase' = "done"
      /\ line \notin DOMAIN statements /\ ~ LabelsMissing(current_stmts)
      /\ functions' = Flush /\ line' = line /\ out' = out /\ statements' = statements
      /\ current_func' = current_func /\ current_stmts' = current_stmts
    BY DEF BuildDone
<1>2. /\ text \in Texts /\ line \in 1 .. Len(statements) + 1
      /\ Lists(out, text, KeptLines) /\ Lists(statements, text, ParsedLines)
      /\ ParsedLines \subseteq DOMAIN text /\ ParsedLines \subseteq Nat
    BY <1>1, Building
<1>3. PICK cur \in SectionStarts : IsCurrent(cur) /\ FunctionsRead(cur)
    BY <1>1, Building
<1>4. PICK end : end = NextAt(statements, line)
    OBVIOUS
<1>5. end = Len(text) + 1
    BY <1>1, <1>2, <1>4, ReadNext
<1>6. FunctionsRead(end)'
    BY <1>1, <1>2, <1>3, <1>4, <1>5, FlushRead
<1>7. FunctionsRead(Len(text) + 1)'
    BY <1>1, <1>5, <1>6 DEF FunctionsRead
<1>8. /\ KeptLines' = KeptLines /\ ParsedLines' = ParsedLines
      /\ SectionStarts' = SectionStarts /\ SectionName(cur)' = SectionName(cur)
    BY <1>1, TextStays
<1>9. NextAt(statements, line)' = NextAt(statements, line)
    BY <1>1 DEF NextAt
<1>10. IsCurrent(cur)'
    BY <1>1, <1>3, <1>8, <1>9 DEF IsCurrent
<1>11. BuildInv'
    BY <1>1, <1>2, <1>7, <1>8, <1>10 DEF BuildInv
<1> QED  BY <1>1, <1>2, <1>11 DEF IInv, CleanInv, ParseInv, Phases

LEMMA BuildFailsInv == IInv /\ BuildFails => IInv'
<1> SUFFICES ASSUME IInv, BuildFails PROVE IInv'
    OBVIOUS
<1>1. /\ text' = text /\ phase = "build" /\ phase' = "failed"
      /\ line \in DOMAIN statements => statements[line].kind = "function"
      /\ LabelsMissing(current_stmts)
      /\ functions' = functions /\ line' = line /\ out' = out /\ statements' = statements
      /\ current_func' = current_func /\ current_stmts' = current_stmts
    BY DEF BuildFails
<1>2. /\ text \in Texts /\ line \in 1 .. Len(statements) + 1
      /\ Lists(out, text, KeptLines) /\ Lists(statements, text, ParsedLines)
      /\ ParsedLines \subseteq DOMAIN text /\ ParsedLines \subseteq Nat
    BY <1>1, Building
<1>3. PICK cur \in SectionStarts : IsCurrent(cur) /\ FunctionsRead(cur)
    BY <1>1, Building
<1>4. PICK end : end = NextAt(statements, line)
    OBVIOUS
<1>5. end \in SectionStarts \cup {Len(text) + 1}
    <2>1. CASE line \in DOMAIN statements
        <3>1. end \in ParsedLines /\ statements[line] = Kept(text, end)
            BY <1>2, <1>4, <2>1, ReadNext
        <3>2. text[end].kind = "marker"
            <4>1. text[end].kind \in LineKind \ {"function"}
                BY <1>2, <3>1, TextFacts
            <4> QED  BY <1>1, <2>1, <3>1, <4>1, KeptFields
        <3> QED  BY <1>2, <3>1, <3>2 DEF SectionStarts
    <2>2. CASE line \notin DOMAIN statements
        BY <1>2, <1>4, <2>2, ReadNext
    <2> QED  BY <2>1, <2>2
<1>6. /\ Lists(current_stmts, text, StatementLines(cur))
      /\ cur \in Sections <=> current_stmts # <<>>
    BY <1>2, <1>3, <1>4, <1>5, CurrentSection
<1>7. cur \in Nat
    BY <1>2, LinesOfText
<1>8. Dangling(cur)
    BY <1>1, <1>2, <1>6, <1>7, SectionDangles
<1>9. cur \in Sections
    BY <1>8 DEF Dangling, InsnLines, Sections, IsStatement
<1>10. /\ KeptLines' = KeptLines /\ ParsedLines' = ParsedLines
       /\ SectionStarts' = SectionStarts /\ Sections' = Sections
       /\ \A s : /\ SectionName(s)' = SectionName(s) /\ Dangling(s)' = Dangling(s)
                 /\ \A p : IsFunctionOf(p, s)' = IsFunctionOf(p, s)
    BY <1>1, TextStays
<1>11. NextAt(statements, line)' = NextAt(statements, line)
    BY <1>1 DEF NextAt
<1>12. IsCurrent(cur)'
    BY <1>1, <1>3, <1>10, <1>11 DEF IsCurrent
<1>13. FunctionsRead(cur)'
    BY <1>1, <1>3, <1>10 DEF FunctionsRead
<1>14. \E s \in Sections' : Dangling(s)'
    BY <1>8, <1>9, <1>10
<1>15. BuildInv'
    BY <1>1, <1>2, <1>10, <1>12, <1>13, <1>14 DEF BuildInv
<1> QED  BY <1>1, <1>2, <1>15 DEF IInv, CleanInv, ParseInv, Phases

LEMMA StutterInv == IInv /\ UNCHANGED vars => IInv'
<1> SUFFICES ASSUME IInv, UNCHANGED vars PROVE IInv'
    OBVIOUS
<1>1. /\ text' = text /\ phase' = phase /\ line' = line /\ out' = out
      /\ statements' = statements /\ current_func' = current_func
      /\ current_stmts' = current_stmts /\ functions' = functions
    BY DEF vars
<1>2. /\ KeptLines' = KeptLines /\ ParsedLines' = ParsedLines
      /\ SectionStarts' = SectionStarts /\ Sections' = Sections
      /\ \A s : /\ SectionName(s)' = SectionName(s) /\ Dangling(s)' = Dangling(s)
                /\ \A p : IsFunctionOf(p, s)' = IsFunctionOf(p, s)
    BY <1>1, TextStays
<1>3. /\ NextAt(statements, line)' = NextAt(statements, line)
      /\ NextAt(out, line)' = NextAt(out, line)
    BY <1>1 DEF NextAt
<1>4. \A s : IsCurrent(s)' <=> IsCurrent(s)
    BY <1>1, <1>2, <1>3 DEF IsCurrent
<1>5. \A s : FunctionsRead(s)' <=> FunctionsRead(s)
    BY <1>1, <1>2 DEF FunctionsRead
<1>6. FunctionsRead(Len(text) + 1)' <=> FunctionsRead(Len(text) + 1)
    BY <1>1, <1>2 DEF FunctionsRead
<1>7. CleanInv' /\ ParseInv'
    BY <1>1, <1>2, <1>3 DEF IInv, CleanInv, ParseInv, NothingBuilt
<1>8. BuildInv'
    <2>1. (\E s \in Sections' : Dangling(s)') <=> \E s \in Sections : Dangling(s)
        BY <1>2
    <2>2. \A s \in SectionStarts : IsCurrent(s) => IsCurrent(s)'
        BY <1>4
    <2>3. \A s \in SectionStarts : FunctionsRead(s) => FunctionsRead(s)'
        BY <1>5
    <2> QED  BY <1>1, <1>2, <1>6, <2>1, <2>2, <2>3 DEF IInv, BuildInv
<1> QED  BY <1>1, <1>7, <1>8 DEF IInv

LEMMA NextInv == IInv /\ [Next]_vars => IInv'
BY CleanLineInv, CleanDoneInv, ParseLineInv, ParseDoneInv, BuildStatementInv,
   BuildMarkerInv, BuildDoneInv, BuildFailsInv, StutterInv DEF Next

LEMMA Invariance == Spec => []IInv
BY InitInv, NextInv, PTL DEF Spec

-----------------------------------------------------------------------------
(* The invariants that the run checks.                                     *)

LEMMA InvImpliesTypeOK == IInv => TypeOK
<1> SUFFICES ASSUME IInv PROVE TypeOK
    OBVIOUS
<1>1. text \in Texts /\ phase \in Phases
    BY DEF IInv
<1>2. /\ Len(text) \in Nat /\ DOMAIN text = 1 .. Len(text)
      /\ KeptLines \subseteq 1 .. Len(text) /\ ParsedLines \subseteq 1 .. Len(text)
      /\ SectionStarts \subseteq Nat
    BY <1>1, TextFacts, LinesOfText
<1>3. PICK S \in SUBSET KeptLines : Lists(out, text, S)
    <2>1. CASE phase = "clean"
        <3>1. {n \in KeptLines : n < line} \in SUBSET KeptLines
            OBVIOUS
        <3>2. Lists(out, text, {n \in KeptLines : n < line})
            BY <2>1 DEF IInv, CleanInv
        <3> QED  BY <3>1, <3>2
    <2>2. CASE phase # "clean"
        BY <1>1, <2>2 DEF IInv, ParseInv, BuildInv, Phases
    <2> QED  BY <2>1, <2>2
<1>4. PICK R \in SUBSET ParsedLines : Lists(statements, text, R)
    <2>1. CASE phase = "clean"
        <3>1. statements = <<>>
            BY <2>1 DEF IInv, CleanInv
        <3> QED  BY <3>1, NothingListed
    <2>2. CASE phase = "parse"
        <3>1. {n \in ParsedLines : n < NextAt(out, line)} \in SUBSET ParsedLines
            OBVIOUS
        <3>2. Lists(statements, text, {n \in ParsedLines : n < NextAt(out, line)})
            BY <2>2 DEF IInv, ParseInv
        <3> QED  BY <3>1, <3>2
    <2>3. CASE phase \in {"build", "done", "failed"}
        BY <2>3 DEF IInv, BuildInv
    <2> QED  BY <1>1, <2>1, <2>2, <2>3 DEF Phases
<1>5. Len(out) \in 0 .. Len(text) /\ Len(statements) \in 0 .. Len(text)
    <2>1. S \subseteq 1 .. Len(text) /\ R \subseteq 1 .. Len(text)
        BY <1>2
    <2> QED  BY <1>2, <1>3, <1>4, <2>1, FewListed
<1>6. line \in 1 .. Len(text) + 1
    <2>1. \/ line \in 1 .. Len(text) + 1 \/ line \in 1 .. Len(out) + 1
          \/ line \in 1 .. Len(statements) + 1
        BY <1>1 DEF IInv, CleanInv, ParseInv, BuildInv, Phases
    <2> QED  BY <1>2, <1>5, <2>1
<1>7. ASSUME NEW n \in DOMAIN out
      PROVE  out[n].kind \in LineKind \ {"marker", "unmatched", "other"}
    <2>1. out[n].at \in KeptLines /\ out[n] = Kept(text, out[n].at)
        BY <1>3 DEF Lists
    <2> QED  BY <2>1, KeptFields DEF KeptLines, LineKind
<1>8. ASSUME NEW n \in DOMAIN statements
      PROVE  statements[n].kind \in {"label", "function", "insn"}
    <2>1. statements[n].at \in ParsedLines /\ statements[n] = Kept(text, statements[n].at)
        BY <1>4 DEF Lists
    <2> QED  BY <2>1, KeptFields DEF ParsedLines
<1>9. ASSUME NEW n \in DOMAIN current_stmts
      PROVE  current_stmts[n].kind \in {"label", "insn"}
    <2>1. CASE phase \in {"clean", "parse"}
        <3>1. current_stmts = <<>>
            BY <2>1 DEF IInv, CleanInv, ParseInv, NothingBuilt
        <3> QED  BY <3>1, EmptyAndSingle
    <2>2. CASE phase \in {"build", "done", "failed"}
        <3>1. PICK cur \in SectionStarts : IsCurrent(cur)
            BY <2>2 DEF IInv, BuildInv
        <3> DEFINE m == current_stmts[n].at
        <3>2. /\ m \in ParsedLines /\ cur < m /\ m < NextAt(statements, line)
              /\ current_stmts[n] = Kept(text, m)
            BY <3>1 DEF IsCurrent, Lists
        <3>3. m \in SectionStarts => m <= cur
            BY <3>1, <3>2 DEF IsCurrent
        <3>4. m \notin SectionStarts
            <4>1. m \in Nat /\ cur \in Nat
                <5>1. ParsedLines \subseteq Nat
                    BY <1>1, LinesOfText
                <5> QED  BY <1>2, <3>1, <3>2, <5>1
            <4> HIDE DEF m
            <4> QED  BY <3>2, <3>3, <4>1
        <3> QED  BY <3>2, <3>4, KeptFields DEF ParsedLines, SectionStarts
    <2> QED  BY <1>1, <2>1, <2>2 DEF Phases
<1>10. ASSUME NEW f \in DOMAIN functions, NEW n \in DOMAIN functions[f]
       PROVE  ToSet(functions[f][n].insn.targets) \subseteq 0 .. Len(functions[f])
    <2>1. phase \in {"build", "done", "failed"}
        <3>1. phase \in {"clean", "parse"} => functions = <<>>
            BY DEF IInv, CleanInv, ParseInv, NothingBuilt
        <3> QED  BY <1>1, <3>1, EmptyAndSingle DEF Phases
    <2>2. \E end : FunctionsRead(end)
        BY <2>1 DEF IInv, BuildInv
    <2>3. PICK s \in Sections : IsFunctionOf(functions[f], s)
        BY <2>2 DEF FunctionsRead
    <2> DEFINE prog == functions[f]
               targets == prog[n].insn.targets
               labels == text[prog[n].at].labels
    <2>4. /\ IsSequence(prog) /\ DOMAIN targets = DOMAIN labels
          /\ \A k \in DOMAIN labels : targets[k] = Nowhere \/ targets[k] \in DOMAIN prog
        BY <2>3 DEF IsFunctionOf
    <2>5. Len(prog) \in Nat /\ DOMAIN prog = 1 .. Len(prog)
        BY <2>4, SequenceDomain
    <2> HIDE DEF targets, prog, labels
    <2>6. ASSUME NEW k \in DOMAIN targets PROVE targets[k] \in 0 .. Len(prog)
        BY <2>4, <2>5 DEF Nowhere
    <2>7. ToSet(targets) \subseteq 0 .. Len(prog)
        BY <2>6 DEF ToSet
    <2> QED  BY <2>7 DEF targets, prog
<1> QED  BY <1>1, <1>6, <1>7, <1>8, <1>9, <1>10 DEF TypeOK, Phases

\* The last section of a name is the one that the name stands for.
LEMMA DoneFunctions ==
    ASSUME IInv, phase = "done"
    PROVE  /\ DOMAIN functions = {SectionName(s) : s \in Sections}
           /\ \A f \in DOMAIN functions : IsFunctionOf(functions[f], SectionOf(f))
           /\ \A s \in Sections : ~ Dangling(s)
<1>1. text \in Texts /\ FunctionsRead(Len(text) + 1)
    BY DEF IInv, BuildInv
<1>2. Len(text) \in Nat /\ DOMAIN text = 1 .. Len(text) /\ SectionStarts \subseteq Nat
    BY <1>1, TextFacts, LinesOfText
<1>3. \A s \in Sections : s \in Nat /\ s < Len(text) + 1
    <2>1. \A s \in SectionStarts : s \in Nat /\ s < Len(text) + 1
        BY <1>2 DEF SectionStarts
    <2> QED  BY <2>1 DEF Sections
<1>4. {s \in Sections : s < Len(text) + 1} = Sections
    BY <1>3
<1>5. /\ DOMAIN functions = {SectionName(s) : s \in Sections}
      /\ \A f \in DOMAIN functions :
            \E s \in Sections : /\ SectionName(s) = f /\ IsFunctionOf(functions[f], s)
                                /\ \A r \in Sections : SectionName(r) = f => r <= s
      /\ \A s \in Sections : ~ Dangling(s)
    BY <1>1, <1>4 DEF FunctionsRead
<1>6. ASSUME NEW f \in DOMAIN functions PROVE IsFunctionOf(functions[f], SectionOf(f))
    <2>1. PICK s \in Sections : /\ SectionName(s) = f /\ IsFunctionOf(functions[f], s)
                                /\ \A r \in Sections : SectionName(r) = f => r <= s
        BY <1>5
    <2>2. /\ SectionOf(f) \in Sections /\ SectionName(SectionOf(f)) = f
          /\ \A r \in Sections : SectionName(r) = f => r <= SectionOf(f)
        BY <2>1 DEF SectionOf
    <2>3. SectionOf(f) <= s /\ s <= SectionOf(f)
        BY <2>1, <2>2
    <2>4. SectionOf(f) = s
        BY <1>3, <2>1, <2>2, <2>3
    <2> QED  BY <2>1, <2>4
<1> QED  BY <1>5, <1>6

LEMMA InvImpliesSections == IInv => FunctionsAreSections
BY DoneFunctions DEF FunctionsAreSections, IsFunctionOf

LEMMA InvImpliesLabels == IInv => BranchesFollowLabels
<1> SUFFICES ASSUME IInv, phase = "done", NEW f \in DOMAIN functions,
                    NEW n \in DOMAIN functions[f]
             PROVE  LET i == functions[f][n]
                        labels == text[i.at].labels
                        targets == i.insn.targets
                    IN  \A k \in DOMAIN labels :
                           IF Labelled(SectionOf(f), labels[k]) = {} THEN targets[k] = Nowhere
                           ELSE /\ targets[k] \in DOMAIN functions[f]
                                /\ functions[f][targets[k]].at
                                      \in Labelled(SectionOf(f), labels[k])
    BY DEF BranchesFollowLabels
<1>1. IsFunctionOf(functions[f], SectionOf(f))
    BY DoneFunctions
<1> QED  BY <1>1 DEF IsFunctionOf

LEMMA InvImpliesFailures == IInv => FailsForDanglingLabelsOnly
<1> SUFFICES ASSUME IInv PROVE FailsForDanglingLabelsOnly
    OBVIOUS
<1>1. phase = "done" => \A s \in Sections : ~ Dangling(s)
    BY DoneFunctions
<1>2. phase = "failed" => \E s \in Sections : Dangling(s)
    BY DEF IInv, BuildInv
<1> QED  BY <1>1, <1>2 DEF FailsForDanglingLabelsOnly

\* In every pass over every text, what is read next is at most one past the
\* input, statements are of the kinds that the next pass knows, and a branch
\* leads into its function or nowhere.
THEOREM TypeCorrect == Spec => []TypeOK
BY Invariance, InvImpliesTypeOK, PTL

\* build_cfgs gives every name the instructions of its last section, in the order
\* of the text, and nothing of another section.
THEOREM SectionsAreRead == Spec => []FunctionsAreSections
BY Invariance, InvImpliesSections, PTL

\* Through the addresses of pass 1, a label leads to an instruction that it stands
\* in front of in its own function, and to none if there is no such instruction.
THEOREM LabelsAreFollowed == Spec => []BranchesFollowLabels
BY Invariance, InvImpliesLabels, PTL

\* The KeyError of _resolve_target is raised exactly for a direct branch to a label
\* that no instruction of its function follows.
THEOREM OnlyDanglingLabelsFail == Spec => []FailsForDanglingLabelsOnly
BY Invariance, InvImpliesFailures, PTL
=============================================================================
