---------------------------- MODULE Slicer_proofs ----------------------------
(***************************************************************************)
(* Proofs about Slicer, for every set of graphs that satisfies             *)
(* GraphsAssumption; where frontiers matter, of graphs in which every      *)
(* block leads somewhere and every way on from a choice leads to an exit   *)
(* (ExitsReached).  The last part follows the earlier slicer stage by      *)
(* stage: it keeps the same instructions.                                  *)
(***************************************************************************)
EXTENDS SliceComparison, Lemmas

-----------------------------------------------------------------------------
(* ClosureOf returns the least set that edges do not lead out of.          *)

IsClosed(T, edges) == \A e \in edges : e[1] \in T => e[2] \in T

\* The equations of the sets that ClosureOf goes through.
AreReached(g, S, edges, n) ==
    /\ g = [k \in 0 .. n |-> g[k]]
    /\ \A k \in 0 .. n : g[k] = IF k = 0 THEN S ELSE Onward(g[k - 1], edges)

LEMMA ReachedExist ==
    ASSUME NEW S, NEW edges, NEW n \in Nat
    PROVE  \E g : AreReached(g, S, edges, n)
<1> DEFINE T == {m \in Nat : ~ \E g : AreReached(g, S, edges, m)}
<1> SUFFICES ASSUME T # {} PROVE FALSE
    OBVIOUS
<1>1. PICK m \in T : \A y \in T : m <= y
    <2>1. T \subseteq Nat
        OBVIOUS
    <2> HIDE DEF T
    <2> QED  BY <2>1, LeastNat
<1>2. m # 0
    <2>1. AreReached([k \in 0 .. 0 |-> S], S, edges, 0)
        BY DEF AreReached
    <2> QED  BY <2>1
<1>3. m \in Nat /\ m - 1 \in Nat /\ m - 1 \notin T
    BY <1>1, <1>2
<1>4. PICK s : AreReached(s, S, edges, m - 1)
    BY <1>3
<1> DEFINE r == [k \in 0 .. m |-> IF k = m THEN Onward(s[m - 1], edges) ELSE s[k]]
<1>5. AreReached(r, S, edges, m)
    <2>1. r = [k \in 0 .. m |-> r[k]]
        OBVIOUS
    <2>2. ASSUME NEW k \in 0 .. m
          PROVE  r[k] = IF k = 0 THEN S ELSE Onward(r[k - 1], edges)
        <3>1. CASE k = m
            <4>1. k - 1 \in 0 .. m /\ k - 1 # m /\ k # 0
                BY <1>2, <1>3, <3>1
            <4> QED  BY <3>1, <4>1
        <3>2. CASE k # m
            <4>1. k \in 0 .. m - 1 /\ (k # 0 => k - 1 \in 0 .. m /\ k - 1 # m)
                BY <1>3, <3>2
            <4>2. r[k] = s[k] /\ (k # 0 => r[k - 1] = s[k - 1])
                BY <3>2, <4>1
            <4> QED  BY <1>4, <4>1, <4>2 DEF AreReached
        <3> QED  BY <3>1, <3>2
    <2> HIDE DEF r
    <2> QED  BY <2>1, <2>2 DEF AreReached
<1> QED  BY <1>1, <1>3, <1>5

LEMMA ClosureIs ==
    ASSUME NEW S, NEW edges, Cardinality(edges) \in Nat
    PROVE  \E g : AreReached(g, S, edges, Cardinality(edges))
                    /\ ClosureOf(S, edges) = g[Cardinality(edges)]
<1> DEFINE n == Cardinality(edges)
           Step(g, k) == IF k = 0 THEN S ELSE Onward(g[k - 1], edges)
           Eq(g) == g = [k \in 0 .. n |-> Step(g, k)]
<1>1. PICK s : AreReached(s, S, edges, n)
    BY ReachedExist
<1>2. ClosureOf(S, edges) = (CHOOSE g : Eq(g))[n]
    BY DEF ClosureOf
<1> HIDE DEF n
<1>3. Eq(s)
    <2>1. \A k \in 0 .. n : s[k] = Step(s, k)
        BY <1>1 DEF AreReached
    <2>2. s = [k \in 0 .. n |-> s[k]]
        BY <1>1 DEF AreReached
    <2> HIDE DEF Step
    <2> QED  BY <2>1, <2>2
<1>4. PICK g : g = (CHOOSE h : Eq(h)) /\ Eq(g)
    <2> HIDE DEF Eq
    <2> QED  BY <1>3
<1>5. AreReached(g, S, edges, n)
    <2>1. g = [k \in 0 .. n |-> g[k]] /\ \A k \in 0 .. n : g[k] = Step(g, k)
        <3> HIDE DEF Step
        <3> QED  BY <1>4
    <2> QED  BY <2>1 DEF AreReached
<1>6. ClosureOf(S, edges) = g[n]
    <2> HIDE DEF Eq
    <2> QED  BY <1>2, <1>4
<1> QED  BY <1>5, <1>6 DEF n

\* A round that finds no edge with a new source finds no new node in the next
\* one; otherwise it uses up an edge, and there are no more rounds than edges.
LEMMA ClosureLeast ==
    ASSUME NEW S, NEW edges, IsFiniteSet(edges)
    PROVE  /\ S \subseteq ClosureOf(S, edges)
           /\ IsClosed(ClosureOf(S, edges), edges)
           /\ \A T : S \subseteq T /\ IsClosed(T, edges) => ClosureOf(S, edges) \subseteq T
<1> DEFINE n == Cardinality(edges)
<1>1. n \in Nat
    BY FS_CardinalityType
<1>2. PICK g : AreReached(g, S, edges, n) /\ ClosureOf(S, edges) = g[n]
    BY <1>1, ClosureIs
<1>3. /\ g[0] = S
      /\ \A k \in 0 .. n - 1 : g[k + 1] = Onward(g[k], edges)
    <2>1. 0 \in 0 .. n
        BY <1>1
    <2>2. \A k \in 0 .. n - 1 : k + 1 \in 0 .. n /\ k + 1 # 0 /\ (k + 1) - 1 = k
        BY <1>1
    <2> HIDE DEF n
    <2> QED  BY <1>2, <2>1, <2>2 DEF AreReached
<1> DEFINE From(k) == {e \in edges : e[1] \in g[k]}
           Far(k) == Cardinality(From(k)) >= k + 1
           Fine(k) == S \subseteq g[k] /\ (IsClosed(g[k], edges) \/ Far(k))
                        /\ \A T : S \subseteq T /\ IsClosed(T, edges) => g[k] \subseteq T
           Bad == {k \in 0 .. n : ~ Fine(k)}
<1>4. \A k : IsFiniteSet(From(k)) /\ Cardinality(From(k)) \in Nat
    <2> SUFFICES ASSUME NEW k PROVE IsFiniteSet(From(k)) /\ Cardinality(From(k)) \in Nat
        OBVIOUS
    <2>1. From(k) \in SUBSET edges
        OBVIOUS
    <2> HIDE DEF From
    <2> QED  BY <2>1, FS_Subset, FS_CardinalityType
<1>5. Fine(0)
    <2>1. CASE From(0) = {}
        BY <1>3, <2>1 DEF IsClosed
    <2>2. CASE From(0) # {}
        <3>1. Cardinality(From(0)) # 0
            <4> HIDE DEF From
            <4> QED  BY <1>4, <2>2, FS_EmptySet
        <3>2. Far(0)
            <4>1. Cardinality(From(0)) \in Nat
                BY <1>4
            <4> HIDE DEF From
            <4> QED  BY <3>1, <4>1
        <3> HIDE DEF Far
        <3> QED  BY <1>3, <3>2
    <2> QED  BY <2>1, <2>2
<1>6. ASSUME NEW k \in 0 .. n - 1, Fine(k) PROVE Fine(k + 1)
    <2>1. g[k + 1] = Onward(g[k], edges) /\ k \in Nat
        BY <1>1, <1>3
    <2>2. \A e \in From(k) : e[2] \in g[k + 1]
        BY <2>1 DEF Onward
    <2>3. g[k] \subseteq g[k + 1]
        BY <2>1 DEF Onward
    <2>4. IsClosed(g[k], edges) => g[k + 1] = g[k]
        BY <2>1 DEF Onward, IsClosed
    <2>5. \A T : S \subseteq T /\ IsClosed(T, edges) => g[k + 1] \subseteq T
        <3> SUFFICES ASSUME NEW T, S \subseteq T, IsClosed(T, edges) PROVE g[k + 1] \subseteq T
            OBVIOUS
        <3>1. g[k] \subseteq T
            <4> HIDE DEF Far
            <4> QED  BY <1>6
        <3> QED  BY <2>1, <3>1 DEF Onward, IsClosed
    <2>6. CASE IsClosed(g[k], edges)
        <3> HIDE DEF Far
        <3> QED  BY <1>6, <2>4, <2>5, <2>6
    <2>7. CASE ~ IsClosed(g[k], edges) /\ From(k + 1) = From(k)
        <3>1. IsClosed(g[k + 1], edges)
            BY <2>2, <2>7 DEF IsClosed
        <3> HIDE DEF Far, From
        <3> QED  BY <1>6, <2>3, <2>5, <3>1
    <2>8. CASE ~ IsClosed(g[k], edges) /\ From(k + 1) # From(k)
        <3>1. From(k) \in SUBSET From(k + 1)
            BY <2>3
        <3>2. Cardinality(From(k)) >= k + 1
            BY <1>6, <2>8
        <3>3. /\ IsFiniteSet(From(k + 1))
              /\ Cardinality(From(k)) \in Nat /\ Cardinality(From(k + 1)) \in Nat
            BY <1>4
        <3> HIDE DEF From
        <3>4. /\ Cardinality(From(k)) <= Cardinality(From(k + 1))
              /\ Cardinality(From(k)) # Cardinality(From(k + 1))
            BY <2>8, <3>1, <3>3, FS_Subset
        <3>5. Far(k + 1)
            BY <2>1, <3>2, <3>3, <3>4
        <3> HIDE DEF Far
        <3> QED  BY <1>6, <2>3, <2>5, <3>5
    <2> QED  BY <2>6, <2>7, <2>8
<1>7. Bad = {}
    <2> SUFFICES ASSUME Bad # {} PROVE FALSE
        OBVIOUS
    <2>1. PICK m \in Bad : \A y \in Bad : m <= y
        <3>1. Bad \subseteq Nat
            OBVIOUS
        <3> HIDE DEF Bad
        <3> QED  BY <3>1, LeastNat
    <2> HIDE DEF Fine, n
    <2>2. m # 0
        BY <1>5, <2>1
    <2>3. m - 1 \in 0 .. n - 1 /\ m - 1 \in 0 .. n /\ m - 1 \notin Bad /\ (m - 1) + 1 = m
        BY <1>1, <2>1, <2>2
    <2> QED  BY <1>6, <2>1, <2>3
<1>8. Fine(n)
    <2>1. n \in 0 .. n
        BY <1>1
    <2> HIDE DEF Fine, n
    <2> QED  BY <1>7, <2>1
<1>9. ~ Far(n)
    <2>1. From(n) \in SUBSET edges
        OBVIOUS
    <2>2. Cardinality(From(n)) <= n /\ Cardinality(From(n)) \in Nat
        <3> HIDE DEF From
        <3> QED  BY <1>4, <2>1, FS_Subset
    <2> HIDE DEF From, n
    <2> QED  BY <1>1, <2>2
<1> HIDE DEF Far, n
<1> QED  BY <1>2, <1>8, <1>9

-----------------------------------------------------------------------------
(* The positions of a graph.                                               *)

LEMMA BlockIs ==
    ASSUME NEW g, IsCfg(g), NEW k \in DOMAIN g
    PROVE  /\ k \in Nat /\ g[k].first \in Nat \ {0} /\ EndOf(g, k) \in Nat
           /\ g[k].first <= EndOf(g, k)
           /\ InstrPositions(g, k) = g[k].first .. EndOf(g, k)
           /\ k = 0 => g[k].first = 1
           /\ k # 0 => k - 1 \in DOMAIN g /\ g[k].first = EndOf(g, k - 1) + 1
           /\ IsSequence(g[k].instructions) /\ g[k].instructions # <<>>
           /\ IsSequence(g[k].succs) /\ ToSet(g[k].succs) \subseteq DOMAIN g
<1>1. \A j \in DOMAIN g :
          /\ j \in Nat /\ (j # 0 => j - 1 \in DOMAIN g)
          /\ g[j].first \in Nat /\ Len(g[j].instructions) \in Nat \ {0}
          /\ IsSequence(g[j].instructions) /\ g[j].instructions # <<>>
          /\ IsSequence(g[j].succs) /\ ToSet(g[j].succs) \subseteq DOMAIN g
    <2> SUFFICES ASSUME NEW j \in DOMAIN g
                 PROVE  /\ j \in Nat /\ (j # 0 => j - 1 \in DOMAIN g)
                        /\ g[j].first \in Nat /\ Len(g[j].instructions) \in Nat \ {0}
                        /\ IsSequence(g[j].instructions) /\ g[j].instructions # <<>>
                        /\ IsSequence(g[j].succs) /\ ToSet(g[j].succs) \subseteq DOMAIN g
        OBVIOUS
    <2>1. j \in Nat /\ (j # 0 => j - 1 \in DOMAIN g)
        BY DEF IsCfg
    <2>2. /\ g[j].instructions \in Seq(Range(g[j].instructions))
          /\ g[j].instructions # <<>> /\ g[j].first \in Nat
          /\ g[j].succs \in Seq(DOMAIN g)
        BY DEF IsCfg
    <2>3. IsSequence(g[j].instructions) /\ Len(g[j].instructions) \in Nat \ {0}
        BY <2>2, SequenceIs, SequenceDomain
    <2>4. IsSequence(g[j].succs) /\ Items(g[j].succs) \subseteq DOMAIN g
        BY <2>2, SequenceIs
    <2>5. ToSet(g[j].succs) = Items(g[j].succs)
        BY DEF ToSet, Items
    <2> QED  BY <2>1, <2>2, <2>3, <2>4, <2>5
<1>2. g[k].first = IF k = 0 THEN 1 ELSE g[k - 1].first + Len(g[k - 1].instructions)
    BY DEF IsCfg
<1>3. \A x \in Nat, n \in Nat \ {0} :
          x + n - 1 \in Nat /\ x <= x + n - 1 /\ x + n # 0 /\ x + n = (x + n - 1) + 1
    OBVIOUS
<1>4. EndOf(g, k) \in Nat /\ g[k].first <= EndOf(g, k)
    BY <1>1, <1>3 DEF EndOf
<1>5. k = 0 => g[k].first = 1
    BY <1>2
<1>6. k # 0 => /\ k - 1 \in DOMAIN g /\ g[k].first = EndOf(g, k - 1) + 1
               /\ g[k].first # 0
    BY <1>1, <1>2, <1>3 DEF EndOf
<1>7. InstrPositions(g, k) = g[k].first .. EndOf(g, k)
    BY DEF EndOf, InstrPositions
<1> QED  BY <1>1, <1>4, <1>5, <1>6, <1>7

LEMMA BlocksFollow ==
    ASSUME NEW g, IsCfg(g), NEW j \in DOMAIN g, NEW k \in DOMAIN g, j < k
    PROVE  EndOf(g, j) < g[k].first
<1> DEFINE T == {i \in DOMAIN g : j < i /\ ~ (EndOf(g, j) < g[i].first)}
<1> SUFFICES ASSUME T # {} PROVE FALSE
    OBVIOUS
<1>1. PICK i \in T : \A y \in T : i <= y
    <2>1. T \subseteq Nat
        BY BlockIs
    <2> HIDE DEF T
    <2> QED  BY <2>1, LeastNat
<1>2. /\ i \in Nat /\ j \in Nat /\ j < i /\ i # 0 /\ i - 1 \in DOMAIN g
      /\ g[i].first = EndOf(g, i - 1) + 1
      /\ EndOf(g, i - 1) \in Nat /\ EndOf(g, j) \in Nat /\ g[i - 1].first <= EndOf(g, i - 1)
      /\ g[i - 1].first \in Nat
    <2>1. i \in DOMAIN g /\ i \in Nat /\ j \in Nat /\ j < i
        BY <1>1, BlockIs
    <2>2. i # 0
        BY <2>1
    <2>3. i - 1 \in DOMAIN g
        BY <2>1, <2>2, BlockIs
    <2> QED  BY <2>1, <2>2, <2>3, BlockIs
<1>3. CASE j = i - 1
    BY <1>1, <1>2, <1>3
<1>4. CASE j # i - 1
    <2>1. j < i - 1 /\ ~ (i <= i - 1)
        BY <1>2, <1>4
    <2>2. i - 1 \notin T
        BY <1>1, <2>1
    <2>3. EndOf(g, j) < g[i - 1].first
        BY <1>2, <2>1, <2>2
    <2>4. EndOf(g, j) < g[i].first
        BY <1>2, <2>3
    <2> QED  BY <1>1, <2>4
<1> QED  BY <1>3, <1>4

\* Every position has one block, and the blocks leave no position out.
LEMMA Layout ==
    ASSUME NEW g, IsCfg(g)
    PROVE  /\ IsFiniteSet(DOMAIN g)
           /\ \A j, k \in DOMAIN g : InstrPositions(g, j) \cap InstrPositions(g, k) # {} => j = k
           /\ \E n \in Nat : AllPositions(g) = 1 .. n
<1> DEFINE m == Cardinality(DOMAIN g)
<1>1. m \in Nat /\ DOMAIN g = 0 .. m - 1
    BY DEF IsCfg
<1>2. IsFiniteSet(DOMAIN g)
    <2> HIDE DEF m
    <2> QED  BY <1>1, FS_Interval
<1> HIDE DEF m
<1>3. ASSUME NEW j \in DOMAIN g, NEW k \in DOMAIN g, NEW p,
             p \in InstrPositions(g, j), p \in InstrPositions(g, k)
      PROVE  j = k
    <2>1. \A a, b \in DOMAIN g : p \in InstrPositions(g, a) /\ p \in InstrPositions(g, b)
                                    => ~ (a < b)
        <3> SUFFICES ASSUME NEW a \in DOMAIN g, NEW b \in DOMAIN g, a < b,
                            p \in InstrPositions(g, a), p \in InstrPositions(g, b)
                     PROVE  FALSE
            OBVIOUS
        <3>1. /\ p <= EndOf(g, a) /\ g[b].first <= p /\ p \in Int
              /\ EndOf(g, a) \in Nat /\ g[b].first \in Nat
            BY BlockIs
        <3> QED  BY <3>1, BlocksFollow
    <2>2. j \in Nat /\ k \in Nat
        BY BlockIs
    <2> QED  BY <1>3, <2>1, <2>2
<1>4. \E n \in Nat : AllPositions(g) = 1 .. n
    <2>1. CASE m = 0
        <3>1. DOMAIN g = {}
            BY <1>1, <2>1
        <3>2. AllPositions(g) = {} /\ 1 .. 0 = {}
            BY <3>1 DEF AllPositions
        <3> QED  BY <3>2
    <2>2. CASE m # 0
        <3> DEFINE n == EndOf(g, m - 1)
        <3>1. 0 \in DOMAIN g /\ m - 1 \in DOMAIN g
            BY <1>1, <2>2
        <3>2. n \in Nat
            BY <3>1, BlockIs
        <3>3. ASSUME NEW k \in DOMAIN g PROVE EndOf(g, k) <= n
            <4>1. k = m - 1 \/ k < m - 1
                BY <1>1
            <4>2. CASE k < m - 1
                <5>1. /\ EndOf(g, k) < g[m - 1].first /\ g[m - 1].first <= n
                      /\ EndOf(g, k) \in Nat /\ g[m - 1].first \in Nat
                    BY <3>1, <4>2, BlockIs, BlocksFollow
                <5> QED  BY <3>2, <5>1
            <4> QED  BY <3>2, <4>1, <4>2
        <3>4. ASSUME NEW k \in DOMAIN g, NEW p \in InstrPositions(g, k) PROVE p \in 1 .. n
            <4>1. p \in g[k].first .. EndOf(g, k) /\ g[k].first \in Nat \ {0}
                  /\ EndOf(g, k) \in Nat
                BY BlockIs
            <4> HIDE DEF n
            <4> QED  BY <3>2, <3>3, <4>1
        <3>5. ASSUME NEW p \in 1 .. n PROVE \E k \in DOMAIN g : p \in InstrPositions(g, k)
            <4> DEFINE S == {k \in DOMAIN g : g[k].first <= p}
            <4>1. S \subseteq 0 .. m - 1 /\ S # {} /\ m - 1 \in Nat
                <5>1. g[0].first = 1 /\ 1 <= p
                    BY <3>1, <3>2, BlockIs
                <5> QED  BY <1>1, <2>2, <3>1, <5>1
            <4>2. Max(S) \in S /\ \A y \in S : y <= Max(S)
                <5> HIDE DEF S
                <5> QED  BY <4>1, MaxMember
            <4>3. PICK k \in S : \A y \in S : y <= k
                BY <4>2
            <4>4. /\ k \in DOMAIN g /\ k \in Nat /\ g[k].first <= p
                  /\ EndOf(g, k) \in Nat /\ g[k].first \in Nat
                  /\ InstrPositions(g, k) = g[k].first .. EndOf(g, k)
                BY BlockIs
            <4>5. p <= EndOf(g, k)
                <5>1. CASE k = m - 1
                    BY <3>2, <5>1
                <5>2. CASE k # m - 1
                    <6>1. k + 1 \in DOMAIN g /\ k + 1 # 0 /\ (k + 1) - 1 = k /\ ~ (k + 1 <= k)
                        BY <1>1, <4>4, <5>2
                    <6>2. k + 1 \notin S
                        BY <4>3, <6>1
                    <6>3. g[k + 1].first = EndOf(g, k) + 1
                        BY <6>1, BlockIs
                    <6>4. ~ (EndOf(g, k) + 1 <= p)
                        BY <6>1, <6>2, <6>3
                    <6> HIDE DEF n
                    <6> QED  BY <3>2, <4>4, <6>4
                <5> QED  BY <5>1, <5>2
            <4> HIDE DEF S, n
            <4>6. p \in g[k].first .. EndOf(g, k)
                BY <3>2, <4>4, <4>5
            <4> QED  BY <4>4, <4>6
        <3>6. AllPositions(g) = 1 .. n
            <4> HIDE DEF n
            <4> QED  BY <3>4, <3>5 DEF AllPositions
        <3> QED  BY <3>2, <3>6
    <2> QED  BY <2>1, <2>2
<1> QED  BY <1>2, <1>3, <1>4

\* What the slicer gets is such a graph.
THEOREM BuildCfgIsCfg ==
    ASSUME NEW f, IsProgram(f)
    PROVE  IsCfg(BuildCfg(f))
<1> DEFINE g == BuildCfg(f)
<1>1. AreBlocks(g, f, Leaders(f)) /\ AreWired(g)
    BY BuildCfgWired DEF WiredUpTo
<1>2. /\ Leaders(f) \subseteq 1 .. Len(f) /\ 1 \in Leaders(f)
    BY LeadersAre
<1>3. Len(f) \in Nat
    BY SequenceDomain DEF IsProgram
<1> HIDE DEF g
<1>4. Cardinality(DOMAIN g) \in Nat \ {0} /\ DOMAIN g = 0 .. Cardinality(DOMAIN g) - 1
    BY <1>1, BlockCount
<1>5. ASSUME NEW k \in DOMAIN g
      PROVE  /\ g[k].first \in 1 .. Len(f)
             /\ IsSequence(g[k].instructions) /\ g[k].instructions # <<>>
             /\ Len(g[k].instructions) \in Nat \ {0}
             /\ k + 1 \in DOMAIN g => g[k + 1].first = g[k].first + Len(g[k].instructions)
    <2>1. /\ g[k].first \in Leaders(f)
          /\ IsSequence(g[k].instructions) /\ g[k].instructions # <<>>
          /\ k + 1 \in DOMAIN g => g[k + 1].first = EndOf(g, k) + 1
        BY <1>1 DEF AreBlocks
    <2>2. Len(g[k].instructions) \in Nat \ {0}
        BY <2>1, SequenceDomain
    <2> QED  BY <1>2, <1>3, <2>1, <2>2 DEF EndOf
<1>6. g[0].first = 1
    <2>1. PICK k \in DOMAIN g : g[k].first = 1
        BY <1>1, <1>2 DEF AreBlocks
    <2>2. CASE k # 0
        <3>1. k - 1 \in DOMAIN g /\ (k - 1) + 1 = k
            BY <1>4, <2>2
        <3>2. g[k].first = g[k - 1].first + Len(g[k - 1].instructions)
            BY <1>5, <3>1
        <3>3. g[k - 1].first \in 1 .. Len(f) /\ Len(g[k - 1].instructions) \in Nat \ {0}
            BY <1>5, <3>1
        <3> QED  BY <1>3, <2>1, <3>2, <3>3
    <2> QED  BY <2>1, <2>2
<1>7. ASSUME NEW k \in DOMAIN g
      PROVE  /\ g[k].first \in Nat
             /\ g[k].first = IF k = 0 THEN 1
                             ELSE g[k - 1].first + Len(g[k - 1].instructions)
             /\ g[k].instructions \in Seq(Range(g[k].instructions))
             /\ g[k].instructions # <<>>
             /\ g[k].succs \in Seq(DOMAIN g)
             /\ g[k].preds = {j \in DOMAIN g : k \in ToSet(g[j].succs)}
    <2>1. /\ IsSequence(g[k].succs) /\ Items(g[k].succs) \subseteq DOMAIN g
          /\ g[k].preds = {j \in DOMAIN g : k \in Items(g[j].succs)}
        BY <1>1 DEF AreWired
    <2>2. g[k].succs \in Seq(DOMAIN g)
        BY <2>1, SeqMonotonic DEF IsSequence
    <2>3. \A s : ToSet(s) = Items(s) /\ Range(s) = Items(s)
        BY DEF ToSet, Items, Range
    <2>4. k # 0 => k - 1 \in DOMAIN g /\ (k - 1) + 1 = k
        BY <1>4
    <2>5. g[k].first = IF k = 0 THEN 1 ELSE g[k - 1].first + Len(g[k - 1].instructions)
        BY <1>5, <1>6, <2>4
    <2>6. g[k].instructions \in Seq(Range(g[k].instructions)) /\ g[k].instructions # <<>>
        BY <1>5, <2>3 DEF IsSequence
    <2>7. g[k].first \in Nat
        BY <1>3, <1>5
    <2> QED  BY <2>1, <2>2, <2>3, <2>5, <2>6, <2>7
<1> QED  BY <1>4, <1>7 DEF IsCfg, g

-----------------------------------------------------------------------------
(* The inductive invariant.                                                *)

Shape ==
    /\ cfg \in Graphs
    /\ Positions = AllPositions(cfg)
    /\ genMap \in [Positions -> SUBSET AllDefs]
    /\ \A d \in AllDefs : d[2] \in Positions

\* No visit of an instruction can take definitions away again.
PostFixpoint == \A p \in Positions : rd[p] \subseteq Transfer(p)

\* Before the walk begins, everything waits.
NothingFollowed == phase = "reach" => worklist = important

IInv == Shape /\ TypeOK /\ PostFixpoint /\ NothingFollowed /\ WorklistCoversGaps

-----------------------------------------------------------------------------
LEMMA BlockShape ==
    ASSUME Shape, NEW k \in DOMAIN cfg
    PROVE  /\ cfg[k].first \in Nat
           /\ cfg[k].preds \subseteq DOMAIN cfg
           /\ Len(cfg[k].instructions) \in Nat \ {0}
<1>1. IsCfg(cfg)
    BY GraphsAssumption DEF Shape
<1>2. /\ cfg[k].instructions \in Seq(Range(cfg[k].instructions))
      /\ cfg[k].instructions # <<>>
      /\ cfg[k].first \in Nat
      /\ cfg[k].preds \subseteq DOMAIN cfg
    BY <1>1 DEF IsCfg
<1> QED  BY <1>2

LEMMA LastIsPosition ==
    ASSUME Shape, NEW k \in DOMAIN cfg
    PROVE  LastOf(k) \in Positions
<1>1. LastOf(k) \in InstrPositions(cfg, k)
    BY BlockShape DEF LastOf, InstrPositions
<1> QED  BY <1>1 DEF Shape, AllPositions

\* The definitions that enter an instruction come from instructions.
LEMMA SourcesArePositions ==
    ASSUME Shape, NEW p \in Positions
    PROVE  /\ \A k \in cfg[BlockOf(p)].preds : LastOf(k) \in Positions
           /\ p # cfg[BlockOf(p)].first => p - 1 \in Positions
<1>1. /\ BlockOf(p) \in DOMAIN cfg
      /\ p \in InstrPositions(cfg, BlockOf(p))
    BY DEF Shape, AllPositions, BlockOf
<1>2. \A k \in cfg[BlockOf(p)].preds : LastOf(k) \in Positions
    BY <1>1, BlockShape, LastIsPosition
<1>3. ASSUME p # cfg[BlockOf(p)].first
      PROVE  p - 1 \in Positions
    <2>1. p - 1 \in InstrPositions(cfg, BlockOf(p))
        BY <1>1, <1>3, BlockShape DEF InstrPositions
    <2> QED  BY <1>1, <2>1 DEF Shape, AllPositions
<1> QED  BY <1>2, <1>3

LEMMA TransferType ==
    ASSUME Shape, TypeOK, NEW p \in Positions
    PROVE  Incoming(p) \in SUBSET AllDefs /\ Transfer(p) \in SUBSET AllDefs
<1>1. Incoming(p) \in SUBSET AllDefs
    BY SourcesArePositions DEF Incoming, TypeOK
<1>2. genMap[p] \in SUBSET AllDefs
    BY DEF Shape
<1> QED  BY <1>1, <1>2 DEF Transfer

\* With more definitions leaving the predecessors, no fewer leave the instruction.
LEMMA TransferMonotone ==
    ASSUME Shape, UNCHANGED inputs, \A q \in Positions : rd[q] \subseteq rd'[q],
           NEW p \in Positions
    PROVE  Transfer(p) \subseteq Transfer(p)'
<1>1. /\ BlockOf(p)' = BlockOf(p)
      /\ cfg' = cfg /\ genMap' = genMap /\ killMap' = killMap
    BY DEF inputs, BlockOf
<1>2. \A k : LastOf(k)' = LastOf(k)
    BY DEF inputs, LastOf
<1>3. Incoming(p) \subseteq Incoming(p)'
    BY <1>1, <1>2, SourcesArePositions DEF Incoming
<1> QED  BY <1>1, <1>3 DEF Transfer

-----------------------------------------------------------------------------
\* What every step that leaves the reaching definitions alone keeps.
LEMMA ReachingUnchanged ==
    ASSUME IInv, UNCHANGED inputs, UNCHANGED <<rd, rdIn>>
    PROVE  /\ Shape'
           /\ PostFixpoint'
           /\ killMap' \in [Positions' -> SUBSET AllDefs']
           /\ rd' \in [Positions' -> SUBSET AllDefs']
           /\ rdIn' \in [Positions' -> SUBSET AllDefs']
           /\ \A p : DefinitionsRead(p)' = DefinitionsRead(p)
<1>1. /\ Positions' = Positions /\ AllDefs' = AllDefs
      /\ AllPositions(cfg)' = AllPositions(cfg)
    BY DEF inputs, Positions, AllDefs
<1>2. Shape'
    BY <1>1 DEF IInv, Shape, inputs
<1>3. PostFixpoint'
    <2>1. \A q \in Positions : rd[q] \subseteq rd'[q]
        OBVIOUS
    <2>2. \A p \in Positions : Transfer(p) \subseteq Transfer(p)'
        BY <2>1, TransferMonotone DEF IInv
    <2> QED  BY <1>1, <2>2 DEF IInv, PostFixpoint
<1>4. \A p : DefinitionsRead(p)' = DefinitionsRead(p)
    BY DEF DefinitionsRead, inputs
<1> QED  BY <1>1, <1>2, <1>3, <1>4 DEF IInv, TypeOK, inputs

\* Steps that touch neither the reaching definitions nor the instructions kept.
LEMMA WalkUnchanged ==
    ASSUME IInv, UNCHANGED <<inputs, rd, rdIn, important, worklist>>,
           phase' \in {phase, "data", "pdom", "frontier", "control", "done"},
           next' \in Nat, changed' \in BOOLEAN
    PROVE  IInv'
<1>1. /\ Shape' /\ PostFixpoint'
      /\ killMap' \in [Positions' -> SUBSET AllDefs']
      /\ rd' \in [Positions' -> SUBSET AllDefs']
      /\ rdIn' \in [Positions' -> SUBSET AllDefs']
      /\ \A p : DefinitionsRead(p)' = DefinitionsRead(p)
    BY ReachingUnchanged
<1>2. TypeOK'
    BY <1>1 DEF IInv, TypeOK, inputs, Positions
<1>3. NothingFollowed'
    BY DEF IInv, NothingFollowed
<1>4. WorklistCoversGaps'
    BY <1>1 DEF IInv, WorklistCoversGaps, NothingFollowed
<1> QED  BY <1>1, <1>2, <1>3, <1>4 DEF IInv

LEMMA ReachInstrStep ==
    ASSUME IInv, ReachInstr
    PROVE  IInv' /\ \A p \in Positions : rd[p] \subseteq rd'[p]
<1>1. /\ Positions' = Positions /\ AllDefs' = AllDefs
      /\ AllPositions(cfg)' = AllPositions(cfg)
    BY DEF ReachInstr, inputs, Positions, AllDefs
<1>2. Shape'
    BY <1>1 DEF IInv, Shape, ReachInstr, inputs
<1>3. /\ next \in Positions
      /\ Incoming(next) \in SUBSET AllDefs /\ Transfer(next) \in SUBSET AllDefs
    BY TransferType DEF IInv, ReachInstr
<1>4. /\ rd' \in [Positions -> SUBSET AllDefs]
      /\ rdIn' \in [Positions -> SUBSET AllDefs]
      /\ \A p \in Positions : rd'[p] = IF p = next THEN Transfer(next) ELSE rd[p]
    BY <1>3 DEF IInv, TypeOK, ReachInstr
<1>5. \A p \in Positions : rd[p] \subseteq rd'[p]
    BY <1>4 DEF IInv, PostFixpoint
<1>6. PostFixpoint'
    <2>1. \A p \in Positions : Transfer(p) \subseteq Transfer(p)'
        BY <1>5, TransferMonotone DEF IInv, ReachInstr
    <2> QED  BY <1>1, <1>4, <2>1 DEF IInv, PostFixpoint
<1>7. TypeOK'
    BY <1>1, <1>4 DEF IInv, TypeOK, ReachInstr, inputs
<1>8. NothingFollowed' /\ WorklistCoversGaps'
    BY DEF IInv, NothingFollowed, WorklistCoversGaps, ReachInstr
<1> QED  BY <1>2, <1>5, <1>6, <1>7, <1>8 DEF IInv

LEMMA FollowOperandsStep ==
    ASSUME IInv, FollowOperands
    PROVE  IInv'
<1>1. PICK p \in worklist :
          /\ important' = important \cup (DefinitionsRead(p) \ important)
          /\ worklist' = (worklist \ {p}) \cup (DefinitionsRead(p) \ important)
    BY DEF FollowOperands
<1>2. /\ Shape' /\ PostFixpoint'
      /\ killMap' \in [Positions' -> SUBSET AllDefs']
      /\ rd' \in [Positions' -> SUBSET AllDefs']
      /\ rdIn' \in [Positions' -> SUBSET AllDefs']
      /\ \A q : DefinitionsRead(q)' = DefinitionsRead(q)
    BY ReachingUnchanged DEF FollowOperands, reaching
<1>3. DefinitionsRead(p) \subseteq Positions
    BY DEF IInv, Shape, TypeOK, DefinitionsRead
<1>4. TypeOK'
    BY <1>1, <1>2, <1>3 DEF IInv, TypeOK, FollowOperands, inputs, reaching, Positions
<1>5. NothingFollowed'
    BY DEF NothingFollowed, FollowOperands
<1>6. WorklistCoversGaps'
    BY <1>1, <1>2 DEF IInv, WorklistCoversGaps, FollowOperands
<1> QED  BY <1>2, <1>4, <1>5, <1>6 DEF IInv

LEMMA ControlRoundStep ==
    ASSUME IInv, ControlRound
    PROVE  IInv'
<1>1. /\ important' = important \cup (Controllers \ important)
      /\ worklist' = Controllers \ important
      /\ worklist = {}
    BY DEF ControlRound
<1>2. /\ Shape' /\ PostFixpoint'
      /\ killMap' \in [Positions' -> SUBSET AllDefs']
      /\ rd' \in [Positions' -> SUBSET AllDefs']
      /\ rdIn' \in [Positions' -> SUBSET AllDefs']
      /\ \A q : DefinitionsRead(q)' = DefinitionsRead(q)
    BY ReachingUnchanged DEF ControlRound, reaching
<1>3. Controllers \subseteq Positions
    <2>1. \A k \in DOMAIN cfg : LastOf(k) \in Positions
        BY LastIsPosition DEF IInv
    <2> QED  BY <2>1 DEF Controllers
<1>4. TypeOK'
    BY <1>1, <1>2, <1>3 DEF IInv, TypeOK, ControlRound, inputs, reaching, Positions
<1>5. NothingFollowed'
    BY DEF NothingFollowed, ControlRound
<1>6. WorklistCoversGaps'
    BY <1>1, <1>2 DEF IInv, WorklistCoversGaps, ControlRound
<1> QED  BY <1>2, <1>4, <1>5, <1>6 DEF IInv

-----------------------------------------------------------------------------
LEMMA Initially == Init => IInv
<1> SUFFICES ASSUME Init PROVE IInv
    OBVIOUS
<1>1. /\ Positions = AllPositions(cfg)
      /\ genMap = [p \in Positions |-> Gen(idToInstr, p)]
      /\ killMap = [p \in Positions |-> Kill(idToInstr, AllDefs, p)]
    BY DEF Init, Positions
<1>2. Shape
    BY <1>1 DEF Init, Shape, Gen, AllDefs
<1>3. \A p \in Positions : Kill(idToInstr, AllDefs, p) \in SUBSET AllDefs
    BY DEF Kill
<1>4. TypeOK
    <2>1. keepControl \in BOOLEAN
        BY KeepControlAssumption DEF Init
    <2>2. killMap \in [Positions -> SUBSET AllDefs]
        BY <1>1, <1>3
    <2>3. /\ rd \in [Positions -> SUBSET AllDefs]
          /\ rdIn \in [Positions -> SUBSET AllDefs]
        BY DEF Init
    <2> QED  BY <2>1, <2>2, <2>3 DEF Init, TypeOK, SliceSeeds, Positions
<1>5. PostFixpoint
    BY DEF Init, PostFixpoint
<1> QED  BY <1>2, <1>4, <1>5 DEF Init, IInv, NothingFollowed, WorklistCoversGaps

LEMMA Inductive == IInv /\ [Next]_vars => IInv'
<1> SUFFICES ASSUME IInv, [Next]_vars PROVE IInv'
    OBVIOUS
<1> USE DEF IInv, TypeOK
<1>1. CASE ReachInstr
    BY <1>1, ReachInstrStep
<1>2. CASE ReachAgain
    BY <1>2, WalkUnchanged DEF ReachAgain
<1>3. CASE ReachDone
    BY <1>3, WalkUnchanged DEF ReachDone, reaching
<1>4. CASE FollowOperands
    BY <1>4, FollowOperandsStep
<1>5. CASE DataDone
    <2>1. phase' \in {"pdom", "done"} /\ next' \in Nat /\ changed' \in BOOLEAN
        <3>1. CASE keepControl /\ ExitBlocks(cfg) # {}
            <4>1. phase' = "pdom" /\ next' = 0 /\ changed' = FALSE
                BY <1>5, <3>1, Zenon DEF DataDone
            <4> QED  BY <4>1
        <3>2. CASE ~ (keepControl /\ ExitBlocks(cfg) # {})
            BY <1>5, <3>2 DEF DataDone
        <3> QED  BY <3>1, <3>2
    <2>2. UNCHANGED <<inputs, rd, rdIn, important, worklist>>
        BY <1>5 DEF DataDone
    <2> QED  BY <2>1, <2>2, WalkUnchanged
<1>6. CASE PdomBlock
    <2>1. next' \in Nat /\ changed' \in BOOLEAN
        BY <1>6 DEF PdomBlock
    <2> QED  BY <1>6, <2>1, WalkUnchanged DEF PdomBlock
<1>7. CASE PdomAgain
    BY <1>7, WalkUnchanged DEF PdomAgain
<1>8. CASE PdomDone
    BY <1>8, WalkUnchanged DEF PdomDone, reaching
<1>9. CASE FrontierStep
    BY <1>9, WalkUnchanged DEF FrontierStep, reaching
<1>10. CASE FrontierDone
    BY <1>10, WalkUnchanged DEF FrontierDone, reaching
<1>11. CASE ControlRound
    BY <1>11, ControlRoundStep
<1>12. CASE UNCHANGED vars
    BY <1>12, WalkUnchanged DEF vars
<1> QED
    BY <1>1, <1>2, <1>3, <1>4, <1>5, <1>6, <1>7, <1>8, <1>9, <1>10, <1>11, <1>12 DEF Next

-----------------------------------------------------------------------------
(* Reaching definitions are exact.  Whatever a visit adds, some path       *)
(* brings; and when a whole pass changes nothing, every instruction has    *)
(* what its predecessors let through.                                      *)

LEMMA InstrEdgesAre ==
    ASSUME Shape
    PROVE  /\ IsFiniteSet(InstrEdges) /\ IsFiniteSet(Positions)
           /\ \A e \in InstrEdges : e[1] \in Positions /\ e[2] \in Positions
<1>1. IsCfg(cfg)
    BY GraphsAssumption DEF Shape
<1>2. Positions = AllPositions(cfg)
    BY DEF Shape
<1>3. PICK n \in Nat : Positions = 1 .. n
    BY <1>1, <1>2, Layout
<1>4. IsFiniteSet(Positions)
    BY <1>3, FS_Interval
<1>5. ASSUME NEW e \in InstrEdges
      PROVE  e \in Positions \X Positions
    <2>1. PICK k \in DOMAIN cfg :
              e \in {<<p, p + 1>> : p \in InstrPositions(cfg, k) \ {LastOf(k)}}
                      \cup {<<LastOf(k), cfg[s].first>> : s \in ToSet(cfg[k].succs)}
        BY DEF InstrEdges
    <2>2. /\ LastOf(k) = EndOf(cfg, k) /\ ToSet(cfg[k].succs) \subseteq DOMAIN cfg
          /\ \A j \in DOMAIN cfg :
                /\ cfg[j].first \in Nat /\ EndOf(cfg, j) \in Nat
                /\ cfg[j].first <= EndOf(cfg, j)
                /\ InstrPositions(cfg, j) = cfg[j].first .. EndOf(cfg, j)
                /\ InstrPositions(cfg, j) \subseteq Positions
        BY <1>1, <1>2, BlockIs DEF LastOf, EndOf, AllPositions
    <2>3. CASE e \in {<<p, p + 1>> : p \in InstrPositions(cfg, k) \ {LastOf(k)}}
        <3>1. PICK p \in InstrPositions(cfg, k) : p # LastOf(k) /\ e = <<p, p + 1>>
            BY <2>3
        <3>2. p + 1 \in InstrPositions(cfg, k)
            BY <2>2, <3>1
        <3> QED  BY <2>2, <3>1, <3>2
    <2>4. CASE e \in {<<LastOf(k), cfg[s].first>> : s \in ToSet(cfg[k].succs)}
        <3>1. PICK s \in DOMAIN cfg : e = <<LastOf(k), cfg[s].first>>
            BY <2>2, <2>4
        <3>2. EndOf(cfg, k) \in InstrPositions(cfg, k) /\ cfg[s].first \in InstrPositions(cfg, s)
            BY <2>2
        <3> QED  BY <2>2, <3>1, <3>2
    <2> QED  BY <2>1, <2>3, <2>4
<1>6. IsFiniteSet(InstrEdges)
    <2>1. InstrEdges \in SUBSET (Positions \X Positions)
        BY <1>5
    <2> QED  BY <1>4, <2>1, FS_Product, FS_Subset
<1> QED  BY <1>4, <1>5, <1>6

\* The edges that enter an instruction.
LEMMA EdgesInto ==
    ASSUME Shape, NEW q \in Positions
    PROVE  {i \in Positions : <<i, q>> \in InstrEdges}
              = IF q = cfg[BlockOf(q)].first THEN {LastOf(j) : j \in cfg[BlockOf(q)].preds}
                ELSE {q - 1}
<1> DEFINE k == BlockOf(q)
           Entering == {i \in Positions : <<i, q>> \in InstrEdges}
<1>1. IsCfg(cfg)
    BY GraphsAssumption DEF Shape
<1>2. k \in DOMAIN cfg /\ q \in InstrPositions(cfg, k)
    BY DEF Shape, AllPositions, BlockOf
<1>3. \A j \in DOMAIN cfg :
          /\ cfg[j].first \in Nat /\ EndOf(cfg, j) \in Nat
          /\ cfg[j].first <= EndOf(cfg, j)
          /\ InstrPositions(cfg, j) = cfg[j].first .. EndOf(cfg, j)
          /\ LastOf(j) = EndOf(cfg, j)
          /\ ToSet(cfg[j].succs) \subseteq DOMAIN cfg
    BY <1>1, BlockIs DEF LastOf, EndOf
<1>4. \A j \in DOMAIN cfg : q \in InstrPositions(cfg, j) => j = k
    BY <1>1, <1>2, Layout
<1>5. cfg[k].preds = {j \in DOMAIN cfg : k \in ToSet(cfg[j].succs)}
    BY <1>1, <1>2 DEF IsCfg
<1>7. /\ \A j \in cfg[k].preds : LastOf(j) \in Positions
      /\ q # cfg[k].first => q - 1 \in Positions
    BY SourcesArePositions
<1> HIDE DEF k
<1>8. ASSUME NEW i \in Entering
      PROVE  IF q = cfg[k].first THEN \E j \in cfg[k].preds : i = LastOf(j) ELSE i = q - 1
    <2>1. PICK j \in DOMAIN cfg :
              <<i, q>> \in {<<p, p + 1>> : p \in InstrPositions(cfg, j) \ {LastOf(j)}}
                             \cup {<<LastOf(j), cfg[s].first>> : s \in ToSet(cfg[j].succs)}
        BY DEF InstrEdges
    <2>2. CASE <<i, q>> \in {<<p, p + 1>> : p \in InstrPositions(cfg, j) \ {LastOf(j)}}
        <3>1. i \in InstrPositions(cfg, j) /\ i # LastOf(j) /\ q = i + 1
            BY <2>2
        <3>2. q \in InstrPositions(cfg, j) /\ q # cfg[j].first /\ i = q - 1
            BY <1>3, <3>1
        <3> QED  BY <1>4, <3>2
    <2>3. CASE <<i, q>> \in {<<LastOf(j), cfg[s].first>> : s \in ToSet(cfg[j].succs)}
        <3>1. PICK s \in ToSet(cfg[j].succs) : i = LastOf(j) /\ q = cfg[s].first
            BY <2>3
        <3>2. s \in DOMAIN cfg /\ q \in InstrPositions(cfg, s)
            BY <1>3, <3>1
        <3>3. s = k
            BY <1>4, <3>2
        <3> QED  BY <1>5, <3>1, <3>3
    <2> QED  BY <2>1, <2>2, <2>3
<1>9. CASE q = cfg[k].first
    <2>1. ASSUME NEW j \in cfg[k].preds PROVE LastOf(j) \in Entering
        <3>1. j \in DOMAIN cfg /\ k \in ToSet(cfg[j].succs)
            BY <1>5
        <3>2. <<LastOf(j), q>> \in InstrEdges
            BY <1>9, <3>1 DEF InstrEdges
        <3> QED  BY <1>7, <3>2
    <2> HIDE DEF Entering
    <2>2. Entering = {LastOf(j) : j \in cfg[k].preds}
        BY <1>8, <1>9, <2>1
    <2> QED  BY <1>9, <2>2 DEF Entering, k
<1>10. CASE q # cfg[k].first
    <2>1. q - 1 \in InstrPositions(cfg, k) \ {LastOf(k)} /\ (q - 1) + 1 = q
        BY <1>2, <1>3, <1>10
    <2>2. <<q - 1, q>> \in InstrEdges
        <3>1. <<q - 1, (q - 1) + 1>> \in
                  {<<p, p + 1>> : p \in InstrPositions(cfg, k) \ {LastOf(k)}}
            BY <2>1
        <3> QED  BY <1>2, <2>1, <3>1 DEF InstrEdges
    <2>3. q - 1 \in Entering
        BY <1>7, <1>10, <2>2
    <2> HIDE DEF Entering
    <2>4. Entering = {q - 1}
        BY <1>8, <1>10, <2>3
    <2> QED  BY <1>10, <2>4 DEF Entering, k
<1> QED  BY <1>9, <1>10

\* What arrives at an instruction is what leaves those before it.
LEMMA IncomingIs ==
    ASSUME Shape, NEW q \in Positions
    PROVE  Incoming(q) = UNION {rd[p] : p \in {i \in Positions : <<i, q>> \in InstrEdges}}
<1>1. CASE q = cfg[BlockOf(q)].first
    <2>1. {i \in Positions : <<i, q>> \in InstrEdges} = {LastOf(j) : j \in cfg[BlockOf(q)].preds}
        BY <1>1, EdgesInto
    <2>2. Incoming(q) = UNION {rd[LastOf(j)] : j \in cfg[BlockOf(q)].preds}
        BY <1>1 DEF Incoming
    <2> QED  BY <2>1, <2>2
<1>2. CASE q # cfg[BlockOf(q)].first
    <2>1. {i \in Positions : <<i, q>> \in InstrEdges} = {q - 1}
        BY <1>2, EdgesInto
    <2>2. Incoming(q) = rd[q - 1]
        BY <1>2 DEF Incoming
    <2> QED  BY <2>1, <2>2
<1> QED  BY <1>1, <1>2

LEMMA SeesIs ==
    ASSUME Shape, NEW p, NEW r
    PROVE  /\ \A e \in InstrEdges : e[1] = p => e[2] \in Sees(p, r)
           /\ \A e \in InstrEdges :
                 e[1] \in Sees(p, r) /\ ~ AlwaysWrites(e[1], r) => e[2] \in Sees(p, r)
           /\ \A T : /\ \A e \in InstrEdges : e[1] = p => e[2] \in T
                     /\ \A e \in InstrEdges : e[1] \in T /\ ~ AlwaysWrites(e[1], r) => e[2] \in T
                     => Sees(p, r) \subseteq T
<1> DEFINE S == {e[2] : e \in {f \in InstrEdges : f[1] = p}}
           E == {e \in InstrEdges : ~ AlwaysWrites(e[1], r)}
<1>1. IsFiniteSet(E)
    <2>1. E \in SUBSET InstrEdges /\ IsFiniteSet(InstrEdges)
        BY InstrEdgesAre
    <2> HIDE DEF E
    <2> QED  BY <2>1, FS_Subset
<1>2. Sees(p, r) = ClosureOf(S, E)
    BY DEF Sees
<1>3. /\ S \subseteq ClosureOf(S, E)
      /\ IsClosed(ClosureOf(S, E), E)
      /\ \A T : S \subseteq T /\ IsClosed(T, E) => ClosureOf(S, E) \subseteq T
    <2> HIDE DEF S, E
    <2> QED  BY <1>1, ClosureLeast
<1>4. \A T : /\ IsClosed(T, E) <=>
                   \A e \in InstrEdges : e[1] \in T /\ ~ AlwaysWrites(e[1], r) => e[2] \in T
             /\ S \subseteq T <=> \A e \in InstrEdges : e[1] = p => e[2] \in T
    BY DEF IsClosed
<1> HIDE DEF S, E
<1> QED  BY <1>2, <1>3, <1>4

-----------------------------------------------------------------------------
Maps ==
    /\ genMap = [p \in Positions |-> Gen(idToInstr, p)]
    /\ killMap = [p \in Positions |-> Kill(idToInstr, AllDefs, p)]

\* Some path takes the definition past the instruction.
Passes(d, p) == p = d[2] \/ (p \in Sees(d[2], d[1]) /\ ~ AlwaysWrites(p, d[1]))

NoneInvented ==
    \A p \in Positions :
        /\ \A d \in rdIn[p] : p \in Sees(d[2], d[1])
        /\ \A d \in rd[p] : Passes(d, p)

\* Another visit would change nothing.
Stable(p) == rd[p] = Transfer(p) /\ rdIn[p] = Incoming(p)

StableBehind ==
    /\ phase = "reach" => /\ next \in Nat \ {0}
                          /\ ~ changed => \A p \in Positions : p < next => Stable(p)
    /\ phase # "reach" => \A p \in Positions : Stable(p)

ReachInv == Maps /\ NoneInvented /\ StableBehind

LEMMA IncomingIsSeen ==
    ASSUME Shape, NoneInvented, NEW q \in Positions, NEW d \in Incoming(q)
    PROVE  q \in Sees(d[2], d[1])
<1>1. PICK p \in Positions : <<p, q>> \in InstrEdges /\ d \in rd[p]
    BY IncomingIs
<1>2. Passes(d, p)
    BY <1>1 DEF NoneInvented
<1> QED  BY <1>1, <1>2, SeesIs DEF Passes

LEMMA TransferPasses ==
    ASSUME Shape, TypeOK, Maps, NoneInvented, NEW q \in Positions, NEW d \in Transfer(q)
    PROVE  Passes(d, q)
<1>1. CASE d \in genMap[q]
    BY <1>1 DEF Maps, Gen, Passes
<1>2. CASE d \in Incoming(q) /\ d \notin killMap[q]
    <2>1. q \in Sees(d[2], d[1])
        BY <1>2, IncomingIsSeen
    <2>2. d \in AllDefs
        BY <1>2, TransferType
    <2>3. killMap[q] = Kill(idToInstr, AllDefs, q)
        BY DEF Maps
    <2>4. AlwaysWrites(q, d[1]) => d[2] = q
        BY <1>2, <2>2, <2>3 DEF Kill, AlwaysWrites
    <2> QED  BY <2>1, <2>4 DEF Passes
<1> QED  BY <1>1, <1>2 DEF Transfer

\* The definitions that some path brings to an instruction satisfy the equations
\* that a pass without changes leaves behind.
LEMMA StableIsExact ==
    ASSUME Shape, TypeOK, Maps, NoneInvented, \A p \in Positions : Stable(p),
           NEW q \in Positions
    PROVE  rdIn[q] = {d \in AllDefs : q \in Sees(d[2], d[1])}
<1>1. rdIn[q] \subseteq {d \in AllDefs : q \in Sees(d[2], d[1])}
    BY DEF NoneInvented, TypeOK
<1>2. ASSUME NEW d \in AllDefs, q \in Sees(d[2], d[1]) PROVE d \in rdIn[q]
    <2> DEFINE T == {p \in Positions : d \in rdIn[p]}
    <2>1. ASSUME NEW e \in InstrEdges, d \in rd[e[1]] PROVE e[2] \in T
        <3>1. e[1] \in Positions /\ e[2] \in Positions /\ e = <<e[1], e[2]>>
            BY InstrEdgesAre DEF InstrEdges
        <3>2. d \in Incoming(e[2])
            BY <2>1, <3>1, IncomingIs
        <3> QED  BY <3>1, <3>2 DEF Stable
    <2>2. d \in rd[d[2]] /\ d[2] \in Positions
        <3>1. PICK p \in Positions : d \in Gen(idToInstr, p)
            BY DEF AllDefs, Maps
        <3>2. d[2] = p
            BY <3>1 DEF Gen
        <3> QED  BY <3>1, <3>2 DEF Stable, Transfer, Maps
    <2>3. ASSUME NEW e \in InstrEdges, e[1] \in T, ~ AlwaysWrites(e[1], d[1])
          PROVE  e[2] \in T
        <3>1. e[1] \in Positions /\ d \in Incoming(e[1])
            BY <2>3 DEF Stable
        <3>2. d \notin killMap[e[1]]
            BY <2>3, <3>1 DEF Maps, Kill, AlwaysWrites
        <3>3. d \in rd[e[1]]
            BY <3>1, <3>2 DEF Stable, Transfer
        <3> QED  BY <2>1, <3>3
    <2>4. Sees(d[2], d[1]) \subseteq T
        <3>1. \A e \in InstrEdges : e[1] = d[2] => e[2] \in T
            BY <2>1, <2>2
        <3> HIDE DEF T
        <3> QED  BY <2>3, <3>1, SeesIs
    <2> QED  BY <1>2, <2>4
<1> QED  BY <1>1, <1>2

LEMMA PathsUnchanged ==
    ASSUME UNCHANGED inputs
    PROVE  /\ Positions' = Positions /\ AllDefs' = AllDefs
           /\ \A p, r : Sees(p, r)' = Sees(p, r) /\ (AlwaysWrites(p, r)' <=> AlwaysWrites(p, r))
           /\ \A d, p : Passes(d, p)' <=> Passes(d, p)
<1>1. cfg' = cfg /\ idToInstr' = idToInstr /\ genMap' = genMap /\ killMap' = killMap
    BY DEF inputs
<1>2. \A k : LastOf(k)' = LastOf(k)
    BY <1>1 DEF LastOf
<1>3. InstrEdges' = InstrEdges
    BY <1>1, <1>2 DEF InstrEdges
<1>4. \A p, r : AlwaysWrites(p, r)' <=> AlwaysWrites(p, r)
    BY <1>1 DEF AlwaysWrites
<1>5. \A p, r : Sees(p, r)' = Sees(p, r)
    BY <1>3, <1>4 DEF Sees
<1>6. \A d, p : Passes(d, p)' <=> Passes(d, p)
    BY <1>4, <1>5 DEF Passes
<1> QED  BY <1>1, <1>4, <1>5, <1>6 DEF Positions, AllDefs

LEMMA ReachInvKept ==
    ASSUME ReachInv, UNCHANGED <<inputs, rd, rdIn>>,
           \/ UNCHANGED <<phase, next, changed>>
           \/ phase = "reach" /\ phase' = "reach" /\ next' = 1 /\ Shape
           \/ phase # "reach" /\ phase' # "reach"
           \/ /\ phase = "reach" /\ next \notin Positions /\ ~ changed /\ Shape
              /\ phase' # "reach"
    PROVE  ReachInv'
<1>1. /\ Positions' = Positions /\ AllDefs' = AllDefs
      /\ \A p, r : Sees(p, r)' = Sees(p, r)
      /\ \A d, p : Passes(d, p)' <=> Passes(d, p)
    BY PathsUnchanged
<1>2. cfg' = cfg /\ idToInstr' = idToInstr /\ genMap' = genMap /\ killMap' = killMap
      /\ rd' = rd /\ rdIn' = rdIn
    BY DEF inputs
<1>3. Maps'
    BY <1>1, <1>2 DEF ReachInv, Maps
<1>4. NoneInvented'
    BY <1>1, <1>2 DEF ReachInv, NoneInvented
<1>5. \A p : Stable(p)' <=> Stable(p)
    <2>1. \A k : LastOf(k)' = LastOf(k) /\ BlockOf(k)' = BlockOf(k)
        BY <1>2 DEF LastOf, BlockOf
    <2>2. \A p : Incoming(p)' = Incoming(p)
        BY <1>2, <2>1 DEF Incoming
    <2>3. \A p : Transfer(p)' = Transfer(p)
        BY <1>2, <2>2 DEF Transfer
    <2> QED  BY <1>2, <2>2, <2>3 DEF Stable
<1>6. StableBehind'
    <2>1. CASE UNCHANGED <<phase, next, changed>>
        BY <1>1, <1>5, <2>1 DEF ReachInv, StableBehind
    <2>2. CASE phase = "reach" /\ phase' = "reach" /\ next' = 1 /\ Shape
        <3>1. \A p \in Positions : ~ (p < 1)
            BY <2>2, GraphsAssumption, Layout DEF Shape
        <3> QED  BY <1>1, <2>2, <3>1 DEF StableBehind
    <2>3. CASE phase # "reach" /\ phase' # "reach"
        BY <1>1, <1>5, <2>3 DEF ReachInv, StableBehind
    <2>4. CASE /\ phase = "reach" /\ next \notin Positions /\ ~ changed /\ Shape
               /\ phase' # "reach"
        <3>1. PICK n \in Nat : Positions = 1 .. n
            BY <2>4, GraphsAssumption, Layout DEF Shape
        <3>2. next \in Nat \ {0}
            BY <2>4 DEF ReachInv, StableBehind
        <3>3. \A p \in Positions : p < next
            BY <2>4, <3>1, <3>2
        <3> QED  BY <1>1, <1>5, <2>4, <3>3 DEF ReachInv, StableBehind
    <2> QED  BY <2>1, <2>2, <2>3, <2>4
<1> QED  BY <1>3, <1>4, <1>6 DEF ReachInv

LEMMA ReachInvInstr ==
    ASSUME IInv, ReachInv, ReachInstr
    PROVE  ReachInv'
<1>1. /\ Positions' = Positions /\ AllDefs' = AllDefs
      /\ \A p, r : Sees(p, r)' = Sees(p, r)
      /\ \A d, p : Passes(d, p)' <=> Passes(d, p)
    BY PathsUnchanged DEF ReachInstr
<1>2. cfg' = cfg /\ idToInstr' = idToInstr /\ genMap' = genMap /\ killMap' = killMap
      /\ phase = "reach" /\ phase' = "reach" /\ next' = next + 1 /\ next \in Positions
    BY DEF ReachInstr, inputs
<1>3. Maps'
    BY <1>1, <1>2 DEF ReachInv, Maps
<1>4. /\ \A p \in Positions : rd'[p] = IF p = next THEN Transfer(next) ELSE rd[p]
      /\ \A p \in Positions : rdIn'[p] = IF p = next THEN Incoming(next) ELSE rdIn[p]
    BY DEF IInv, TypeOK, ReachInstr
<1>5. NoneInvented'
    <2>1. ASSUME NEW p \in Positions
          PROVE  /\ \A d \in rdIn'[p] : p \in Sees(d[2], d[1])
                 /\ \A d \in rd'[p] : Passes(d, p)
        <3>1. CASE p = next
            BY <1>4, <3>1, IncomingIsSeen, TransferPasses DEF IInv, ReachInv
        <3>2. CASE p # next
            BY <1>4, <3>2 DEF ReachInv, NoneInvented
        <3> QED  BY <3>1, <3>2
    <2> QED  BY <1>1, <2>1 DEF NoneInvented
<1>6. StableBehind'
    <2>1. next \in Nat \ {0} /\ next' \in Nat \ {0}
        BY <1>2 DEF ReachInv, StableBehind
    <2>2. ASSUME ~ changed', NEW p \in Positions, p < next'
          PROVE  Stable(p)'
        <3>1. ~ changed /\ Transfer(next) = rd[next]
            BY <2>2 DEF ReachInstr
        <3>2. rd' = rd
            <4>1. rd' = [rd EXCEPT ![next] = rd[next]]
                BY <3>1 DEF ReachInstr
            <4> QED  BY <4>1 DEF IInv, TypeOK
        <3>3. Transfer(p)' = Transfer(p) /\ Incoming(p)' = Incoming(p)
            <4>1. /\ BlockOf(p)' = BlockOf(p)
                  /\ \A k : LastOf(k)' = LastOf(k)
                BY <1>2 DEF LastOf, BlockOf
            <4>2. Incoming(p)' = Incoming(p)
                BY <1>2, <3>2, <4>1 DEF Incoming
            <4> QED  BY <1>2, <4>2 DEF Transfer
        <3>4. rd[p] = Transfer(p) /\ rdIn'[p] = Incoming(p)
            <4>1. CASE p = next
                BY <1>4, <3>1, <4>1
            <4>2. CASE p # next
                <5>1. PICK n \in Nat : Positions = 1 .. n
                    BY GraphsAssumption, Layout DEF IInv, Shape
                <5>2. p < next
                    BY <1>2, <2>1, <2>2, <4>2, <5>1
                <5> QED  BY <1>2, <1>4, <3>1, <4>2, <5>2 DEF ReachInv, StableBehind, Stable
            <4> QED  BY <4>1, <4>2
        <3> QED  BY <3>2, <3>3, <3>4 DEF Stable
    <2> QED  BY <1>1, <1>2, <2>1, <2>2 DEF StableBehind
<1> QED  BY <1>3, <1>5, <1>6 DEF ReachInv

LEMMA ReachInitially == Init => ReachInv
<1> SUFFICES ASSUME Init PROVE ReachInv
    OBVIOUS
<1>1. Maps
    BY DEF Init, Maps
<1>2. NoneInvented
    BY DEF Init, NoneInvented
<1>3. Shape
    BY Initially DEF IInv
<1>4. \A p \in Positions : ~ (p < 1)
    BY <1>3, GraphsAssumption, Layout DEF Shape
<1>5. StableBehind
    BY <1>4 DEF Init, StableBehind
<1> QED  BY <1>1, <1>2, <1>5 DEF ReachInv

LEMMA ReachInductive == IInv /\ ReachInv /\ [Next]_vars => ReachInv'
<1> SUFFICES ASSUME IInv, ReachInv, [Next]_vars PROVE ReachInv'
    OBVIOUS
<1>1. CASE ReachInstr
    BY <1>1, ReachInvInstr
<1>2. CASE ReachAgain
    BY <1>2, ReachInvKept DEF ReachAgain, IInv
<1>3. CASE ReachDone
    BY <1>3, ReachInvKept DEF ReachDone, reaching, IInv
<1>4. CASE FollowOperands
    BY <1>4, ReachInvKept DEF FollowOperands, reaching
<1>5. CASE DataDone
    <2>1. phase' \in {"pdom", "done"}
        <3>1. CASE keepControl /\ ExitBlocks(cfg) # {}
            <4>1. phase' = "pdom"
                BY <1>5, <3>1, Zenon DEF DataDone
            <4> QED  BY <4>1
        <3>2. CASE ~ (keepControl /\ ExitBlocks(cfg) # {})
            BY <1>5, <3>2 DEF DataDone
        <3> QED  BY <3>1, <3>2
    <2>2. UNCHANGED <<inputs, rd, rdIn>> /\ phase = "data"
        BY <1>5 DEF DataDone
    <2> QED  BY <2>1, <2>2, ReachInvKept
<1>6. CASE PdomBlock
    BY <1>6, ReachInvKept DEF PdomBlock
<1>7. CASE PdomAgain
    BY <1>7, ReachInvKept DEF PdomAgain
<1>8. CASE PdomDone
    BY <1>8, ReachInvKept DEF PdomDone, reaching
<1>9. CASE FrontierStep
    BY <1>9, ReachInvKept DEF FrontierStep, reaching
<1>10. CASE FrontierDone
    BY <1>10, ReachInvKept DEF FrontierDone, reaching
<1>11. CASE ControlRound
    <2>1. phase' \in {"control", "done"} /\ phase = "control"
        BY <1>11 DEF ControlRound
    <2> QED  BY <1>11, <2>1, ReachInvKept DEF ControlRound, reaching
<1>12. CASE UNCHANGED vars
    BY <1>12, ReachInvKept DEF vars
<1> QED
    BY <1>1, <1>2, <1>3, <1>4, <1>5, <1>6, <1>7, <1>8, <1>9, <1>10, <1>11, <1>12 DEF Next

-----------------------------------------------------------------------------
(* Nodes that every way to the exit x passes.                              *)

\* The edges that do not leave a node.
Around(E, c) == {e \in E : e[1] # c}

Inevitable(E, x, c, b) == c = b \/ c = x \/ x \notin ClosureOf({b}, Around(E, c))

\* ClosureLeast, once for each way of using it here.
LEMMA AroundLeast ==
    ASSUME NEW E, IsFiniteSet(E), NEW b, NEW c
    PROVE  /\ b \in ClosureOf({b}, Around(E, c))
           /\ \A e \in E : e[1] # c /\ e[1] \in ClosureOf({b}, Around(E, c))
                             => e[2] \in ClosureOf({b}, Around(E, c))
           /\ \A T : b \in T /\ (\A e \in E : e[1] # c /\ e[1] \in T => e[2] \in T)
                        => ClosureOf({b}, Around(E, c)) \subseteq T
<1>1. IsFiniteSet(Around(E, c))
    <2>1. Around(E, c) \in SUBSET E
        BY DEF Around
    <2> QED  BY <2>1, FS_Subset
<1>2. /\ {b} \subseteq ClosureOf({b}, Around(E, c))
      /\ IsClosed(ClosureOf({b}, Around(E, c)), Around(E, c))
      /\ \A T : {b} \subseteq T /\ IsClosed(T, Around(E, c))
                   => ClosureOf({b}, Around(E, c)) \subseteq T
    BY <1>1, ClosureLeast
<1>3. \A T : IsClosed(T, Around(E, c)) <=> \A e \in E : e[1] # c /\ e[1] \in T => e[2] \in T
    BY DEF IsClosed, Around
<1> QED  BY <1>2, <1>3

LEMMA AroundFurther ==
    ASSUME NEW E, IsFiniteSet(E), NEW a, NEW c, NEW b \in ClosureOf({a}, Around(E, c))
    PROVE  ClosureOf({b}, Around(E, c)) \subseteq ClosureOf({a}, Around(E, c))
<1> DEFINE T == ClosureOf({a}, Around(E, c))
<1>1. b \in T /\ \A e \in E : e[1] # c /\ e[1] \in T => e[2] \in T
    BY AroundLeast
<1> HIDE DEF T
<1>2. ClosureOf({b}, Around(E, c)) \subseteq T
    BY <1>1, AroundLeast
<1> QED  BY <1>2 DEF T

LEMMA InevitableExit ==
    ASSUME NEW E, IsFiniteSet(E), NEW x, NEW c, Inevitable(E, x, c, x)
    PROVE  c = x
BY AroundLeast DEF Inevitable

LEMMA InevitableTransitive ==
    ASSUME NEW E, IsFiniteSet(E), NEW x, NEW a, NEW b, NEW c,
           Inevitable(E, x, c, b), Inevitable(E, x, b, a)
    PROVE  Inevitable(E, x, c, a)
<1> SUFFICES ASSUME c # x, c # b, b # a PROVE x \notin ClosureOf({a}, Around(E, c))
    BY DEF Inevitable
<1>1. b # x
    BY InevitableExit
<1> DEFINE U == ClosureOf({b}, Around(E, c)) \cup ClosureOf({a}, Around(E, b))
<1>2. x \notin U
    BY <1>1 DEF Inevitable
<1>3. a \in U /\ \A e \in E : e[1] # c /\ e[1] \in U => e[2] \in U
    BY AroundLeast
<1>4. ClosureOf({a}, Around(E, c)) \subseteq U
    <2> HIDE DEF U
    <2> QED  BY <1>3, AroundLeast
<1> QED  BY <1>2, <1>4

LEMMA InevitableAntisymmetric ==
    ASSUME NEW E, IsFiniteSet(E), NEW x, NEW b, NEW c, x \in ClosureOf({b}, E),
           Inevitable(E, x, c, b), Inevitable(E, x, b, c)
    PROVE  b = c
<1> SUFFICES ASSUME b # c PROVE FALSE
    OBVIOUS
<1>1. b # x /\ c # x
    BY InevitableExit
<1> DEFINE U == ClosureOf({b}, Around(E, c)) \cup ClosureOf({c}, Around(E, b))
<1>2. x \notin U
    BY <1>1 DEF Inevitable
<1>3. b \in U /\ \A e \in E : e[1] \in U => e[2] \in U
    BY AroundLeast
<1>4. ClosureOf({b}, E) \subseteq U
    <2> HIDE DEF U
    <2> QED  BY <1>3, ClosureLeast DEF IsClosed
<1> QED  BY <1>2, <1>4

\* Of two nodes that are inevitable from a third, the one that comes first makes
\* the other inevitable.
LEMMA InevitableChain ==
    ASSUME NEW E, IsFiniteSet(E), NEW x, NEW a, NEW b, NEW c, x \in ClosureOf({a}, E),
           Inevitable(E, x, b, a), Inevitable(E, x, c, a)
    PROVE  Inevitable(E, x, c, b) \/ Inevitable(E, x, b, c)
<1>1. \A v, w : Inevitable(E, x, v, a) /\ v # a /\ v # x
                  => x \notin ClosureOf({a}, Around(E, v))
    BY DEF Inevitable
<1>2. ASSUME NEW v, NEW w, Inevitable(E, x, v, a), v # a, v # x,
             w \in ClosureOf({a}, Around(E, v))
      PROVE  Inevitable(E, x, v, w)
    <2>1. ClosureOf({w}, Around(E, v)) \subseteq ClosureOf({a}, Around(E, v))
        BY <1>2, AroundFurther
    <2> QED  BY <1>1, <1>2, <2>1 DEF Inevitable
<1>3. CASE b = a \/ c = a \/ b = x \/ c = x
    BY <1>3 DEF Inevitable
<1>4. CASE ~ (b = a \/ c = a \/ b = x \/ c = x)
    <2> DEFINE E2 == Around(Around(E, b), c)
               A == ClosureOf({a}, E2)
    <2>1. IsFiniteSet(Around(E, b))
        <3>1. Around(E, b) \in SUBSET E
            BY DEF Around
        <3> QED  BY <3>1, FS_Subset
    <2>2. /\ a \in A
          /\ \A e \in E : e[1] # b /\ e[1] # c /\ e[1] \in A => e[2] \in A
          /\ \A T : a \in T /\ (\A e \in E : e[1] # b /\ e[1] # c /\ e[1] \in T => e[2] \in T)
                       => A \subseteq T
        <3>1. \A e : e \in Around(E, b) <=> e \in E /\ e[1] # b
            BY DEF Around
        <3> QED  BY <2>1, <3>1, AroundLeast
    <2> HIDE DEF A
    <2>3. A \subseteq ClosureOf({a}, Around(E, b)) /\ A \subseteq ClosureOf({a}, Around(E, c))
        <3>1. ASSUME NEW v \in {b, c} PROVE A \subseteq ClosureOf({a}, Around(E, v))
            <4> DEFINE T == ClosureOf({a}, Around(E, v))
            <4>1. a \in T /\ \A e \in E : e[1] # v /\ e[1] \in T => e[2] \in T
                BY AroundLeast
            <4>2. \A e \in E : e[1] # b /\ e[1] # c /\ e[1] \in T => e[2] \in T
                BY <3>1, <4>1
            <4> HIDE DEF T
            <4>3. A \subseteq T
                BY <2>2, <4>1, <4>2
            <4> QED  BY <4>3 DEF T
        <3> QED  BY <3>1
    <2>4. b \in A \/ c \in A
        <3> SUFFICES ASSUME b \notin A, c \notin A PROVE FALSE
            OBVIOUS
        <3>1. IsClosed(A, E)
            BY <2>2 DEF IsClosed
        <3>2. x \in A
            BY <2>2, <3>1, ClosureLeast
        <3> QED  BY <1>1, <1>4, <2>3, <3>2
    <2> QED  BY <1>2, <1>4, <2>3, <2>4
<1> QED  BY <1>3, <1>4

\* What is inevitable from a node, the node apart, is so from all it leads to.
LEMMA InevitableAlong ==
    ASSUME NEW E, IsFiniteSet(E), NEW x, NEW b, NEW c, Inevitable(E, x, c, b), c # b,
           NEW e \in E, e[1] = b
    PROVE  Inevitable(E, x, c, e[2])
<1>1. e[2] \in ClosureOf({b}, Around(E, c))
    BY AroundLeast
<1>2. ClosureOf({e[2]}, Around(E, c)) \subseteq ClosureOf({b}, Around(E, c))
    BY <1>1, AroundFurther
<1> QED  BY <1>2 DEF Inevitable

-----------------------------------------------------------------------------
(* The post-dominators of a block are the blocks that every way from it to *)
(* the virtual exit passes.  The iteration starts above them, stays above  *)
(* them, and no fixpoint is above them.                                    *)

LEMMA BlockEdgesAre ==
    ASSUME Shape
    PROVE  /\ VirtualExit \notin DOMAIN cfg /\ AllBlocks \subseteq Nat
           /\ IsFiniteSet(DOMAIN cfg) /\ IsFiniteSet(AllBlocks) /\ IsFiniteSet(BlockEdges)
           /\ RevPreds(VirtualExit) = <<>>
           /\ \A b \in DOMAIN cfg :
                 /\ IsSequence(RevPreds(b)) /\ ToSet(RevPreds(b)) \subseteq AllBlocks
                 /\ ToSet(cfg[b].succs) \subseteq ToSet(RevPreds(b))
                 /\ b \in ExitBlocks(cfg) => VirtualExit \in ToSet(RevPreds(b))
                 /\ \A s \in ToSet(RevPreds(b)) : <<b, s>> \in BlockEdges
           /\ \A e \in BlockEdges :
                 e[1] \in DOMAIN cfg /\ e[2] \in ToSet(RevPreds(e[1])) /\ e[2] \in AllBlocks
<1>1. IsCfg(cfg)
    BY GraphsAssumption DEF Shape
<1>2. VirtualExit \in Nat /\ DOMAIN cfg = 0 .. VirtualExit - 1
    BY <1>1 DEF IsCfg, VirtualExit
<1>3. VirtualExit \notin DOMAIN cfg /\ AllBlocks \subseteq Nat
    BY <1>2 DEF AllBlocks
<1>4. IsFiniteSet(DOMAIN cfg) /\ IsFiniteSet(AllBlocks)
    <2>1. IsFiniteSet(DOMAIN cfg)
        BY <1>1, Layout
    <2> QED  BY <2>1, FS_AddElement DEF AllBlocks
<1>5. ASSUME NEW b \in DOMAIN cfg
      PROVE  /\ IsSequence(RevPreds(b)) /\ ToSet(RevPreds(b)) \subseteq AllBlocks
             /\ ToSet(cfg[b].succs) \subseteq ToSet(RevPreds(b))
             /\ b \in ExitBlocks(cfg) => VirtualExit \in ToSet(RevPreds(b))
    <2> DEFINE t == IF b \in ExitBlocks(cfg) THEN <<VirtualExit>> ELSE <<>>
    <2>1. IsSequence(cfg[b].succs) /\ ToSet(cfg[b].succs) \subseteq DOMAIN cfg
        BY <1>1, BlockIs
    <2>2. /\ IsSequence(t) /\ Items(t) \subseteq {VirtualExit}
          /\ b \in ExitBlocks(cfg) => VirtualExit \in Items(t)
        BY EmptyAndSingle
    <2>3. RevPreds(b) = cfg[b].succs \o t
        BY <1>3 DEF RevPreds
    <2> HIDE DEF t
    <2>4. IsSequence(RevPreds(b)) /\ Items(RevPreds(b)) = Items(cfg[b].succs) \cup Items(t)
        BY <2>1, <2>2, <2>3, ConcatItems, ConcatRange DEF Joins
    <2>5. \A s : ToSet(s) = Items(s)
        BY DEF ToSet, Items
    <2> QED  BY <2>1, <2>2, <2>4, <2>5 DEF AllBlocks
<1>6. \A b \in DOMAIN cfg : \A s \in ToSet(RevPreds(b)) : <<b, s>> \in BlockEdges
    BY DEF BlockEdges
<1>7. ASSUME NEW e \in BlockEdges
      PROVE  /\ e[1] \in DOMAIN cfg /\ e[2] \in ToSet(RevPreds(e[1])) /\ e[2] \in AllBlocks
             /\ e \in AllBlocks \X AllBlocks
    <2>1. PICK k \in DOMAIN cfg : \E s \in ToSet(RevPreds(k)) : e = <<k, s>>
        BY DEF BlockEdges
    <2> QED  BY <1>5, <2>1 DEF AllBlocks
<1>8. IsFiniteSet(BlockEdges)
    <2>1. BlockEdges \in SUBSET (AllBlocks \X AllBlocks)
        BY <1>7
    <2> QED  BY <1>4, <2>1, FS_Product, FS_Subset
<1>9. RevPreds(VirtualExit) = <<>>
    BY DEF RevPreds
<1> QED  BY <1>3, <1>4, <1>5, <1>6, <1>7, <1>8, <1>9

\* The nodes from which some way leads to an exit.
Live == {b \in AllBlocks : VirtualExit \in ClosureOf({b}, BlockEdges)}

MustPass(b) == {c \in AllBlocks : Inevitable(BlockEdges, VirtualExit, c, b)}

\* Where no exit is reached every block is inevitable, and only there.
LEMMA LiveIs ==
    ASSUME Shape
    PROVE  /\ VirtualExit \in Live /\ Live \subseteq AllBlocks
           /\ \A e \in BlockEdges : e[2] \in Live => e[1] \in Live
           /\ \A b \in DOMAIN cfg : b \in Live => \E s \in ToSet(RevPreds(b)) : s \in Live
           /\ \A b \in AllBlocks : b \notin Live => MustPass(b) = AllBlocks
           /\ \A b \in Live : MustPass(b) \subseteq Live
<1>1. /\ VirtualExit \in AllBlocks /\ VirtualExit \notin DOMAIN cfg /\ IsFiniteSet(BlockEdges)
      /\ \A e \in BlockEdges :
            e[1] \in DOMAIN cfg /\ e[2] \in ToSet(RevPreds(e[1])) /\ e[2] \in AllBlocks
    BY BlockEdgesAre DEF AllBlocks
<1>2. \A b, T : b \in T /\ (\A e \in BlockEdges : e[1] \in T => e[2] \in T)
                  => ClosureOf({b}, BlockEdges) \subseteq T
    BY <1>1, ClosureLeast DEF IsClosed
<1>3. \A b : b \in ClosureOf({b}, BlockEdges)
    BY <1>1, ClosureLeast
<1>4. VirtualExit \in Live /\ Live \subseteq AllBlocks
    BY <1>1, <1>3 DEF Live
<1>5. ASSUME NEW e \in BlockEdges, e[2] \in Live PROVE e[1] \in Live
    <2> DEFINE C == ClosureOf({e[1]}, BlockEdges)
    <2>1. e[1] \in C /\ \A f \in BlockEdges : f[1] \in C => f[2] \in C
        BY <1>1, ClosureLeast DEF IsClosed
    <2> HIDE DEF C
    <2>2. ClosureOf({e[2]}, BlockEdges) \subseteq C
        BY <1>2, <2>1
    <2> QED  BY <1>1, <1>5, <2>2 DEF C, Live, AllBlocks
<1>6. ASSUME NEW b \in DOMAIN cfg, b \in Live
      PROVE  \E s \in ToSet(RevPreds(b)) : s \in Live
    <2> SUFFICES ASSUME \A s \in ToSet(RevPreds(b)) : s \notin Live PROVE FALSE
        OBVIOUS
    <2> DEFINE T == {b} \cup (AllBlocks \ Live)
    <2>1. \A e \in BlockEdges : e[1] \in T => e[2] \in T
        BY <1>1, <1>5
    <2>2. b \in T /\ VirtualExit \notin T
        BY <1>1, <1>4
    <2> HIDE DEF T
    <2>3. VirtualExit \notin ClosureOf({b}, BlockEdges)
        BY <1>2, <2>1, <2>2
    <2> QED  BY <1>6, <2>3 DEF Live
<1>7. ASSUME NEW b \in AllBlocks, b \notin Live PROVE MustPass(b) = AllBlocks
    <2> SUFFICES ASSUME NEW c \in AllBlocks PROVE Inevitable(BlockEdges, VirtualExit, c, b)
        BY DEF MustPass
    <2> DEFINE C == ClosureOf({b}, BlockEdges)
    <2>1. VirtualExit \notin C
        BY <1>7 DEF Live
    <2>2. b \in C /\ \A e \in BlockEdges : e[1] # c /\ e[1] \in C => e[2] \in C
        BY <1>1, ClosureLeast DEF IsClosed
    <2> HIDE DEF C
    <2>3. ClosureOf({b}, Around(BlockEdges, c)) \subseteq C
        BY <1>1, <2>2, AroundLeast
    <2> QED  BY <2>1, <2>3 DEF Inevitable
<1>8. ASSUME NEW b \in Live, NEW c \in MustPass(b) PROVE c \in Live
    <2> SUFFICES ASSUME c \notin Live PROVE FALSE
        OBVIOUS
    <2> DEFINE C == ClosureOf({b}, Around(BlockEdges, c))
               T == C \cup (AllBlocks \ Live)
    <2>1. VirtualExit \notin C /\ c \in AllBlocks
        BY <1>4, <1>8 DEF MustPass, Inevitable
    <2>2. b \in C /\ \A e \in BlockEdges : e[1] # c /\ e[1] \in C => e[2] \in C
        BY <1>1, AroundLeast
    <2> HIDE DEF C
    <2>3. \A e \in BlockEdges : e[1] \in T => e[2] \in T
        BY <1>1, <1>5, <2>1, <2>2
    <2>4. b \in T /\ VirtualExit \notin T
        BY <1>4, <2>1, <2>2
    <2> HIDE DEF T
    <2>5. VirtualExit \notin ClosureOf({b}, BlockEdges)
        BY <1>2, <2>3, <2>4
    <2> QED  BY <2>5 DEF Live
<1> QED  BY <1>4, <1>5, <1>6, <1>7, <1>8

\* From a block that goes on in several ways each of them leads to an exit.
LEMMA ChoicesLive ==
    ASSUME Shape, ChoicesExit(cfg), NEW b \in DOMAIN cfg
    PROVE  /\ b \in Live => ToSet(RevPreds(b)) \subseteq Live
           /\ b \notin Live => Len(RevPreds(b)) < 2
<1> DEFINE E == UNION {{<<j, s>> : s \in ToSet(cfg[j].succs)} : j \in DOMAIN cfg}
<1>1. /\ IsFiniteSet(BlockEdges) /\ VirtualExit \in AllBlocks
      /\ \A k \in DOMAIN cfg :
            /\ IsSequence(RevPreds(k)) /\ ToSet(RevPreds(k)) \subseteq AllBlocks
            /\ ToSet(cfg[k].succs) \subseteq ToSet(RevPreds(k))
            /\ k \in ExitBlocks(cfg) => VirtualExit \in ToSet(RevPreds(k))
            /\ \A s \in ToSet(RevPreds(k)) : <<k, s>> \in BlockEdges
    BY BlockEdgesAre DEF AllBlocks
<1>2. ASSUME NEW k \in DOMAIN cfg, Exits(cfg, k) PROVE k \in Live
    <2> DEFINE C == ClosureOf({k}, BlockEdges)
    <2>1. k \in C /\ \A e \in BlockEdges : e[1] \in C => e[2] \in C
        BY <1>1, ClosureLeast DEF IsClosed
    <2>2. E \in SUBSET BlockEdges
        BY <1>1
    <2>3. IsFiniteSet(E)
        <3> HIDE DEF E
        <3> QED  BY <1>1, <2>2, FS_Subset
    <2>4. PICK x \in ExitBlocks(cfg) : x \in ClosureOf({k}, E)
        BY <1>2 DEF Exits
    <2> HIDE DEF C, E
    <2>5. ClosureOf({k}, E) \subseteq C
        BY <2>1, <2>2, <2>3, ClosureLeast DEF IsClosed
    <2>6. x \in DOMAIN cfg
        BY DEF ExitBlocks
    <2>7. <<x, VirtualExit>> \in BlockEdges
        BY <1>1, <2>6
    <2>8. <<x, VirtualExit>>[1] = x /\ <<x, VirtualExit>>[2] = VirtualExit
        OBVIOUS
    <2>9. VirtualExit \in C
        BY <2>1, <2>4, <2>5, <2>7, <2>8
    <2> QED  BY <2>9 DEF C, Live, AllBlocks
<1> DEFINE Several == Len(cfg[b].succs) > 1 \/ b \in ExitBlocks(cfg)
<1>3. \A s \in ToSet(RevPreds(b)) : s \in Live => b \in Live
    <2> SUFFICES ASSUME NEW s \in ToSet(RevPreds(b)), s \in Live PROVE b \in Live
        OBVIOUS
    <2>1. <<b, s>> \in BlockEdges /\ <<b, s>>[1] = b /\ <<b, s>>[2] = s
        BY <1>1
    <2> QED  BY <2>1, LiveIs
<1>4. IsSequence(cfg[b].succs) /\ ToSet(cfg[b].succs) \subseteq DOMAIN cfg
    BY GraphsAssumption, BlockIs DEF Shape
<1>5. CASE Several
    <2>1. ToSet(RevPreds(b)) \subseteq ToSet(cfg[b].succs) \cup {VirtualExit}
        <3> DEFINE t == IF b \in ExitBlocks(cfg) THEN <<VirtualExit>> ELSE <<>>
        <3>1. IsSequence(t) /\ Items(t) \subseteq {VirtualExit}
            BY EmptyAndSingle
        <3>2. RevPreds(b) = cfg[b].succs \o t
            BY BlockEdgesAre DEF RevPreds
        <3> HIDE DEF t
        <3>3. Items(RevPreds(b)) = Items(cfg[b].succs) \cup Items(t)
            BY <1>4, <3>1, <3>2, ConcatRange
        <3>4. \A s : ToSet(s) = Items(s)
            BY DEF ToSet, Items
        <3> QED  BY <3>1, <3>3, <3>4
    <2>2. \A s \in ToSet(cfg[b].succs) : s \in Live
        BY <1>2, <1>4, <1>5 DEF ChoicesExit
    <2>3. ToSet(RevPreds(b)) \subseteq Live
        BY <2>1, <2>2, LiveIs
    <2>4. ToSet(RevPreds(b)) # {}
        <3>1. CASE b \in ExitBlocks(cfg)
            BY <1>1, <3>1
        <3>2. CASE Len(cfg[b].succs) > 1
            <4>1. 1 \in DOMAIN cfg[b].succs
                BY <1>4, <3>2, SequenceDomain
            <4> QED  BY <1>1, <4>1 DEF ToSet
        <3> QED  BY <1>5, <3>1, <3>2
    <2> QED  BY <1>3, <2>3, <2>4
<1>6. CASE ~ Several
    <2>1. RevPreds(b) = cfg[b].succs
        <3>1. RevPreds(b) = cfg[b].succs \o <<>>
            BY <1>6, BlockEdgesAre DEF RevPreds
        <3> QED  BY <1>4, <3>1, EmptyAndSingle, ConcatItems
    <2>2. Len(RevPreds(b)) \in Nat /\ DOMAIN RevPreds(b) = 1 .. Len(RevPreds(b))
        BY <1>1, SequenceDomain
    <2>3. Len(RevPreds(b)) < 2
        BY <1>6, <2>1, <2>2
    <2>4. \A s, r \in ToSet(RevPreds(b)) : s = r
        <3>1. DOMAIN RevPreds(b) \subseteq {1}
            BY <2>2, <2>3
        <3> QED  BY <3>1 DEF ToSet
    <2> QED  BY <2>3, <2>4, LiveIs
<1> QED  BY <1>5, <1>6

LEMMA MustPassIs ==
    ASSUME Shape
    PROVE  /\ MustPass(VirtualExit) = {VirtualExit}
           /\ \A b \in AllBlocks :
                 MustPass(b) \subseteq AllBlocks /\ b \in MustPass(b) /\ VirtualExit \in MustPass(b)
           /\ \A a, b, c \in AllBlocks : c \in MustPass(b) /\ b \in MustPass(a) => c \in MustPass(a)
           /\ \A b \in Live, c \in AllBlocks : c \in MustPass(b) /\ b \in MustPass(c) => b = c
           /\ \A a \in Live, b, c \in AllBlocks :
                 b \in MustPass(a) /\ c \in MustPass(a) => c \in MustPass(b) \/ b \in MustPass(c)
           /\ \A b \in DOMAIN cfg, c \in AllBlocks : \A s \in ToSet(RevPreds(b)) :
                 c \in MustPass(b) /\ c # b => c \in MustPass(s)
<1>1. IsFiniteSet(BlockEdges)
    BY BlockEdgesAre
<1>2. \A b \in Live : b \in AllBlocks /\ VirtualExit \in ClosureOf({b}, BlockEdges)
    BY DEF Live
<1>3. \A b, c : c \in MustPass(b) <=> c \in AllBlocks /\ Inevitable(BlockEdges, VirtualExit, c, b)
    BY DEF MustPass
<1>4. VirtualExit \in AllBlocks
    BY DEF AllBlocks
<1>5. MustPass(VirtualExit) = {VirtualExit}
    <2>1. VirtualExit \in MustPass(VirtualExit)
        BY <1>3, <1>4 DEF Inevitable
    <2>2. \A c \in MustPass(VirtualExit) : c = VirtualExit
        BY <1>1, <1>3, InevitableExit
    <2> QED  BY <2>1, <2>2
<1>6. \A b \in AllBlocks :
          MustPass(b) \subseteq AllBlocks /\ b \in MustPass(b) /\ VirtualExit \in MustPass(b)
    BY <1>3, <1>4 DEF Inevitable
<1>7. \A a, b, c \in AllBlocks : c \in MustPass(b) /\ b \in MustPass(a) => c \in MustPass(a)
    BY <1>1, <1>3, InevitableTransitive
<1>8. \A b \in Live, c \in AllBlocks : c \in MustPass(b) /\ b \in MustPass(c) => b = c
    BY <1>1, <1>2, <1>3, InevitableAntisymmetric
<1>9. \A a \in Live, b, c \in AllBlocks :
          b \in MustPass(a) /\ c \in MustPass(a) => c \in MustPass(b) \/ b \in MustPass(c)
    BY <1>1, <1>2, <1>3, InevitableChain
<1>10. ASSUME NEW b \in DOMAIN cfg, NEW c \in AllBlocks, NEW s \in ToSet(RevPreds(b)),
              c \in MustPass(b), c # b
       PROVE  c \in MustPass(s)
    <2>1. <<b, s>> \in BlockEdges /\ <<b, s>>[1] = b /\ <<b, s>>[2] = s
        BY BlockEdgesAre
    <2>2. Inevitable(BlockEdges, VirtualExit, c, <<b, s>>[2])
        BY <1>1, <1>3, <1>10, <2>1, InevitableAlong
    <2> QED  BY <1>3, <2>1, <2>2
<1> QED  BY <1>5, <1>6, <1>7, <1>8, <1>9, <1>10

\* There is a way on from every block.
LEMMA WayOut ==
    ASSUME Shape, ChoicesExit(cfg), NEW b \in DOMAIN cfg
    PROVE  RevPreds(b) # <<>>
<1>1. CASE b \in ExitBlocks(cfg)
    <2>1. ToSet(<<>>) = {}
        BY DEF ToSet
    <2> QED  BY <1>1, <2>1, BlockEdgesAre
<1>2. CASE b \notin ExitBlocks(cfg)
    <2>1. cfg[b].succs # <<>> /\ IsSequence(cfg[b].succs)
        BY <1>2, GraphsAssumption, BlockIs DEF ChoicesExit, Shape
    <2>2. RevPreds(b) = cfg[b].succs \o <<>>
        BY <1>2, BlockEdgesAre DEF RevPreds
    <2> QED  BY <2>1, <2>2, EmptyAndSingle, ConcatItems
<1> QED  BY <1>1, <1>2

PdomType == pdom \in [AllBlocks -> SUBSET AllBlocks] /\ pdom[VirtualExit] = {VirtualExit}

PdomAbove == \A b \in AllBlocks : MustPass(b) \subseteq pdom[b]

PdomExact == \A b \in AllBlocks : pdom[b] = MustPass(b)

LEMMA NewDomAbove ==
    ASSUME Shape, ChoicesExit(cfg), PdomType, PdomAbove, NEW b \in DOMAIN cfg
    PROVE  NewDom(b) \subseteq AllBlocks /\ MustPass(b) \subseteq NewDom(b)
<1>1. b \in AllBlocks
    BY DEF AllBlocks
<1>2. NewDom(b) \subseteq AllBlocks
    BY <1>1 DEF NewDom
<1>3. ASSUME NEW c \in MustPass(b), c # b PROVE c \in NewDom(b)
    <2>1. c \in AllBlocks
        BY DEF MustPass
    <2>2. \A s \in ToSet(RevPreds(b)) : s \in AllBlocks /\ c \in MustPass(s)
        BY <1>3, <2>1, BlockEdgesAre, MustPassIs
    <2>3. \A s \in ToSet(RevPreds(b)) : c \in pdom[s]
        BY <2>2 DEF PdomAbove
    <2>4. RevPreds(b) # <<>>
        BY WayOut
    <2> QED  BY <2>1, <2>3, <2>4 DEF NewDom
<1> QED  BY <1>2, <1>3 DEF NewDom

LEMMA FixpointIsExact ==
    ASSUME Shape, PdomType, PdomAbove,
           \A b \in DOMAIN cfg : pdom[b] = NewDom(b)
    PROVE  PdomExact
<1> SUFFICES ASSUME NEW b \in AllBlocks, NEW c \in pdom[b] PROVE c \in MustPass(b)
    BY DEF PdomExact, PdomAbove
<1>1. c \in AllBlocks
    BY DEF PdomType
<1>2. CASE c = VirtualExit
    BY <1>2, MustPassIs
<1>3. CASE c # VirtualExit
    <2> DEFINE T == {y \in AllBlocks : c \in pdom[y]}
    <2>1. VirtualExit \notin T
        BY <1>3 DEF PdomType
    <2>2. ASSUME NEW e \in BlockEdges, e[1] # c, e[1] \in T PROVE e[2] \in T
        <3>1. e[1] \in DOMAIN cfg /\ e[2] \in ToSet(RevPreds(e[1])) /\ e[2] \in AllBlocks
            BY BlockEdgesAre
        <3>2. c \in NewDom(e[1])
            BY <2>2, <3>1
        <3> QED  BY <2>2, <3>1, <3>2 DEF NewDom
    <2>3. b \in T
        OBVIOUS
    <2> HIDE DEF T
    <2>4. ClosureOf({b}, Around(BlockEdges, c)) \subseteq T
        BY <2>2, <2>3, BlockEdgesAre, AroundLeast
    <2> QED  BY <1>1, <2>1, <2>4 DEF MustPass, Inevitable
<1> QED  BY <1>2, <1>3

-----------------------------------------------------------------------------
(* The walks up the tree of immediate post-dominators.                     *)

LEMMA MustPassBack ==
    ASSUME Shape, NEW b \in DOMAIN cfg, NEW c \in AllBlocks,
           \A s \in ToSet(RevPreds(b)) : c \in MustPass(s)
    PROVE  c \in MustPass(b)
<1>1. b \in AllBlocks /\ b # VirtualExit /\ IsFiniteSet(BlockEdges)
    BY BlockEdgesAre DEF AllBlocks
<1>2. CASE c = VirtualExit \/ c = b
    BY <1>1, <1>2, MustPassIs
<1>3. CASE c # VirtualExit /\ c # b
    <2> DEFINE Beyond(s) == ClosureOf({s}, Around(BlockEdges, c))
               U == {b} \cup UNION {Beyond(s) : s \in ToSet(RevPreds(b)) \ {c}}
    <2>1. \A s \in ToSet(RevPreds(b)) \ {c} : VirtualExit \notin Beyond(s)
        BY <1>3 DEF MustPass, Inevitable
    <2>2. VirtualExit \notin U
        BY <1>1, <2>1
    <2>3. ASSUME NEW e \in BlockEdges, e[1] # c, e[1] \in U PROVE e[2] \in U \cup {c}
        <3>1. CASE e[1] = b
            <4>1. e[2] \in ToSet(RevPreds(b))
                BY <3>1, BlockEdgesAre
            <4>2. e[2] \in Beyond(e[2])
                BY <1>1, AroundLeast
            <4> QED  BY <4>1, <4>2
        <3>2. CASE e[1] # b
            <4>1. PICK s \in ToSet(RevPreds(b)) \ {c} : e[1] \in Beyond(s)
                BY <2>3, <3>2
            <4>2. e[2] \in Beyond(s)
                BY <1>1, <2>3, <4>1, AroundLeast
            <4> QED  BY <4>1, <4>2
        <3> QED  BY <3>1, <3>2
    <2>4. b \in U
        OBVIOUS
    <2> HIDE DEF U
    <2> DEFINE T == U \cup {c}
    <2>5. b \in T /\ \A e \in BlockEdges : e[1] # c /\ e[1] \in T => e[2] \in T
        BY <2>3, <2>4
    <2> HIDE DEF T
    <2>6. ClosureOf({b}, Around(BlockEdges, c)) \subseteq T
        BY <1>1, <2>5, AroundLeast
    <2>7. VirtualExit \notin T
        BY <1>3, <2>2 DEF T
    <2> QED  BY <2>6, <2>7 DEF MustPass, Inevitable
<1> QED  BY <1>2, <1>3

\* The strict post-dominators form a chain, and those nearer have more of their
\* own: the one with most of them is the nearest.
LEMMA IpdomIs ==
    ASSUME Shape, PdomExact, NEW b \in DOMAIN cfg, b \in Live
    PROVE  /\ Ipdom(b) \in MustPass(b) /\ Ipdom(b) # b /\ Ipdom(b) \in Live
           /\ \A d \in MustPass(b) : d # b => d \in MustPass(Ipdom(b))
<1> DEFINE cand == pdom[b] \ {b}
           deepest == {c \in cand : \A d \in cand : Cardinality(pdom[d]) <= Cardinality(pdom[c])}
           n == Cardinality(AllBlocks)
<1>1. b \in AllBlocks /\ b # VirtualExit /\ VirtualExit \in AllBlocks
    BY BlockEdgesAre DEF AllBlocks
<1>2. cand = MustPass(b) \ {b} /\ cand \subseteq Live /\ cand \subseteq AllBlocks /\ cand # {}
    BY <1>1, LiveIs, MustPassIs DEF PdomExact
<1>3. IsFiniteSet(AllBlocks) /\ n \in Nat /\ AllBlocks \subseteq Nat
    BY BlockEdgesAre, FS_CardinalityType
<1>4. \A c \in AllBlocks : /\ pdom[c] = MustPass(c) /\ IsFiniteSet(pdom[c])
                           /\ Cardinality(pdom[c]) \in 0 .. n
    <2> SUFFICES ASSUME NEW c \in AllBlocks
                 PROVE  /\ pdom[c] = MustPass(c) /\ IsFiniteSet(pdom[c])
                        /\ Cardinality(pdom[c]) \in 0 .. n
        OBVIOUS
    <2>1. pdom[c] = MustPass(c)
        BY DEF PdomExact
    <2>2. pdom[c] \in SUBSET AllBlocks
        BY <2>1, MustPassIs
    <2>3. IsFiniteSet(pdom[c]) /\ Cardinality(pdom[c]) <= n
        BY <1>3, <2>2, FS_Subset
    <2>4. Cardinality(pdom[c]) \in Nat
        BY <2>3, FS_CardinalityType
    <2> QED  BY <1>3, <2>1, <2>3, <2>4
<1>5. ASSUME NEW c \in AllBlocks, NEW d \in Live, c \in MustPass(d), c # d
      PROVE  Cardinality(pdom[c]) < Cardinality(pdom[d])
    <2>0. d \in AllBlocks
        BY LiveIs
    <2>1. MustPass(c) \subseteq MustPass(d)
        <3>1. MustPass(c) \subseteq AllBlocks
            BY MustPassIs
        <3> QED  BY <1>5, <2>0, <3>1, MustPassIs
    <2>2. d \in MustPass(d) /\ d \notin MustPass(c)
        BY <1>5, <2>0, MustPassIs
    <2>3. pdom[c] \in SUBSET pdom[d] /\ pdom[c] # pdom[d]
        BY <1>4, <2>0, <2>1, <2>2
    <2>4. /\ Cardinality(pdom[c]) <= Cardinality(pdom[d])
          /\ Cardinality(pdom[c]) # Cardinality(pdom[d])
        BY <1>4, <2>0, <2>3, FS_Subset
    <2>5. Cardinality(pdom[c]) \in Int /\ Cardinality(pdom[d]) \in Int
        <3>1. Cardinality(pdom[c]) \in 0 .. n /\ Cardinality(pdom[d]) \in 0 .. n
            BY <1>4, <2>0
        <3> QED  BY <1>3, <3>1
    <2> QED  BY <2>4, <2>5
<1> HIDE DEF n, cand
<1>6. PICK m \in cand : \A d \in cand : Cardinality(pdom[d]) <= Cardinality(pdom[m])
    <2> DEFINE S == {Cardinality(pdom[c]) : c \in cand}
    <2>1. S \subseteq 0 .. n /\ S # {}
        BY <1>2, <1>4
    <2>2. Max(S) \in S /\ \A y \in S : y <= Max(S)
        <3> HIDE DEF S
        <3> QED  BY <1>3, <2>1, MaxMember
    <2>3. PICK m \in cand : Max(S) = Cardinality(pdom[m])
        BY <2>2
    <2> QED  BY <2>2, <2>3
<1>7. ASSUME NEW d \in cand PROVE d \in MustPass(m)
    <2>1. /\ d \in AllBlocks /\ m \in AllBlocks /\ d \in MustPass(b) /\ m \in MustPass(b)
          /\ d \in Live /\ m \in Live
        BY <1>2
    <2>2. d \in MustPass(m) \/ m \in MustPass(d)
        BY <1>1, <2>1, MustPassIs
    <2>3. CASE m = d
        BY <2>1, <2>3, MustPassIs
    <2>4. CASE m # d /\ m \in MustPass(d)
        <3>1. Cardinality(pdom[m]) < Cardinality(pdom[d])
            BY <1>5, <2>1, <2>4
        <3>2. Cardinality(pdom[d]) <= Cardinality(pdom[m])
            BY <1>6
        <3>3. Cardinality(pdom[m]) \in Int /\ Cardinality(pdom[d]) \in Int
            BY <1>3, <1>4, <2>1
        <3> QED  BY <3>1, <3>2, <3>3
    <2> QED  BY <2>2, <2>3, <2>4
<1>8. deepest = {m}
    <2>1. m \in deepest
        BY <1>6
    <2>2. ASSUME NEW d \in deepest, d # m PROVE FALSE
        <3>1. d \in cand /\ Cardinality(pdom[m]) <= Cardinality(pdom[d])
            BY <2>2
        <3>2. d \in MustPass(m) /\ d \in AllBlocks /\ m \in AllBlocks /\ m \in Live
            BY <1>2, <1>7, <3>1
        <3>3. Cardinality(pdom[d]) < Cardinality(pdom[m])
            BY <1>5, <2>2, <3>2
        <3>4. Cardinality(pdom[m]) \in Int /\ Cardinality(pdom[d]) \in Int
            BY <1>3, <1>4, <3>2
        <3> QED  BY <3>1, <3>3, <3>4
    <2> HIDE DEF deepest
    <2> QED  BY <2>1, <2>2
<1>9. Ipdom(b) = m
    <2>1. Ipdom(b) = IF cand = {} THEN None
                     ELSE CHOOSE c \in deepest : \A d \in deepest : c <= d
        BY DEF Ipdom, cand
    <2>2. m <= m
        <3>1. m \in Nat
            BY <1>2, <1>3
        <3> QED  BY <3>1
    <2> HIDE DEF deepest
    <2> QED  BY <1>2, <1>8, <2>1, <2>2
<1> QED  BY <1>2, <1>7, <1>9

\* Control dependence, as ControlDependsOn has it.
Depends(x, c) ==
    /\ x \in DOMAIN cfg /\ c \in DOMAIN cfg
    /\ \E s \in ToSet(RevPreds(c)) : x \in MustPass(s)
    /\ \E s \in ToSet(RevPreds(c)) : x \notin MustPass(s)

\* A block that is avoided on one way out of another, from which an exit can be
\* reached, is avoided from that one, or it is that one.
LEMMA AvoidedIs ==
    ASSUME Shape, ChoicesExit(cfg), NEW c \in DOMAIN cfg, c \in Live, NEW x \in AllBlocks
    PROVE  (\E s \in ToSet(RevPreds(c)) : x \notin MustPass(s)) <=> (x = c \/ x \notin MustPass(c))
<1>1. /\ c # VirtualExit /\ c \in AllBlocks /\ IsFiniteSet(BlockEdges)
      /\ \A e \in BlockEdges : e[1] \in DOMAIN cfg /\ e[2] \in ToSet(RevPreds(e[1]))
    BY BlockEdgesAre DEF AllBlocks
<1>2. CASE x # c
    <2>1. x \in MustPass(c) => \A s \in ToSet(RevPreds(c)) : x \in MustPass(s)
        BY <1>2, MustPassIs
    <2>2. (\A s \in ToSet(RevPreds(c)) : x \in MustPass(s)) => x \in MustPass(c)
        BY MustPassBack
    <2> QED  BY <1>2, <2>1, <2>2
<1>3. CASE x = c
    <2> SUFFICES ASSUME \A s \in ToSet(RevPreds(c)) : c \in MustPass(s) PROVE FALSE
        BY <1>3
    <2> DEFINE Beyond(s) == ClosureOf({s}, Around(BlockEdges, c))
               U == {c} \cup UNION {Beyond(s) : s \in ToSet(RevPreds(c)) \ {c}}
    <2>1. \A s \in ToSet(RevPreds(c)) \ {c} : VirtualExit \notin Beyond(s)
        BY <1>1 DEF MustPass, Inevitable
    <2>2. VirtualExit \notin U
        BY <1>1, <2>1
    <2>3. ASSUME NEW e \in BlockEdges, e[1] \in U PROVE e[2] \in U
        <3>1. CASE e[1] = c
            <4>1. e[2] \in ToSet(RevPreds(c))
                BY <1>1, <3>1
            <4>2. e[2] \in Beyond(e[2])
                BY <1>1, AroundLeast
            <4> QED  BY <4>1, <4>2
        <3>2. CASE e[1] # c
            <4>1. PICK s \in ToSet(RevPreds(c)) \ {c} : e[1] \in Beyond(s)
                BY <2>3, <3>2
            <4>2. e[2] \in Beyond(s)
                BY <1>1, <3>2, <4>1, AroundLeast
            <4> QED  BY <4>1, <4>2
        <3> QED  BY <3>1, <3>2
    <2>4. c \in U
        OBVIOUS
    <2> HIDE DEF U
    <2>5. ClosureOf({c}, BlockEdges) \subseteq U
        BY <1>1, <2>3, <2>4, ClosureLeast DEF IsClosed
    <2> QED  BY <2>2, <2>5 DEF Live
<1> QED  BY <1>2, <1>3

\* Neither a block that depends on another nor that one is a trap.
LEMMA DependsIsLive ==
    ASSUME Shape, ChoicesExit(cfg), NEW x, NEW c, Depends(x, c)
    PROVE  x \in Live /\ c \in Live /\ ToSet(RevPreds(c)) \subseteq Live
<1>1. x \in AllBlocks /\ c \in DOMAIN cfg /\ ToSet(RevPreds(c)) \subseteq AllBlocks
    BY BlockEdgesAre DEF Depends, AllBlocks
<1>2. PICK s \in ToSet(RevPreds(c)) : x \notin MustPass(s)
    BY DEF Depends
<1>3. s \in Live
    BY <1>1, <1>2, LiveIs
<1>4. c \in Live
    <2>1. <<c, s>> \in BlockEdges /\ <<c, s>>[1] = c /\ <<c, s>>[2] = s
        BY <1>1, BlockEdgesAre
    <2> QED  BY <1>3, <2>1, LiveIs
<1>5. ToSet(RevPreds(c)) \subseteq Live
    BY <1>1, <1>4, ChoicesLive
<1>6. PICK r \in ToSet(RevPreds(c)) : x \in MustPass(r)
    BY DEF Depends
<1> QED  BY <1>4, <1>5, <1>6, LiveIs

\* A walk is between a successor of its block and the block's immediate
\* post-dominator.
WalkIs(w) ==
    /\ w = [block |-> w.block, runner |-> w.runner]
    /\ w.block \in DOMAIN cfg /\ w.block \in Live /\ w.runner \in Live
    /\ \E s \in ToSet(RevPreds(w.block)) : w.runner \in MustPass(s)
    /\ Ipdom(w.block) \in MustPass(w.runner)

LEMMA WalkBegins ==
    ASSUME Shape, ChoicesExit(cfg), PdomExact,
           NEW c \in DOMAIN cfg, c \in Live, NEW s \in ToSet(RevPreds(c))
    PROVE  WalkIs([block |-> c, runner |-> s])
<1>1. s \in Live /\ s \in AllBlocks
    BY ChoicesLive, BlockEdgesAre
<1>2. s \in MustPass(s) /\ Ipdom(c) \in MustPass(s)
    <2>1. Ipdom(c) \in MustPass(c) /\ Ipdom(c) # c /\ Ipdom(c) \in AllBlocks
        BY IpdomIs, LiveIs
    <2> QED  BY <1>1, <2>1, MustPassIs
<1> QED  BY <1>1, <1>2 DEF WalkIs

LEMMA WalkGoesOn ==
    ASSUME Shape, ChoicesExit(cfg), PdomExact, NEW w, WalkIs(w), w.runner # Ipdom(w.block)
    PROVE  /\ w.runner \in DOMAIN cfg /\ w.runner # None
           /\ Depends(w.runner, w.block)
           /\ WalkIs([w EXCEPT !.runner = Ipdom(w.runner)])
<1> DEFINE r == w.runner
           i == Ipdom(w.block)
<1>1. /\ w.block \in DOMAIN cfg /\ w.block \in AllBlocks /\ r \in AllBlocks
      /\ w.block \in Live /\ r \in Live
      /\ i \in MustPass(r) /\ i # r
    BY LiveIs DEF WalkIs
<1>2. PICK s \in ToSet(RevPreds(w.block)) : r \in MustPass(s)
    BY DEF WalkIs
<1>3. s \in AllBlocks
    BY <1>1, BlockEdgesAre
<1>4. r \in DOMAIN cfg /\ r # None
    <2>1. r # VirtualExit
        BY <1>1, MustPassIs
    <2>2. r \in Nat
        BY <1>1, BlockEdgesAre
    <2> QED  BY <1>1, <2>1, <2>2 DEF AllBlocks, None
<1>5. i \in MustPass(w.block) /\ i # w.block /\ i \in Live /\ i \in AllBlocks
      /\ \A d \in MustPass(w.block) : d # w.block => d \in MustPass(i)
    BY <1>1, IpdomIs, LiveIs
<1>6. r = w.block \/ r \notin MustPass(w.block)
    BY <1>1, <1>5, MustPassIs
<1>7. Depends(r, w.block)
    BY <1>1, <1>2, <1>4, <1>6, AvoidedIs DEF Depends
<1>8. /\ Ipdom(r) \in MustPass(r) /\ Ipdom(r) \in Live /\ Ipdom(r) \in AllBlocks
      /\ i \in MustPass(Ipdom(r))
    BY <1>1, <1>4, IpdomIs, LiveIs
<1>9. Ipdom(r) \in MustPass(s)
    BY <1>1, <1>2, <1>3, <1>8, MustPassIs
<1> DEFINE v == [w EXCEPT !.runner = Ipdom(w.runner)]
<1>10. v = [block |-> w.block, runner |-> Ipdom(r)]
    <2>1. w = [block |-> w.block, runner |-> w.runner]
        BY DEF WalkIs
    <2>2. \A a, b, c : [[block |-> a, runner |-> b] EXCEPT !.runner = c]
                          = [block |-> a, runner |-> c]
        OBVIOUS
    <2> QED  BY <2>1, <2>2
<1>11. v.block = w.block /\ v.runner = Ipdom(r)
    BY <1>10
<1> HIDE DEF v, r, i
<1>12. WalkIs(v)
    BY <1>1, <1>8, <1>9, <1>10, <1>11 DEF WalkIs, i
<1> QED  BY <1>4, <1>7, <1>12 DEF v, r

\* The walk still has to meet every block that depends on its own and comes later.
LEMMA WalkMeets ==
    ASSUME Shape, ChoicesExit(cfg), PdomExact, NEW w, WalkIs(w),
           NEW x, Depends(x, w.block), x \in MustPass(w.runner)
    PROVE  /\ w.runner # Ipdom(w.block)
           /\ x = w.runner \/ x \in MustPass(Ipdom(w.runner))
<1>1. /\ w.block \in DOMAIN cfg /\ w.block \in AllBlocks /\ x \in AllBlocks
      /\ w.block \in Live /\ w.runner \in Live
      /\ x = w.block \/ x \notin MustPass(w.block)
    BY AvoidedIs DEF WalkIs, Depends, AllBlocks
<1>2. w.runner # Ipdom(w.block)
    <2> SUFFICES ASSUME w.runner = Ipdom(w.block) PROVE FALSE
        OBVIOUS
    <2>1. /\ Ipdom(w.block) \in MustPass(w.block) /\ Ipdom(w.block) # w.block
          /\ Ipdom(w.block) \in AllBlocks
        BY <1>1, IpdomIs, LiveIs
    <2>2. x \in MustPass(w.block)
        BY <1>1, <2>1, MustPassIs
    <2> QED  BY <1>1, <2>1, <2>2, MustPassIs
<1>3. w.runner \in DOMAIN cfg
    BY <1>2, WalkGoesOn
<1>4. x = w.runner \/ x \in MustPass(Ipdom(w.runner))
    BY <1>1, <1>3, IpdomIs
<1> QED  BY <1>2, <1>4

\* A block on which another depends leads to two places.
LEMMA DependsOnChoice ==
    ASSUME Shape, NEW x, NEW c, Depends(x, c)
    PROVE  Len(RevPreds(c)) \in Nat /\ ~ (Len(RevPreds(c)) < 2)
<1>1. IsSequence(RevPreds(c))
    BY BlockEdgesAre DEF Depends
<1>2. Len(RevPreds(c)) \in Nat /\ DOMAIN RevPreds(c) = 1 .. Len(RevPreds(c))
    BY <1>1, SequenceDomain
<1>3. PICK i, j \in DOMAIN RevPreds(c) : RevPreds(c)[i] # RevPreds(c)[j]
    BY DEF Depends, ToSet
<1> QED  BY <1>2, <1>3

-----------------------------------------------------------------------------
(* The frontiers.                                                          *)

WalksOk == IsSequence(walks) /\ \A w \in Items(walks) : WalkIs(w)

FrontiersSound ==
    /\ pdf \in [AllBlocks -> SUBSET DOMAIN cfg]
    /\ \A x \in AllBlocks : \A c \in pdf[x] : Depends(x, c)

\* What is still missing from a frontier is on the way of a walk.
FrontiersCovered ==
    \A x, c \in DOMAIN cfg : Depends(x, c) =>
        \/ c \in pdf[x]
        \/ \E w \in Items(walks) : w.block = c /\ x \in MustPass(w.runner)

FrontiersExact == \A x \in DOMAIN cfg : pdf[x] = {c \in DOMAIN cfg : Depends(x, c)}

HaveFrontiers == phase = "control" \/ (phase = "done" /\ keepControl /\ ExitBlocks(cfg) # {})

DomInv ==
    /\ keepControl \in KeepControl
    /\ phase \in {"pdom", "frontier", "control"} => keepControl
    /\ phase = "pdom" =>
          /\ PdomType /\ PdomAbove
          /\ ~ changed => \A b \in DOMAIN cfg : b < next => pdom[b] = NewDom(b)
    /\ phase = "frontier" => PdomExact /\ WalksOk /\ FrontiersSound /\ FrontiersCovered
    /\ HaveFrontiers => FrontiersExact

LEMMA GraphUnchanged ==
    ASSUME cfg' = cfg
    PROVE  /\ VirtualExit' = VirtualExit /\ AllBlocks' = AllBlocks /\ BlockEdges' = BlockEdges
           /\ ExitBlocks(cfg)' = ExitBlocks(cfg)
           /\ Live' = Live
           /\ \A b : RevPreds(b)' = RevPreds(b) /\ MustPass(b)' = MustPass(b)
           /\ \A x, c : Depends(x, c)' <=> Depends(x, c)
           /\ pdom' = pdom => \A b : Ipdom(b)' = Ipdom(b) /\ NewDom(b)' = NewDom(b)
           /\ pdom' = pdom => \A w : WalkIs(w)' <=> WalkIs(w)
           /\ pdom' = pdom => (PdomExact' <=> PdomExact)
           /\ pdf' = pdf => (FrontiersExact' <=> FrontiersExact)
<1>1. VirtualExit' = VirtualExit /\ AllBlocks' = AllBlocks
    BY DEF VirtualExit, AllBlocks
<1>2. ExitBlocks(cfg)' = ExitBlocks(cfg)
    OBVIOUS
<1>3. \A b : RevPreds(b)' = RevPreds(b)
    BY <1>1, <1>2 DEF RevPreds
<1>4. BlockEdges' = BlockEdges
    BY <1>3 DEF BlockEdges
<1>5. Live' = Live /\ \A b : MustPass(b)' = MustPass(b)
    BY <1>1, <1>4 DEF Live, MustPass
<1>6. \A x, c : Depends(x, c)' <=> Depends(x, c)
    BY <1>3, <1>5 DEF Depends
<1>7. ASSUME pdom' = pdom PROVE \A b : Ipdom(b)' = Ipdom(b) /\ NewDom(b)' = NewDom(b)
    BY <1>1, <1>3, <1>7 DEF Ipdom, NewDom
<1>8. ASSUME pdom' = pdom PROVE \A w : WalkIs(w)' <=> WalkIs(w)
    BY <1>1, <1>3, <1>5, <1>7, <1>8 DEF WalkIs
<1>9. ASSUME pdom' = pdom PROVE PdomExact' <=> PdomExact
    BY <1>1, <1>5, <1>9 DEF PdomExact
<1>10. ASSUME pdf' = pdf PROVE FrontiersExact' <=> FrontiersExact
    BY <1>6, <1>10 DEF FrontiersExact
<1> QED  BY <1>1, <1>2, <1>3, <1>4, <1>5, <1>6, <1>7, <1>8, <1>9, <1>10

\* Every block that depends on another is on the way of a walk from that one.
LEMMA WalksStart ==
    ASSUME Shape, ChoicesExit(cfg), PdomExact,
           NEW ws, ws = FlattenSeq([k \in 1 .. Cardinality(DOMAIN cfg) |-> Runners(k - 1)])
    PROVE  /\ IsSequence(ws) /\ \A w \in Items(ws) : WalkIs(w)
           /\ \A x, c : Depends(x, c) =>
                 \E w \in Items(ws) : w.block = c /\ x \in MustPass(w.runner)
<1> DEFINE n == Cardinality(DOMAIN cfg)
           S == [block : DOMAIN cfg, runner : AllBlocks]
           ss == [k \in 1 .. n |-> Runners(k - 1)]
<1>1. n \in Nat /\ DOMAIN cfg = 0 .. n - 1
    BY GraphsAssumption DEF Shape, IsCfg
<1> HIDE DEF n
<1>2. ASSUME NEW b \in DOMAIN cfg
      PROVE  /\ Runners(b) \in Seq(S)
             /\ \A w \in Items(Runners(b)) :
                   \E s \in ToSet(RevPreds(b)) : w = [block |-> b, runner |-> s]
             /\ ~ (Len(RevPreds(b)) < 2) => \A s \in ToSet(RevPreds(b)) :
                   [block |-> b, runner |-> s] \in Items(Runners(b))
    <2>1. CASE Len(RevPreds(b)) < 2
        <3>1. Runners(b) = <<>>
            BY <2>1 DEF Runners
        <3> QED  BY <2>1, <3>1, EmptyAndSingle, EmptySeq
    <2>2. CASE ~ (Len(RevPreds(b)) < 2)
        <3> DEFINE rp == RevPreds(b)
                   m == Len(rp)
                   t == [i \in 1 .. m |-> [block |-> b, runner |-> rp[i]]]
        <3>1. IsSequence(rp) /\ ToSet(rp) \subseteq AllBlocks
            BY BlockEdgesAre
        <3>2. m \in Nat /\ DOMAIN rp = 1 .. m
            BY <3>1, SequenceDomain
        <3>3. Runners(b) = t
            BY <2>2, <3>2 DEF Runners
        <3>4. \A i \in 1 .. m : rp[i] \in ToSet(rp)
            BY <3>2 DEF ToSet
        <3>5. \A s \in ToSet(rp) : \E i \in 1 .. m : s = rp[i]
            BY <3>2 DEF ToSet
        <3> HIDE DEF rp, m
        <3>6. t \in [1 .. m -> S]
            BY <3>1, <3>4
        <3>7. t \in Seq(S) /\ DOMAIN t = 1 .. m
            BY <3>2, <3>6, SeqDef
        <3>8. \A w \in Items(t) : \E s \in ToSet(rp) : w = [block |-> b, runner |-> s]
            BY <3>4 DEF Items
        <3>9. \A s \in ToSet(rp) : [block |-> b, runner |-> s] \in Items(t)
            BY <3>5 DEF Items
        <3> HIDE DEF t, S
        <3> QED  BY <3>3, <3>7, <3>8, <3>9 DEF rp
    <2> QED  BY <2>1, <2>2
<1>3. \A k \in 1 .. n : k - 1 \in DOMAIN cfg
    BY <1>1
<1>4. \A b \in DOMAIN cfg : b + 1 \in 1 .. n /\ (b + 1) - 1 = b
    BY <1>1
<1>5. ss \in Seq(Seq(S)) /\ DOMAIN ss = 1 .. n
    <2>1. ss \in [1 .. n -> Seq(S)]
        BY <1>2, <1>3
    <2> HIDE DEF ss, S
    <2> QED  BY <1>1, <2>1, SeqDef
<1>6. ws \in Seq(S) /\ Items(ws) = UNION {Items(ss[k]) : k \in DOMAIN ss}
    <2>1. ws = FlattenSeq(ss)
        BY DEF n
    <2> HIDE DEF ss, S
    <2> QED  BY <1>5, <2>1, FlattenItems
<1>7. IsSequence(ws)
    <2> HIDE DEF S
    <2> QED  BY <1>6, SequenceIs
<1>8. ASSUME NEW w \in Items(ws) PROVE WalkIs(w)
    <2>1. PICK k \in 1 .. n : w \in Items(Runners(k - 1))
        BY <1>5, <1>6
    <2>2. PICK s \in ToSet(RevPreds(k - 1)) : w = [block |-> k - 1, runner |-> s]
        BY <1>2, <1>3, <2>1
    <2>3. k - 1 \in DOMAIN cfg
        BY <1>3
    <2>4. k - 1 \in Live
        <3>1. CASE Len(RevPreds(k - 1)) < 2
            <4>1. Items(Runners(k - 1)) = {}
                BY <3>1, EmptyAndSingle DEF Runners
            <4> QED  BY <2>1, <4>1
        <3>2. CASE ~ (Len(RevPreds(k - 1)) < 2)
            BY <2>3, <3>2, ChoicesLive
        <3> QED  BY <3>1, <3>2
    <2> QED  BY <2>2, <2>3, <2>4, WalkBegins
<1>9. ASSUME NEW x, NEW c, Depends(x, c)
      PROVE  \E w \in Items(ws) : w.block = c /\ x \in MustPass(w.runner)
    <2>1. c \in DOMAIN cfg /\ ~ (Len(RevPreds(c)) < 2)
        BY <1>9, DependsOnChoice DEF Depends
    <2>2. PICK s \in ToSet(RevPreds(c)) : x \in MustPass(s)
        BY <1>9 DEF Depends
    <2> DEFINE w == [block |-> c, runner |-> s]
    <2>3. w \in Items(Runners(c))
        BY <1>2, <2>1, <2>2
    <2>4. ss[c + 1] = Runners(c) /\ c + 1 \in 1 .. n
        BY <1>4, <2>1
    <2>5. w \in Items(ws)
        <3> HIDE DEF ss, w
        <3> QED  BY <1>5, <1>6, <2>3, <2>4
    <2>6. w.block = c /\ w.runner = s
        OBVIOUS
    <2> QED  BY <2>2, <2>5, <2>6
<1> QED  BY <1>7, <1>8, <1>9

LEMMA PdomBlockStep ==
    ASSUME IInv, ChoicesExit(cfg), DomInv, PdomBlock
    PROVE  DomInv'
<1>1. /\ phase = "pdom" /\ phase' = "pdom" /\ next \in DOMAIN cfg /\ next' = next + 1
      /\ pdom' = [pdom EXCEPT ![next] = NewDom(next)]
      /\ changed' = (changed \/ NewDom(next) # pdom[next])
      /\ cfg' = cfg /\ keepControl' = keepControl
    BY DEF PdomBlock, inputs
<1>2. PdomType /\ PdomAbove
    BY <1>1 DEF DomInv
<1>3. /\ NewDom(next) \subseteq AllBlocks /\ MustPass(next) \subseteq NewDom(next)
    BY <1>1, <1>2, NewDomAbove DEF IInv
<1>4. next \in AllBlocks /\ next # VirtualExit /\ VirtualExit \in AllBlocks
      /\ DOMAIN cfg \subseteq AllBlocks
    BY <1>1, BlockEdgesAre DEF IInv, AllBlocks
<1>5. /\ VirtualExit' = VirtualExit /\ AllBlocks' = AllBlocks
      /\ \A b : MustPass(b)' = MustPass(b)
    BY <1>1, GraphUnchanged
<1>6. /\ pdom' \in [AllBlocks -> SUBSET AllBlocks]
      /\ \A b \in AllBlocks : pdom'[b] = IF b = next THEN NewDom(next) ELSE pdom[b]
    BY <1>1, <1>2, <1>3, <1>4 DEF PdomType
<1>7. PdomType' /\ PdomAbove'
    BY <1>2, <1>3, <1>4, <1>5, <1>6 DEF PdomType, PdomAbove
<1>8. ASSUME ~ changed', NEW b \in DOMAIN cfg, b < next' PROVE pdom'[b] = NewDom(b)'
    <2>1. ~ changed /\ NewDom(next) = pdom[next]
        BY <1>1, <1>8
    <2>2. pdom' = pdom
        BY <1>1, <1>2, <2>1 DEF PdomType
    <2>3. NewDom(b)' = NewDom(b)
        BY <1>1, <2>2, GraphUnchanged
    <2>4. b = next \/ b < next
        <3>1. b \in Nat /\ next \in Nat
            BY <1>1, <1>4, BlockEdgesAre DEF IInv
        <3> QED  BY <1>1, <1>8, <3>1
    <2> QED  BY <1>1, <2>1, <2>2, <2>3, <2>4 DEF DomInv
<1> QED  BY <1>1, <1>7, <1>8 DEF DomInv, HaveFrontiers

LEMMA PdomDoneStep ==
    ASSUME IInv, ChoicesExit(cfg), DomInv, PdomDone
    PROVE  DomInv'
<1>1. /\ phase = "pdom" /\ phase' = "frontier" /\ next \notin DOMAIN cfg /\ ~ changed
      /\ pdf' = [b \in AllBlocks |-> {}]
      /\ walks' = FlattenSeq([k \in 1 .. Cardinality(DOMAIN cfg) |-> Runners(k - 1)])
      /\ cfg' = cfg /\ keepControl' = keepControl /\ pdom' = pdom
    BY DEF PdomDone, inputs
<1>2. /\ PdomType /\ PdomAbove
      /\ \A b \in DOMAIN cfg : b < next => pdom[b] = NewDom(b)
    BY <1>1 DEF DomInv
<1>3. \A b \in DOMAIN cfg : b < next
    <2>1. PICK n \in Nat : DOMAIN cfg = 0 .. n - 1
        BY GraphsAssumption DEF IInv, Shape, IsCfg
    <2>2. next \in Nat
        BY DEF IInv, TypeOK
    <2> QED  BY <1>1, <2>1, <2>2
<1>4. PdomExact
    BY <1>2, <1>3, FixpointIsExact DEF IInv
<1>5. /\ IsSequence(walks') /\ \A w \in Items(walks') : WalkIs(w)
      /\ \A x, c : Depends(x, c) =>
            \E w \in Items(walks') : w.block = c /\ x \in MustPass(w.runner)
    BY <1>1, <1>4, WalksStart DEF IInv
<1>6. /\ AllBlocks' = AllBlocks
      /\ \A b : MustPass(b)' = MustPass(b)
      /\ \A x, c : Depends(x, c)' <=> Depends(x, c)
      /\ \A w : WalkIs(w)' <=> WalkIs(w)
      /\ PdomExact'
    BY <1>1, <1>4, GraphUnchanged
<1>7. WalksOk'
    BY <1>5, <1>6 DEF WalksOk
<1>8. FrontiersSound'
    BY <1>1, <1>6 DEF FrontiersSound
<1>9. FrontiersCovered'
    BY <1>5, <1>6 DEF FrontiersCovered
<1> QED  BY <1>1, <1>6, <1>7, <1>8, <1>9 DEF DomInv, HaveFrontiers

LEMMA HeadAndTail ==
    ASSUME NEW s, IsSequence(s), s # <<>>
    PROVE  /\ IsSequence(Tail(s)) /\ Items(s) = {Head(s)} \cup Items(Tail(s))
           /\ \A v : /\ IsSequence(<<v>> \o Tail(s))
                     /\ Items(<<v>> \o Tail(s)) = {v} \cup Items(Tail(s))
<1>1. /\ Head(s) = s[1] /\ Len(s) \in Nat \ {0}
      /\ IsSequence(Tail(s)) /\ DOMAIN Tail(s) = 1 .. Len(s) - 1
      /\ \A k \in 1 .. Len(s) - 1 : Tail(s)[k] = s[k + 1]
    BY TailItems
<1>2. DOMAIN s = 1 .. Len(s)
    BY SequenceDomain
<1>3. \A k \in 1 .. Len(s) : k = 1 \/ (k - 1 \in 1 .. Len(s) - 1 /\ (k - 1) + 1 = k)
    BY <1>1
<1>4. 1 \in 1 .. Len(s) /\ \A k \in 1 .. Len(s) - 1 : k + 1 \in 1 .. Len(s)
    BY <1>1
<1>5. Items(s) \subseteq {Head(s)} \cup Items(Tail(s))
    <2> SUFFICES ASSUME NEW k \in 1 .. Len(s) PROVE s[k] \in {Head(s)} \cup Items(Tail(s))
        BY <1>2 DEF Items
    <2>1. CASE k = 1
        BY <1>1, <2>1
    <2>2. CASE k - 1 \in 1 .. Len(s) - 1 /\ (k - 1) + 1 = k
        <3>1. Tail(s)[k - 1] = s[k] /\ k - 1 \in DOMAIN Tail(s)
            BY <1>1, <2>2
        <3> QED  BY <3>1 DEF Items
    <2> QED  BY <1>3, <2>1, <2>2
<1>6. {Head(s)} \cup Items(Tail(s)) \subseteq Items(s)
    BY <1>1, <1>2, <1>4 DEF Items
<1>7. ASSUME NEW v
      PROVE  /\ IsSequence(<<v>> \o Tail(s))
             /\ Items(<<v>> \o Tail(s)) = {v} \cup Items(Tail(s))
    <2>1. IsSequence(<<v>>) /\ Items(<<v>>) = {v}
        BY EmptyAndSingle
    <2>2. IsSequence(<<v>> \o Tail(s))
        BY <1>1, <2>1, ConcatItems DEF Joins
    <2> QED  BY <1>1, <2>1, <2>2, ConcatRange
<1> QED  BY <1>1, <1>5, <1>6, <1>7

LEMMA FrontierStepKeeps ==
    ASSUME IInv, ChoicesExit(cfg), DomInv, FrontierStep
    PROVE  DomInv'
<1> DEFINE w == Head(walks)
           r == w.runner
           v == [w EXCEPT !.runner = Ipdom(w.runner)]
<1>1. /\ phase = "frontier" /\ phase' = "frontier" /\ walks # <<>>
      /\ cfg' = cfg /\ keepControl' = keepControl /\ pdom' = pdom
    BY DEF FrontierStep, inputs
<1>2. IF RunnerStops(w) THEN walks' = Tail(walks) /\ pdf' = pdf
      ELSE /\ pdf' = [pdf EXCEPT ![r] = @ \cup {w.block}]
           /\ walks' = <<v>> \o Tail(walks)
    BY DEF FrontierStep
<1>3. PdomExact /\ WalksOk /\ FrontiersSound /\ FrontiersCovered
    BY <1>1 DEF DomInv
<1>4. /\ AllBlocks' = AllBlocks
      /\ \A b : MustPass(b)' = MustPass(b)
      /\ \A x, c : Depends(x, c)' <=> Depends(x, c)
      /\ \A u : WalkIs(u)' <=> WalkIs(u)
      /\ PdomExact'
    BY <1>1, <1>3, GraphUnchanged
<1>5. /\ IsSequence(Tail(walks)) /\ Items(walks) = {w} \cup Items(Tail(walks))
      /\ IsSequence(<<v>> \o Tail(walks))
      /\ Items(<<v>> \o Tail(walks)) = {v} \cup Items(Tail(walks))
    <2> HIDE DEF v
    <2> QED  BY <1>1, <1>3, HeadAndTail DEF WalksOk
<1>6. WalkIs(w) /\ \A u \in Items(Tail(walks)) : WalkIs(u)
    BY <1>3, <1>5 DEF WalksOk
<1>7. r # None
    <2>1. r \in AllBlocks
        BY <1>6, LiveIs DEF WalkIs, IInv
    <2> QED  BY <2>1, BlockEdgesAre DEF IInv, None
<1> HIDE DEF w
<1>8. CASE RunnerStops(w)
    <2>1. r = Ipdom(w.block)
        BY <1>7, <1>8 DEF RunnerStops
    <2>2. walks' = Tail(walks) /\ pdf' = pdf
        BY <1>2, <1>8
    <2>3. WalksOk'
        BY <1>4, <1>5, <1>6, <2>2 DEF WalksOk
    <2>4. FrontiersSound'
        BY <1>1, <1>3, <1>4, <2>2 DEF FrontiersSound
    <2>5. FrontiersCovered'
        <3> SUFFICES ASSUME NEW x, NEW c, Depends(x, c)
                     PROVE  \/ c \in pdf[x]
                            \/ \E u \in Items(Tail(walks)) : u.block = c /\ x \in MustPass(u.runner)
            BY <1>4, <2>2 DEF FrontiersCovered
        <3>1. ~ (w.block = c /\ x \in MustPass(w.runner))
            BY <1>3, <1>6, <2>1, WalkMeets DEF IInv
        <3>2. x \in DOMAIN cfg /\ c \in DOMAIN cfg
            BY DEF Depends
        <3> QED  BY <1>3, <1>5, <3>1, <3>2 DEF FrontiersCovered
    <2> QED  BY <1>1, <1>4, <2>3, <2>4, <2>5 DEF DomInv, HaveFrontiers
<1>9. CASE ~ RunnerStops(w)
    <2>1. r # Ipdom(w.block)
        BY <1>9 DEF RunnerStops
    <2>2. r \in DOMAIN cfg /\ Depends(r, w.block) /\ WalkIs(v)
        BY <1>3, <1>6, <2>1, WalkGoesOn DEF IInv
    <2>3. pdf' = [pdf EXCEPT ![r] = @ \cup {w.block}] /\ walks' = <<v>> \o Tail(walks)
        BY <1>2, <1>9
    <2>4. v.block = w.block /\ v.runner = Ipdom(r)
        <3>1. w = [block |-> w.block, runner |-> w.runner]
            BY <1>6 DEF WalkIs
        <3>2. \A a, b, c : [[block |-> a, runner |-> b] EXCEPT !.runner = c]
                              = [block |-> a, runner |-> c]
            OBVIOUS
        <3>3. v = [block |-> w.block, runner |-> Ipdom(r)]
            BY <3>1, <3>2
        <3> QED  BY <3>3
    <2> HIDE DEF v, r
    <2>5. WalksOk'
        BY <1>4, <1>5, <1>6, <2>2, <2>3 DEF WalksOk
    <2>6. /\ r \in AllBlocks /\ w.block \in DOMAIN cfg
          /\ pdf' \in [AllBlocks -> SUBSET DOMAIN cfg]
          /\ \A x \in AllBlocks : pdf'[x] = IF x = r THEN pdf[x] \cup {w.block} ELSE pdf[x]
        <3>1. r \in AllBlocks /\ w.block \in DOMAIN cfg
            BY <2>2 DEF AllBlocks, Depends
        <3> QED  BY <1>3, <2>3, <3>1 DEF FrontiersSound
    <2>7. FrontiersSound'
        BY <1>1, <1>3, <1>4, <2>2, <2>6 DEF FrontiersSound
    <2>8. FrontiersCovered'
        <3> SUFFICES ASSUME NEW x, NEW c, Depends(x, c)
                     PROVE  \/ c \in pdf'[x]
                            \/ \E u \in {v} \cup Items(Tail(walks)) :
                                  u.block = c /\ x \in MustPass(u.runner)
            BY <1>4, <1>5, <2>3 DEF FrontiersCovered
        <3>1. x \in AllBlocks /\ x \in DOMAIN cfg /\ c \in DOMAIN cfg
            BY DEF Depends, AllBlocks
        <3>2. CASE c \in pdf[x]
            BY <2>6, <3>1, <3>2
        <3>3. CASE \E u \in Items(Tail(walks)) : u.block = c /\ x \in MustPass(u.runner)
            BY <3>3
        <3>4. CASE w.block = c /\ x \in MustPass(w.runner)
            <4>1. x = w.runner \/ x \in MustPass(Ipdom(w.runner))
                BY <1>3, <1>6, <3>4, WalkMeets DEF IInv
            <4> QED  BY <2>4, <2>6, <3>1, <3>4, <4>1 DEF r
        <3> QED  BY <1>3, <1>5, <3>1, <3>2, <3>3, <3>4 DEF FrontiersCovered
    <2> QED  BY <1>1, <1>4, <2>5, <2>7, <2>8 DEF DomInv, HaveFrontiers
<1> QED  BY <1>8, <1>9

-----------------------------------------------------------------------------
\* Where control dependencies are kept, every choice leads to an exit.
ExitsReached == TRUE \in KeepControl => \A g \in Graphs : ChoicesExit(g)

LEMMA ExitsOf ==
    ASSUME ExitsReached, Shape, DomInv, keepControl
    PROVE  ChoicesExit(cfg)
BY DEF ExitsReached, Shape, DomInv

\* Steps that touch neither the dominators nor the frontiers.
LEMMA DominanceUnchanged ==
    ASSUME DomInv, UNCHANGED <<inputs, pdf>>,
           \/ UNCHANGED <<phase, next, changed, pdom, walks>>
           \/ phase' \in {"reach", "data"}
           \/ phase' = "done" /\ ~ (keepControl /\ ExitBlocks(cfg) # {})
           \/ phase = "control" /\ phase' \in {"control", "done"}
    PROVE  DomInv'
<1>1. cfg' = cfg /\ keepControl' = keepControl
    BY DEF inputs
<1>2. /\ ExitBlocks(cfg)' = ExitBlocks(cfg)
      /\ FrontiersExact' <=> FrontiersExact
    BY <1>1, GraphUnchanged
<1>3. CASE UNCHANGED <<phase, next, changed, pdom, walks>>
    <2>1. /\ VirtualExit' = VirtualExit /\ AllBlocks' = AllBlocks
          /\ \A b : NewDom(b)' = NewDom(b) /\ MustPass(b)' = MustPass(b)
          /\ \A x, c : Depends(x, c)' <=> Depends(x, c)
          /\ \A w : WalkIs(w)' <=> WalkIs(w)
          /\ PdomExact' <=> PdomExact
        BY <1>1, <1>3, GraphUnchanged
    <2>2. (PdomType' <=> PdomType) /\ (PdomAbove' <=> PdomAbove)
        BY <1>3, <2>1 DEF PdomType, PdomAbove
    <2>3. WalksOk' <=> WalksOk
        BY <1>3, <2>1 DEF WalksOk
    <2>4. FrontiersSound' <=> FrontiersSound
        BY <1>1, <2>1 DEF FrontiersSound
    <2>5. FrontiersCovered' <=> FrontiersCovered
        BY <1>1, <1>3, <2>1 DEF FrontiersCovered
    <2>6. HaveFrontiers' <=> HaveFrontiers
        BY <1>1, <1>2, <1>3 DEF HaveFrontiers
    <2> QED  BY <1>1, <1>2, <1>3, <2>1, <2>2, <2>3, <2>4, <2>5, <2>6 DEF DomInv
<1>4. CASE phase' \in {"reach", "data"}
    BY <1>1, <1>4 DEF DomInv, HaveFrontiers
<1>5. CASE phase' = "done" /\ ~ (keepControl /\ ExitBlocks(cfg) # {})
    BY <1>1, <1>2, <1>5 DEF DomInv, HaveFrontiers
<1>6. CASE phase = "control" /\ phase' \in {"control", "done"}
    BY <1>1, <1>2, <1>6 DEF DomInv, HaveFrontiers
<1> QED  BY <1>3, <1>4, <1>5, <1>6

LEMMA DataDoneStep ==
    ASSUME IInv, DomInv, DataDone
    PROVE  DomInv'
<1>1. CASE ~ (keepControl /\ ExitBlocks(cfg) # {})
    <2>1. phase' = "done" /\ UNCHANGED <<inputs, pdf>>
        BY <1>1 DEF DataDone
    <2> QED  BY <1>1, <2>1, DominanceUnchanged
<1>2. CASE keepControl /\ ExitBlocks(cfg) # {}
    <2>1. /\ phase' = "pdom" /\ next' = 0
          /\ pdom' = [b \in AllBlocks |-> IF b = VirtualExit THEN {b} ELSE AllBlocks]
        BY <1>2, Zenon DEF DataDone
    <2>2. cfg' = cfg /\ keepControl' = keepControl
        BY DEF DataDone, inputs
    <2>3. /\ VirtualExit' = VirtualExit /\ AllBlocks' = AllBlocks
          /\ \A b : MustPass(b)' = MustPass(b)
        BY <2>2, GraphUnchanged
    <2>4. VirtualExit \in AllBlocks
        BY DEF AllBlocks
    <2>5. PdomType'
        BY <2>1, <2>3, <2>4 DEF PdomType
    <2>6. PdomAbove'
        <3>1. MustPass(VirtualExit) \subseteq {VirtualExit}
            BY BlockEdgesAre, InevitableExit DEF IInv, MustPass
        <3>2. \A b : MustPass(b) \subseteq AllBlocks
            BY DEF MustPass
        <3> QED  BY <2>1, <2>3, <3>1, <3>2 DEF PdomAbove
    <2>7. \A b \in DOMAIN cfg : ~ (b < 0)
        BY BlockEdgesAre DEF IInv, AllBlocks
    <2> QED  BY <1>2, <2>1, <2>2, <2>5, <2>6, <2>7 DEF DomInv, HaveFrontiers
<1> QED  BY <1>1, <1>2

LEMMA PdomAgainStep ==
    ASSUME IInv, DomInv, PdomAgain
    PROVE  DomInv'
<1>1. /\ phase = "pdom" /\ phase' = "pdom" /\ next' = 0 /\ pdom' = pdom
      /\ cfg' = cfg /\ keepControl' = keepControl
    BY DEF PdomAgain, inputs, dominance
<1>2. /\ VirtualExit' = VirtualExit /\ AllBlocks' = AllBlocks
      /\ \A b : MustPass(b)' = MustPass(b)
    BY <1>1, GraphUnchanged
<1>3. PdomType' /\ PdomAbove'
    BY <1>1, <1>2 DEF DomInv, PdomType, PdomAbove
<1>4. \A b \in DOMAIN cfg : ~ (b < 0)
    BY BlockEdgesAre DEF IInv, AllBlocks
<1> QED  BY <1>1, <1>3, <1>4 DEF DomInv, HaveFrontiers

LEMMA FrontierDoneStep ==
    ASSUME IInv, DomInv, FrontierDone
    PROVE  DomInv'
<1>1. /\ phase = "frontier" /\ phase' = "control" /\ walks = <<>>
      /\ cfg' = cfg /\ keepControl' = keepControl /\ pdf' = pdf
    BY DEF FrontierDone, inputs, dominance
<1>2. FrontiersSound /\ FrontiersCovered
    BY <1>1 DEF DomInv
<1>3. Items(walks) = {}
    BY <1>1, EmptyAndSingle
<1>4. DOMAIN cfg \subseteq AllBlocks
    BY DEF AllBlocks
<1>5. ASSUME NEW x \in DOMAIN cfg PROVE pdf[x] = {c \in DOMAIN cfg : Depends(x, c)}
    <2>1. pdf[x] \subseteq {c \in DOMAIN cfg : Depends(x, c)}
        BY <1>2, <1>4 DEF FrontiersSound
    <2>2. {c \in DOMAIN cfg : Depends(x, c)} \subseteq pdf[x]
        BY <1>2, <1>3 DEF FrontiersCovered
    <2> QED  BY <2>1, <2>2
<1>6. FrontiersExact
    BY <1>5 DEF FrontiersExact
<1>7. FrontiersExact'
    BY <1>1, <1>6, GraphUnchanged
<1> QED  BY <1>1, <1>7 DEF DomInv, HaveFrontiers

LEMMA DomInitially == Init => DomInv
BY DEF Init, DomInv, HaveFrontiers

LEMMA DomInductive ==
    ASSUME ExitsReached
    PROVE  IInv /\ DomInv /\ [Next]_vars => DomInv'
<1> SUFFICES ASSUME IInv, DomInv, [Next]_vars PROVE DomInv'
    OBVIOUS
<1>1. CASE ReachInstr
    <2>1. phase' = "reach" /\ UNCHANGED <<inputs, pdf>>
        BY <1>1 DEF ReachInstr, dominance
    <2> QED  BY <2>1, DominanceUnchanged
<1>2. CASE ReachAgain
    <2>1. phase' = "reach" /\ UNCHANGED <<inputs, pdf>>
        BY <1>2 DEF ReachAgain, dominance
    <2> QED  BY <2>1, DominanceUnchanged
<1>3. CASE ReachDone
    <2>1. phase' = "data" /\ UNCHANGED <<inputs, pdf>>
        BY <1>3 DEF ReachDone, dominance
    <2> QED  BY <2>1, DominanceUnchanged
<1>4. CASE FollowOperands
    <2>1. UNCHANGED <<inputs, pdf, phase, next, changed, pdom, walks>>
        BY <1>4 DEF FollowOperands, dominance, reaching
    <2> QED  BY <2>1, DominanceUnchanged
<1>5. CASE DataDone
    BY <1>5, DataDoneStep
<1>6. CASE PdomBlock
    <2>1. ChoicesExit(cfg)
        BY <1>6, ExitsOf DEF PdomBlock, DomInv, IInv
    <2> QED  BY <1>6, <2>1, PdomBlockStep
<1>7. CASE PdomAgain
    BY <1>7, PdomAgainStep
<1>8. CASE PdomDone
    <2>1. ChoicesExit(cfg)
        BY <1>8, ExitsOf DEF PdomDone, DomInv, IInv
    <2> QED  BY <1>8, <2>1, PdomDoneStep
<1>9. CASE FrontierStep
    <2>1. ChoicesExit(cfg)
        BY <1>9, ExitsOf DEF FrontierStep, DomInv, IInv
    <2> QED  BY <1>9, <2>1, FrontierStepKeeps
<1>10. CASE FrontierDone
    BY <1>10, FrontierDoneStep
<1>11. CASE ControlRound
    <2>1. phase = "control" /\ phase' \in {"control", "done"} /\ UNCHANGED <<inputs, pdf>>
        BY <1>11 DEF ControlRound, dominance
    <2> QED  BY <2>1, DominanceUnchanged
<1>12. CASE UNCHANGED vars
    <2>1. UNCHANGED <<inputs, pdf, phase, next, changed, pdom, walks>>
        BY <1>12 DEF vars
    <2> QED  BY <2>1, DominanceUnchanged
<1> QED
    BY <1>1, <1>2, <1>3, <1>4, <1>5, <1>6, <1>7, <1>8, <1>9, <1>10, <1>11, <1>12 DEF Next

\* Depends is the reference definition.
LEMMA DependsIs ==
    ASSUME Shape, NEW b \in DOMAIN cfg, NEW c \in DOMAIN cfg
    PROVE  Depends(b, c) <=> ControlDependsOn(b, c)
<1>1. b # VirtualExit /\ b \in AllBlocks /\ c \in AllBlocks
    BY BlockEdgesAre DEF AllBlocks
<1>2. \A a \in AllBlocks : b \in MustPass(a) <=> PostDominates(b, a)
    BY <1>1 DEF MustPass, Inevitable, PostDominates, Around
<1>3. ToSet(RevPreds(c)) \subseteq AllBlocks
    BY BlockEdgesAre
<1> QED  BY <1>1, <1>2, <1>3 DEF Depends, ControlDependsOn

-----------------------------------------------------------------------------
(* What is kept.                                                           *)

DependencyEdges == UNION {{<<p, q>> : q \in Dependencies(p)} : p \in Positions}

Needed == ClosureOf(SliceSeeds(idToInstr), DependencyEdges)

SliceInv ==
    /\ important \subseteq Needed
    /\ phase = "done" => worklist = {} /\ (HaveFrontiers => Controllers \subseteq important)

LEMMA DependenciesUnchanged ==
    ASSUME UNCHANGED inputs
    PROVE  Needed' = Needed
<1>1. cfg' = cfg /\ idToInstr' = idToInstr /\ keepControl' = keepControl
    BY DEF inputs
<1>2. Positions' = Positions /\ \A p, r : Sees(p, r)' = Sees(p, r)
    BY PathsUnchanged
<1>3. \A p : DataDependencies(p)' = DataDependencies(p)
    BY <1>1, <1>2 DEF DataDependencies
<1>4. VirtualExit' = VirtualExit /\ BlockEdges' = BlockEdges /\ \A b : RevPreds(b)' = RevPreds(b)
    BY <1>1, GraphUnchanged
<1>5. \A a, b : PostDominates(a, b)' <=> PostDominates(a, b)
    BY <1>4 DEF PostDominates
<1>6. \A a, b : ControlDependsOn(a, b)' <=> ControlDependsOn(a, b)
    BY <1>4, <1>5 DEF ControlDependsOn
<1>7. \A p : LastOf(p)' = LastOf(p) /\ BlockOf(p)' = BlockOf(p)
    BY <1>1 DEF LastOf, BlockOf
<1>8. \A p : IsControl(p)' <=> IsControl(p)
    BY <1>1 DEF IsControl
<1>9. \A p : ControlDependencies(p)' = ControlDependencies(p)
    BY <1>1, <1>6, <1>7, <1>8 DEF ControlDependencies
<1>10. \A p : Dependencies(p)' = Dependencies(p)
    BY <1>1, <1>3, <1>9 DEF Dependencies
<1>11. DependencyEdges' = DependencyEdges
    BY <1>2, <1>10 DEF DependencyEdges
<1>12. SliceSeeds(idToInstr)' = SliceSeeds(idToInstr)
    BY <1>1 DEF SliceSeeds
<1> QED  BY <1>11, <1>12 DEF Needed

LEMMA NeededIs ==
    ASSUME Shape
    PROVE  /\ SliceSeeds(idToInstr) \subseteq Needed
           /\ \A p \in Positions : p \in Needed => Dependencies(p) \subseteq Needed
           /\ \A T : /\ SliceSeeds(idToInstr) \subseteq T
                     /\ \A p \in Positions : p \in T => Dependencies(p) \subseteq T
                     => Needed \subseteq T
<1>1. \A p \in Positions : Dependencies(p) \subseteq Positions
    <2>1. \A p : ControlDependencies(p) \subseteq Positions
        BY LastIsPosition DEF ControlDependencies
    <2> QED  BY <2>1 DEF Dependencies, DataDependencies
<1>2. IsFiniteSet(DependencyEdges)
    <2>1. DependencyEdges \in SUBSET (Positions \X Positions)
        BY <1>1 DEF DependencyEdges
    <2> QED  BY <2>1, InstrEdgesAre, FS_Product, FS_Subset
<1>3. \A p \in Positions : \A q \in Dependencies(p) :
          <<p, q>> \in DependencyEdges /\ <<p, q>>[1] = p /\ <<p, q>>[2] = q
    BY DEF DependencyEdges
<1>4. /\ SliceSeeds(idToInstr) \subseteq Needed /\ IsClosed(Needed, DependencyEdges)
      /\ \A T : SliceSeeds(idToInstr) \subseteq T /\ IsClosed(T, DependencyEdges)
                 => Needed \subseteq T
    BY <1>2, ClosureLeast DEF Needed
<1>5. \A e \in DependencyEdges : e[1] \in Positions /\ e[2] \in Dependencies(e[1])
    BY DEF DependencyEdges
<1>6. \A T : (\A p \in Positions : p \in T => Dependencies(p) \subseteq T)
               => IsClosed(T, DependencyEdges)
    BY <1>5 DEF IsClosed
<1>7. ASSUME NEW p \in Positions, p \in Needed, NEW q \in Dependencies(p) PROVE q \in Needed
    <2>1. \A e \in DependencyEdges : e[1] \in Needed => e[2] \in Needed
        BY <1>4 DEF IsClosed
    <2> QED  BY <1>3, <1>7, <2>1
<1> QED  BY <1>4, <1>6, <1>7

\* Once the definitions are known, an instruction reads those it depends on.
LEMMA ReadIsDependence ==
    ASSUME IInv, ReachInv, phase # "reach", NEW p \in Positions
    PROVE  DefinitionsRead(p) = DataDependencies(p)
<1>1. rdIn[p] = {d \in AllDefs : p \in Sees(d[2], d[1])}
    BY StableIsExact DEF IInv, ReachInv, StableBehind
<1>2. AllDefs = UNION {Gen(idToInstr, q) : q \in Positions}
    BY DEF ReachInv, Maps, AllDefs
<1>3. ASSUME NEW q \in DefinitionsRead(p) PROVE q \in DataDependencies(p)
    <2>1. PICK d \in rdIn[p] : d[1] \in UsesOf(idToInstr[p]) /\ q = d[2]
        BY DEF DefinitionsRead
    <2>2. PICK x \in Positions : d \in Gen(idToInstr, x)
        BY <1>1, <1>2, <2>1
    <2>3. d[2] = x /\ d[1] \in DefsOf(idToInstr[x])
        BY <2>2 DEF Gen
    <2> QED  BY <1>1, <2>1, <2>3 DEF DataDependencies
<1>4. ASSUME NEW q \in DataDependencies(p) PROVE q \in DefinitionsRead(p)
    <2>1. PICK r \in DefsOf(idToInstr[q]) \cap UsesOf(idToInstr[p]) : p \in Sees(q, r)
        BY DEF DataDependencies
    <2>2. q \in Positions
        BY DEF DataDependencies
    <2>3. <<r, q>> \in AllDefs /\ <<r, q>>[1] = r /\ <<r, q>>[2] = q
        BY <1>2, <2>1, <2>2 DEF Gen
    <2>4. <<r, q>> \in rdIn[p]
        BY <1>1, <2>1, <2>3
    <2> QED  BY <2>1, <2>3, <2>4 DEF DefinitionsRead
<1> QED  BY <1>3, <1>4

\* The branches a round looks for are those that what is kept depends on.
LEMMA ControllersAre ==
    ASSUME IInv, DomInv, HaveFrontiers
    PROVE  Controllers = UNION {ControlDependencies(p) : p \in important}
<1>1. /\ IsCfg(cfg) /\ Positions = AllPositions(cfg) /\ important \subseteq Positions
    BY GraphsAssumption DEF IInv, Shape, TypeOK
<1>2. \A p, k : k \in DOMAIN cfg /\ p \in InstrPositions(cfg, k) => BlockOf(p) = k
    BY <1>1, Layout DEF BlockOf
<1>3. \A p \in important : BlockOf(p) \in DOMAIN cfg /\ p \in InstrPositions(cfg, BlockOf(p))
    BY <1>1 DEF AllPositions, BlockOf
<1>4. \A b \in DOMAIN cfg : pdf[b] = {c \in DOMAIN cfg : ControlDependsOn(b, c)}
    BY DependsIs DEF DomInv, FrontiersExact, IInv
<1>5. ASSUME NEW q \in Controllers
      PROVE  \E p \in important : q \in ControlDependencies(p)
    <2>1. PICK c \in DOMAIN cfg, b \in BlocksWithImportant :
              c \in pdf[b] /\ q = LastOf(c) /\ IsControl(q)
        BY DEF Controllers
    <2>2. PICK p \in important : p \in InstrPositions(cfg, b) /\ b \in DOMAIN cfg
        BY DEF BlocksWithImportant
    <2>3. BlockOf(p) = b /\ ControlDependsOn(b, c)
        BY <1>2, <1>4, <2>1, <2>2
    <2> QED  BY <2>1, <2>3 DEF ControlDependencies
<1>6. ASSUME NEW p \in important, NEW q \in ControlDependencies(p)
      PROVE  q \in Controllers
    <2>1. PICK c \in DOMAIN cfg :
              q = LastOf(c) /\ IsControl(q) /\ ControlDependsOn(BlockOf(p), c)
        BY DEF ControlDependencies
    <2>2. BlockOf(p) \in BlocksWithImportant
        BY <1>3 DEF BlocksWithImportant
    <2>3. c \in pdf[BlockOf(p)]
        BY <1>3, <1>4, <2>1
    <2> QED  BY <2>1, <2>2, <2>3 DEF Controllers
<1> QED  BY <1>5, <1>6

LEMMA SliceInitially == Init => SliceInv
<1> SUFFICES ASSUME Init PROVE SliceInv
    OBVIOUS
<1>1. important \subseteq Needed
    BY Initially, NeededIs DEF Init, IInv
<1> QED  BY <1>1 DEF Init, SliceInv

\* Steps that keep the slice as it is and do not finish it.
LEMMA SliceUnchanged ==
    ASSUME SliceInv, UNCHANGED <<inputs, important>>, phase' # "done"
    PROVE  SliceInv'
BY DependenciesUnchanged DEF SliceInv

LEMMA SliceFollowOperands ==
    ASSUME IInv, ReachInv, SliceInv, FollowOperands
    PROVE  SliceInv'
<1>1. PICK p \in worklist : important' = important \cup (DefinitionsRead(p) \ important)
    BY DEF FollowOperands
<1>2. p \in Positions /\ p \in Needed /\ phase # "reach" /\ phase' # "done"
    BY DEF FollowOperands, SliceInv, IInv, TypeOK
<1>3. DefinitionsRead(p) \subseteq Dependencies(p)
    BY <1>2, ReadIsDependence DEF Dependencies
<1>4. Dependencies(p) \subseteq Needed
    BY <1>2, NeededIs DEF IInv
<1>5. Needed' = Needed
    BY DependenciesUnchanged DEF FollowOperands
<1> QED  BY <1>1, <1>2, <1>3, <1>4, <1>5 DEF SliceInv

LEMMA SliceControlRound ==
    ASSUME IInv, DomInv, SliceInv, ControlRound
    PROVE  SliceInv'
<1>1. /\ phase = "control" /\ keepControl /\ HaveFrontiers
      /\ important' = important \cup (Controllers \ important)
      /\ worklist' = Controllers \ important
      /\ UNCHANGED <<inputs, pdf>>
    BY DEF ControlRound, DomInv, HaveFrontiers, dominance
<1>2. Controllers \subseteq Needed
    <2>1. \A p \in important : ControlDependencies(p) \subseteq Needed
        BY <1>1, NeededIs DEF IInv, TypeOK, SliceInv, Dependencies
    <2> QED  BY <1>1, <2>1, ControllersAre
<1>3. Needed' = Needed
    BY <1>1, DependenciesUnchanged
<1>4. ASSUME phase' = "done"
      PROVE  worklist' = {} /\ Controllers' \subseteq important'
    <2>1. Controllers \ important = {}
        BY <1>4 DEF ControlRound
    <2>2. important' = important /\ Controllers \subseteq important
        BY <1>1, <2>1
    <2>3. \A p : LastOf(p)' = LastOf(p) /\ (IsControl(p)' <=> IsControl(p))
        BY <1>1 DEF inputs, LastOf, IsControl
    <2>4. BlocksWithImportant' = BlocksWithImportant
        BY <1>1, <2>2 DEF inputs, BlocksWithImportant
    <2>5. Controllers' = Controllers
        BY <1>1, <2>3, <2>4 DEF inputs, Controllers
    <2> QED  BY <1>1, <2>1, <2>2, <2>5
<1> QED  BY <1>1, <1>2, <1>3, <1>4 DEF SliceInv

LEMMA SliceDataDone ==
    ASSUME SliceInv, DataDone
    PROVE  SliceInv'
<1>1. Needed' = Needed /\ important' = important /\ worklist' = {}
    BY DependenciesUnchanged DEF DataDone
<1>2. CASE keepControl /\ ExitBlocks(cfg) # {}
    <2>1. phase' = "pdom"
        BY <1>2, Zenon DEF DataDone
    <2> QED  BY <1>1, <2>1 DEF SliceInv
<1>3. CASE ~ (keepControl /\ ExitBlocks(cfg) # {})
    <2>1. phase' = "done" /\ ~ (keepControl /\ ExitBlocks(cfg) # {})'
        BY <1>3 DEF DataDone, inputs
    <2> QED  BY <1>1, <2>1 DEF SliceInv, HaveFrontiers
<1> QED  BY <1>2, <1>3

LEMMA SliceInductive ==
    IInv /\ ReachInv /\ DomInv /\ SliceInv /\ [Next]_vars => SliceInv'
<1> SUFFICES ASSUME IInv, ReachInv, DomInv, SliceInv, [Next]_vars PROVE SliceInv'
    OBVIOUS
<1>1. CASE ReachInstr \/ ReachAgain \/ ReachDone
    <2>1. UNCHANGED <<inputs, important>> /\ phase' # "done"
        BY <1>1 DEF ReachInstr, ReachAgain, ReachDone
    <2> QED  BY <2>1, SliceUnchanged
<1>2. CASE FollowOperands
    BY <1>2, SliceFollowOperands
<1>3. CASE DataDone
    BY <1>3, SliceDataDone
<1>4. CASE PdomBlock \/ PdomAgain \/ PdomDone
    <2>1. UNCHANGED <<inputs, important>> /\ phase' # "done"
        BY <1>4 DEF PdomBlock, PdomAgain, PdomDone
    <2> QED  BY <2>1, SliceUnchanged
<1>5. CASE FrontierStep \/ FrontierDone
    <2>1. UNCHANGED <<inputs, important>> /\ phase' # "done"
        BY <1>5 DEF FrontierStep, FrontierDone
    <2> QED  BY <2>1, SliceUnchanged
<1>6. CASE ControlRound
    BY <1>6, SliceControlRound
<1>7. CASE UNCHANGED vars
    <2>1. /\ UNCHANGED <<inputs, important, phase, worklist>> /\ pdf' = pdf /\ cfg' = cfg
          /\ keepControl' = keepControl /\ idToInstr' = idToInstr
        BY <1>7 DEF vars, inputs
    <2>2. /\ Needed' = Needed
          /\ ExitBlocks(cfg)' = ExitBlocks(cfg)
          /\ \A p : LastOf(p)' = LastOf(p) /\ (IsControl(p)' <=> IsControl(p))
        BY <2>1, DependenciesUnchanged DEF LastOf, IsControl
    <2>3. BlocksWithImportant' = BlocksWithImportant
        BY <2>1 DEF BlocksWithImportant
    <2>4. Controllers' = Controllers /\ (HaveFrontiers' <=> HaveFrontiers)
        BY <2>1, <2>2, <2>3 DEF Controllers, HaveFrontiers
    <2> QED  BY <2>1, <2>2, <2>4 DEF SliceInv
<1> QED  BY <1>1, <1>2, <1>3, <1>4, <1>5, <1>6, <1>7 DEF Next

-----------------------------------------------------------------------------
\* Every reachable state of the slicer is well typed.
THEOREM TypeCorrect == Spec => []TypeOK
<1>1. IInv => TypeOK
    BY DEF IInv
<1> QED  BY Initially, Inductive, <1>1, PTL DEF Spec

\* The reaching definitions of every instruction only grow, on every graph: the
\* repeated passes of compute_reaching_definitions cannot oscillate.
THEOREM ReachingMonotone == Spec => ReachingGrows
<1>1. IInv /\ [Next]_vars => [\A p \in Positions : rd[p] \subseteq rd'[p]]_vars
    <2> SUFFICES ASSUME IInv, Next
                 PROVE  \A p \in Positions : rd[p] \subseteq rd'[p]
        OBVIOUS
    <2>1. CASE ReachInstr
        BY <2>1, ReachInstrStep
    <2>2. CASE ~ ReachInstr
        <3>1. rd' = rd
            BY <2>2 DEF Next, ReachAgain, ReachDone, FollowOperands, DataDone, PdomBlock,
                        PdomAgain, PdomDone, FrontierStep, FrontierDone, ControlRound, reaching
        <3> QED  BY <3>1
    <2> QED  BY <2>1, <2>2
<1> QED  BY Initially, Inductive, <1>1, PTL DEF Spec, ReachingGrows

\* An instruction that slice_cfg keeps and has taken off its worklist has all the
\* definitions it reads kept, in the data walk and in the walks that follow the
\* branches added later; when the worklist is empty the slice is closed.
THEOREM SliceClosed == Spec => []WorklistCoversGaps
<1>1. IInv => WorklistCoversGaps
    BY DEF IInv
<1> QED  BY Initially, Inductive, <1>1, PTL DEF Spec

\* The definitions found to reach an instruction are those whose value some path
\* takes there, once a pass has changed nothing, on every graph.
THEOREM ReachingDefinitionsAreExact == Spec => []ReachingIsExact
<1>1. IInv /\ ReachInv => ReachingIsExact
    <2> SUFFICES ASSUME IInv, ReachInv, phase = "data", NEW p \in Positions
                 PROVE  rdIn[p] = {d \in AllDefs : p \in Sees(d[2], d[1])}
        BY DEF ReachingIsExact
    <2>1. \A q \in Positions : Stable(q)
        BY DEF ReachInv, StableBehind
    <2> QED  BY <2>1, StableIsExact DEF IInv, ReachInv
<1> QED  BY Initially, Inductive, ReachInitially, ReachInductive, <1>1, PTL DEF Spec

\* The frontiers computed over the reversed graph are the control dependencies,
\* in every graph in which control is kept and each choice leads to an exit.
THEOREM ControlDependenciesFound ==
    ASSUME ExitsReached
    PROVE  Spec => []FrontiersAreControlDependencies
<1>1. IInv /\ DomInv => FrontiersAreControlDependencies
    BY DependsIs
       DEF IInv, DomInv, HaveFrontiers, FrontiersExact, FrontiersAreControlDependencies
<1>2. DomInv /\ IInv /\ [Next]_vars => DomInv'
    BY DomInductive
<1> QED  BY Initially, Inductive, DomInitially, <1>1, <1>2, PTL DEF Spec

LEMMA SliceInvHolds ==
    ASSUME ExitsReached
    PROVE  Spec => [](IInv /\ ReachInv /\ DomInv /\ SliceInv)
<1>1. IInv /\ DomInv /\ [Next]_vars => DomInv'
    BY DomInductive
<1> QED
    BY Initially, Inductive, ReachInitially, ReachInductive, DomInitially, <1>1,
       SliceInitially, SliceInductive, PTL DEF Spec

\* Without an exit no block depends on another.
LEMMA NoExitNoChoice ==
    ASSUME Shape, ChoicesExit(cfg), ExitBlocks(cfg) = {}, NEW x, NEW c
    PROVE  ~ Depends(x, c)
<1> SUFFICES ASSUME Depends(x, c) PROVE FALSE
    OBVIOUS
<1>1. c \in DOMAIN cfg /\ ~ (Len(RevPreds(c)) < 2) /\ Len(RevPreds(c)) \in Nat
    BY DependsOnChoice DEF Depends
<1>2. IsSequence(cfg[c].succs) /\ ToSet(cfg[c].succs) \subseteq DOMAIN cfg
    BY <1>1, GraphsAssumption, BlockIs DEF Shape
<1>3. RevPreds(c) = cfg[c].succs
    <2>1. RevPreds(c) = cfg[c].succs \o <<>>
        BY <1>1, BlockEdgesAre DEF RevPreds
    <2> QED  BY <1>2, <2>1, EmptyAndSingle, ConcatItems
<1>4. PICK s : s \in ToSet(cfg[c].succs)
    BY <1>3 DEF Depends
<1>5. Exits(cfg, s)
    BY <1>1, <1>3, <1>4 DEF ChoicesExit
<1> QED  BY <1>5 DEF Exits

\* What is kept when nothing waits and no branch is missing has all it depends on.
LEMMA CompleteWhenDone ==
    ASSUME ExitsReached, IInv, ReachInv, DomInv, SliceInv, phase = "done", NEW p \in important
    PROVE  Dependencies(p) \subseteq important
<1>1. p \in Positions
    BY DEF IInv, TypeOK
<1>2. DataDependencies(p) \subseteq important
    BY <1>1, ReadIsDependence DEF IInv, WorklistCoversGaps, SliceInv
<1>3. ASSUME keepControl PROVE ControlDependencies(p) \subseteq important
    <2>1. CASE ExitBlocks(cfg) # {}
        <3>1. HaveFrontiers
            BY <1>3, <2>1 DEF HaveFrontiers
        <3> QED  BY <3>1, ControllersAre DEF SliceInv
    <2>2. CASE ExitBlocks(cfg) = {}
        <3>1. ChoicesExit(cfg)
            BY <1>3, ExitsOf DEF IInv
        <3>2. \A b, c \in DOMAIN cfg : ~ Depends(b, c)
            BY <2>2, <3>1, NoExitNoChoice DEF IInv
        <3>3. BlockOf(p) \in DOMAIN cfg
            BY <1>1 DEF IInv, Shape, AllPositions, BlockOf
        <3> QED  BY <3>2, <3>3, DependsIs DEF ControlDependencies, IInv
    <2> QED  BY <2>1, <2>2
<1> QED  BY <1>2, <1>3 DEF Dependencies

\* What slice_cfg returns keeps, with every instruction, the definitions it reads
\* and the branches it depends on, in whatever order the worklist was emptied.
THEOREM SlicesAreComplete ==
    ASSUME ExitsReached
    PROVE  Spec => []SliceComplete
<1>1. IInv /\ ReachInv /\ DomInv /\ SliceInv => SliceComplete
    BY CompleteWhenDone DEF SliceComplete
<1> QED  BY SliceInvHolds, <1>1, PTL

\* It keeps nothing that the seeds do not depend on through a chain of reads and
\* branches.
THEOREM SlicesAreMinimal ==
    ASSUME ExitsReached
    PROVE  Spec => []SliceMinimal
<1>1. SliceInv => SliceMinimal
    BY DEF SliceInv, SliceMinimal, Needed, DependencyEdges
<1> QED  BY SliceInvHolds, <1>1, PTL

-----------------------------------------------------------------------------
(* The earlier slicer's graph.                                             *)

\* The names of the blocks there; the block behind the exits is one of them.
Named(b) == IF b = VirtualExit THEN ExitBlock ELSE b

\* g has the blocks and edges of cfg, one more block that leads to the first one,
\* and the block behind the exits.
IsViewOfCfg(g) ==
    /\ 0 \in DOMAIN cfg
    /\ DOMAIN g = DOMAIN cfg \cup {StartBlock, ExitBlock}
    /\ \A k \in DOMAIN cfg :
          /\ g[k].code = [i \in 1 .. Len(cfg[k].instructions) |-> cfg[k].first + i - 1]
          /\ Successors(g, k) = {Named(s) : s \in ToSet(RevPreds(k))}
    /\ g[StartBlock].code = <<>> /\ Successors(g, StartBlock) = {0}
    /\ g[ExitBlock].code = <<>> /\ Successors(g, ExitBlock) = {}

\* The graph that the earlier slicer builds of a function is one.
LEMMA LegacyIsView ==
    ASSUME NEW f, IsProgram(f), Comparable(f), cfg = BuildCfg(f)
    PROVE  IsViewOfCfg(BuildLegacyCfg(f))
<1> DEFINE g == BuildLegacyCfg(f)
           n == Cardinality(DOMAIN cfg)
<1>1. WiredUpTo(cfg, f, n)
    BY BuildCfgWired
<1>2. IsLegacyOf(g, cfg, f)
    BY <1>1, LegacyBlocks
<1>3. PICK at : /\ LeadsBy(at, cfg, f)
                /\ \A k \in DOMAIN cfg : g[k].succs = EdgesOf(cfg, k, at)
    BY <1>2 DEF IsLegacyOf
<1> HIDE DEF g
<1>4. \A s : ToSet(s) = Items(s)
    BY DEF ToSet, Items
<1>5. IsCfg(cfg) /\ n \in Nat \ {0} /\ DOMAIN cfg = 0 .. n - 1
    <2>1. AreBlocks(cfg, f, Leaders(f)) /\ 1 \in Leaders(f)
        BY <1>1, LeadersAre DEF WiredUpTo
    <2> QED  BY <2>1, BlockCount, BuildCfgIsCfg DEF IsCfg
<1>6. ASSUME NEW k \in DOMAIN cfg
      PROVE  Successors(g, k) = {Named(s) : s \in ToSet(RevPreds(k))}
    <2> DEFINE last == Last(cfg[k].instructions)
               t == IF k \in ExitBlocks(cfg) THEN <<VirtualExit>> ELSE <<>>
    <2>1. /\ IsSequence(cfg[k].succs) /\ ToSet(cfg[k].succs) \subseteq DOMAIN cfg
          /\ IsSequence(cfg[k].instructions) /\ cfg[k].instructions # <<>>
        BY <1>5, BlockIs
    <2>2. Len(cfg[k].instructions) \in Nat \ {0}
        BY <2>1, SequenceDomain
    <2>3. last \in Items(f)
        <3>1. /\ last = f[EndOf(cfg, k)] /\ EndOf(cfg, k) \in cfg[k].first .. Len(f)
              /\ cfg[k].first \in Leaders(f)
            BY <1>1 DEF WiredUpTo, AreBlocks
        <3>2. Leaders(f) \subseteq 1 .. Len(f) /\ DOMAIN f = 1 .. Len(f) /\ Len(f) \in Nat
            BY LeadersAre, SequenceDomain DEF IsProgram
        <3>3. EndOf(cfg, k) \in DOMAIN f
            BY <3>1, <3>2
        <3> HIDE DEF last
        <3> QED  BY <3>1, <3>3 DEF Items
    <2>4. k \in ExitBlocks(cfg) <=> IsExit(last)
        BY <2>2 DEF ExitBlocks
    <2>5. Items(t) = IF IsExit(last) THEN {VirtualExit} ELSE {}
        BY <2>4, EmptyAndSingle
    <2>6. IsSequence(t)
        BY EmptyAndSingle
    <2>7. Items(RevPreds(k)) = Items(cfg[k].succs) \cup Items(t)
        <3>1. VirtualExit \notin DOMAIN cfg
            BY <1>5 DEF VirtualExit
        <3>2. RevPreds(k) = cfg[k].succs \o t
            BY <3>1 DEF RevPreds
        <3> HIDE DEF t
        <3> QED  BY <2>1, <2>6, <3>2, ConcatItems, ConcatRange DEF Joins
    <2>8. Items(cfg[k].succs) = LeadsTo(cfg, k)
        <3>1. k < n
            BY <1>5
        <3> QED  BY <1>1, <3>1 DEF WiredUpTo
    <2>9. {e.to : e \in Items(EdgesOf(cfg, k, at))}
             = LeadsTo(cfg, k) \cup (IF IsExit(last) THEN {ExitBlock} ELSE {})
        BY <1>1, <1>3, <2>3, LegacyEdges
    <2>10. Successors(g, k) = {e.to : e \in Items(EdgesOf(cfg, k, at))}
        BY <1>3, <1>4 DEF Successors
    <2>11. \A s \in Items(cfg[k].succs) : Named(s) = s
        BY <1>4, <1>5, <2>1 DEF Named, VirtualExit
    <2> HIDE DEF last, t
    <2>12. {Named(s) : s \in Items(RevPreds(k))}
              = Items(cfg[k].succs) \cup {Named(s) : s \in Items(t)}
        BY <2>7, <2>11
    <2>13. {Named(s) : s \in Items(t)} = IF IsExit(last) THEN {ExitBlock} ELSE {}
        BY <2>5 DEF Named
    <2> QED  BY <1>4, <2>8, <2>9, <2>10, <2>12, <2>13
<1>7. Successors(g, StartBlock) = {0} /\ Successors(g, ExitBlock) = {}
    <2>1. Items(g[StartBlock].succs) = {Edge("next", 0, 0)} /\ Items(g[ExitBlock].succs) = {}
        BY <1>2, EmptyAndSingle DEF IsLegacyOf
    <2>2. Edge("next", 0, 0).to = 0
        BY DEF Edge
    <2> QED  BY <1>4, <2>1, <2>2 DEF Successors
<1>8. 0 \in DOMAIN cfg
    BY <1>5
<1> QED  BY <1>2, <1>6, <1>7, <1>8 DEF IsViewOfCfg, IsLegacyOf, g

\* The instruction that a slice is told to be at a position is there.
LEMMA InstrAtIs ==
    ASSUME NEW f, IsProgram(f), NEW g, g = BuildCfg(f)
    PROVE  f = [p \in AllPositions(g) |-> InstrAt(g, p)]
<1>1. IsCfg(g) /\ WiredUpTo(g, f, Cardinality(DOMAIN g))
    BY BuildCfgIsCfg, BuildCfgWired
<1>2. IsLegacyOf(BuildLegacyCfg(f), g, f)
    BY <1>1, LegacyBlocks
<1>3. DOMAIN f = 1 .. Len(f) /\ Len(f) \in Nat \ {0} /\ f = [p \in DOMAIN f |-> f[p]]
    BY SequenceDomain DEF IsProgram, IsSequence
<1>4. \A k \in DOMAIN g : InstrPositions(g, k) \subseteq 1 .. Len(f)
    <2> SUFFICES ASSUME NEW k \in DOMAIN g PROVE InstrPositions(g, k) \subseteq 1 .. Len(f)
        OBVIOUS
    <2>1. InstrPositions(g, k) = g[k].first .. EndOf(g, k)
        BY <1>1, BlockIs
    <2>2. g[k].first \in 1 .. Len(f) /\ EndOf(g, k) \in g[k].first .. Len(f)
        BY <1>2 DEF IsLegacyOf
    <2> QED  BY <1>3, <2>1, <2>2
<1>5. PICK n \in Nat : AllPositions(g) = 1 .. n
    BY <1>1, Layout
<1>6. Len(f) \in AllPositions(g)
    <2>1. PICK m \in Nat \ {0} : DOMAIN g = 0 .. m - 1
        BY <1>1 DEF WiredUpTo, AreBlocks
    <2>2. m - 1 \in DOMAIN g /\ (m - 1) + 1 \notin DOMAIN g
        BY <2>1
    <2>3. EndOf(g, m - 1) = Len(f)
        BY <1>1, <2>2 DEF WiredUpTo, AreBlocks
    <2>4. EndOf(g, m - 1) \in InstrPositions(g, m - 1)
        BY <1>1, <2>2, BlockIs
    <2> QED  BY <2>2, <2>3, <2>4 DEF AllPositions
<1>7. AllPositions(g) = 1 .. Len(f)
    <2>1. \A p \in AllPositions(g) : p \in 1 .. Len(f)
        BY <1>4 DEF AllPositions
    <2>2. Len(f) \in 1 .. n
        BY <1>5, <1>6
    <2> QED  BY <1>3, <1>5, <2>1, <2>2
<1>8. ASSUME NEW p \in AllPositions(g) PROVE InstrAt(g, p) = f[p]
    <2> DEFINE k == CHOOSE k \in DOMAIN g : p \in InstrPositions(g, k)
               lo == g[k].first
               hi == EndOf(g, k)
    <2>1. k \in DOMAIN g /\ p \in InstrPositions(g, k)
        BY DEF AllPositions
    <2>2. InstrAt(g, p) = g[k].instructions[p - lo + 1]
        BY DEF InstrAt
    <2> HIDE DEF k
    <2>3. g[k].instructions = SubSeq(f, lo, hi) /\ lo \in 1 .. Len(f) /\ hi \in lo .. Len(f)
        BY <1>2, <2>1 DEF IsLegacyOf
    <2>4. p \in lo .. hi
        BY <1>1, <2>1, BlockIs
    <2>5. f \in Seq(Items(f))
        BY DEF IsProgram, IsSequence
    <2>6. p - lo + 1 \in 1 .. hi - lo + 1 /\ lo + (p - lo + 1) - 1 = p
        BY <1>3, <2>3, <2>4
    <2> HIDE DEF lo, hi
    <2>7. SubSeq(f, lo, hi)[p - lo + 1] = f[lo + (p - lo + 1) - 1]
        BY <1>3, <2>3, <2>5, <2>6, SubSeqProperties
    <2> QED  BY <2>2, <2>3, <2>6, <2>7 DEF lo
<1> QED  BY <1>3, <1>7, <1>8

-----------------------------------------------------------------------------
(* The positions in the earlier slicer's graph.                            *)

\* The ways out of a block are its successors and, from an exit, the end.
LEMMA RevPredsAre ==
    ASSUME Shape, NEW b \in DOMAIN cfg
    PROVE  ToSet(RevPreds(b)) = ToSet(cfg[b].succs)
                                  \cup (IF b \in ExitBlocks(cfg) THEN {VirtualExit} ELSE {})
<1> DEFINE t == IF b \in ExitBlocks(cfg) THEN <<VirtualExit>> ELSE <<>>
<1>1. IsSequence(cfg[b].succs)
    BY GraphsAssumption, BlockIs DEF Shape
<1>2. IsSequence(t) /\ Items(t) = IF b \in ExitBlocks(cfg) THEN {VirtualExit} ELSE {}
    BY EmptyAndSingle
<1>3. RevPreds(b) = cfg[b].succs \o t
    BY BlockEdgesAre DEF RevPreds
<1> HIDE DEF t
<1>4. Items(RevPreds(b)) = Items(cfg[b].succs) \cup Items(t)
    BY <1>1, <1>2, <1>3, ConcatRange
<1>5. \A s : ToSet(s) = Items(s)
    BY DEF ToSet, Items
<1> QED  BY <1>2, <1>4, <1>5

\* A block there has the positions of the block here.
LEMMA ViewCode ==
    ASSUME Shape, NEW g, IsViewOfCfg(g)
    PROVE  /\ g[StartBlock].code = <<>> /\ g[ExitBlock].code = <<>>
           /\ StartBlock \notin DOMAIN cfg /\ ExitBlock \notin DOMAIN cfg
           /\ \A k \in DOMAIN cfg : /\ g[k].code # <<>> /\ g[k].code[1] = cfg[k].first
                                    /\ Last(g[k].code) = LastOf(k)
           /\ \A p \in Positions : HomeOf(g, p) = BlockOf(p)
<1>1. IsCfg(cfg) /\ Positions = AllPositions(cfg)
    BY GraphsAssumption DEF Shape
<1>2. DOMAIN cfg \subseteq Nat
    BY <1>1 DEF IsCfg
<1>3. ASSUME NEW k \in DOMAIN cfg
      PROVE  /\ IsSequence(g[k].code) /\ Len(g[k].code) = Len(cfg[k].instructions)
             /\ Len(g[k].code) \in Nat \ {0} /\ cfg[k].first \in Nat
             /\ DOMAIN g[k].code = 1 .. Len(g[k].code)
             /\ \A i \in 1 .. Len(g[k].code) : g[k].code[i] = cfg[k].first + i - 1
    <2> DEFINE n == Len(cfg[k].instructions)
               c == [i \in 1 .. n |-> cfg[k].first + i - 1]
    <2>1. n \in Nat \ {0} /\ cfg[k].first \in Nat
        BY BlockShape
    <2>2. g[k].code = c
        BY DEF IsViewOfCfg
    <2> HIDE DEF n
    <2>3. IsSequence(c) /\ Len(c) = n /\ DOMAIN c = 1 .. n
        BY <2>1, FunctionIsSequence
    <2> QED  BY <2>1, <2>2, <2>3 DEF n
<1>4. ASSUME NEW k \in DOMAIN cfg
      PROVE  g[k].code # <<>> /\ g[k].code[1] = cfg[k].first /\ Last(g[k].code) = LastOf(k)
    <2>1. /\ 1 \in 1 .. Len(g[k].code) /\ Len(g[k].code) \in 1 .. Len(g[k].code)
          /\ cfg[k].first + 1 - 1 = cfg[k].first
        BY <1>3
    <2>2. g[k].code # <<>>
        BY <1>3, <2>1, EmptyAndSingle
    <2>3. Last(g[k].code) = g[k].code[Len(g[k].code)]
        BY DEF Last
    <2> QED  BY <1>3, <2>1, <2>2, <2>3 DEF LastOf
<1>5. \A k \in DOMAIN cfg : \A p : Contains(g[k].code, p) <=> p \in InstrPositions(cfg, k)
    <2> SUFFICES ASSUME NEW k \in DOMAIN cfg, NEW p
                 PROVE  Contains(g[k].code, p) <=> p \in InstrPositions(cfg, k)
        OBVIOUS
    <2>1. Contains(g[k].code, p) <=> \E i \in 1 .. Len(g[k].code) : g[k].code[i] = p
        BY DEF Contains
    <2>2. p \in InstrPositions(cfg, k)
             => p - cfg[k].first + 1 \in 1 .. Len(g[k].code)
                  /\ cfg[k].first + (p - cfg[k].first + 1) - 1 = p
        BY <1>3 DEF InstrPositions
    <2>3. \A i \in 1 .. Len(g[k].code) : cfg[k].first + i - 1 \in InstrPositions(cfg, k)
        BY <1>3 DEF InstrPositions
    <2> QED  BY <1>3, <2>1, <2>2, <2>3
<1>6. /\ g[StartBlock].code = <<>> /\ g[ExitBlock].code = <<>>
      /\ DOMAIN g = DOMAIN cfg \cup {StartBlock, ExitBlock}
      /\ StartBlock \notin DOMAIN cfg /\ ExitBlock \notin DOMAIN cfg
    BY <1>2 DEF IsViewOfCfg, StartBlock, ExitBlock
<1>7. \A p : ~ Contains(<<>>, p)
    BY EmptyAndSingle DEF Contains
<1>8. ASSUME NEW p \in Positions PROVE HomeOf(g, p) = BlockOf(p)
    <2>1. BlockOf(p) \in DOMAIN cfg /\ p \in InstrPositions(cfg, BlockOf(p))
        BY <1>1 DEF AllPositions, BlockOf
    <2>2. \A b \in DOMAIN g : Contains(g[b].code, p) <=> b = BlockOf(p)
        BY <1>1, <1>5, <1>6, <1>7, <2>1, Layout
    <2>3. BlockOf(p) \in DOMAIN g
        BY <1>6, <2>1
    <2> QED  BY <2>2, <2>3 DEF HomeOf
<1> QED  BY <1>4, <1>6, <1>8

\* What the earlier slicer takes to reach an instruction leaves those before it.
LEMMA ReachingInIs ==
    ASSUME Shape, NEW g, IsViewOfCfg(g), NEW R, NEW q \in Positions
    PROVE  ReachingIn(g, R, q) = UNION {R[p] : p \in {i \in Positions : <<i, q>> \in InstrEdges}}
<1> DEFINE b == BlockOf(q)
           As == {c \in Predecessors(g, b) : g[c].code # <<>>}
<1>1. /\ HomeOf(g, q) = b /\ b \in DOMAIN cfg /\ IsCfg(cfg)
      /\ g[b].code[1] = cfg[b].first
    BY GraphsAssumption, ViewCode DEF Shape, AllPositions, BlockOf
<1>2. ReachingIn(g, R, q) = IF q # g[b].code[1] THEN R[q - 1]
                            ELSE UNION {R[Last(g[a].code)] : a \in As}
    BY <1>1 DEF ReachingIn
<1> HIDE DEF b
<1>3. cfg[b].preds = {j \in DOMAIN cfg : b \in ToSet(cfg[j].succs)}
    BY <1>1 DEF IsCfg
<1>4. ASSUME NEW a \in DOMAIN cfg PROVE b \in Successors(g, a) <=> b \in ToSet(cfg[a].succs)
    <2>1. Successors(g, a) = {Named(s) : s \in ToSet(RevPreds(a))}
        BY DEF IsViewOfCfg
    <2>2. b # ExitBlock /\ VirtualExit \notin DOMAIN cfg
        BY <1>1, BlockEdgesAre, ViewCode
    <2>3. b \in Successors(g, a) <=> b \in ToSet(RevPreds(a))
        BY <1>1, <2>1, <2>2 DEF Named
    <2> QED  BY <1>1, <2>2, <2>3, RevPredsAre
<1>5. As = cfg[b].preds
    <2>1. \A c \in DOMAIN g : g[c].code # <<>> <=> c \in DOMAIN cfg
        BY ViewCode DEF IsViewOfCfg
    <2>2. DOMAIN cfg \subseteq DOMAIN g
        BY DEF IsViewOfCfg
    <2> QED  BY <1>3, <1>4, <2>1, <2>2 DEF Predecessors
<1> HIDE DEF As
<1>6. \A a \in As : Last(g[a].code) = LastOf(a)
    BY <1>3, <1>5, ViewCode
<1>7. CASE q = cfg[b].first
    <2>1. {i \in Positions : <<i, q>> \in InstrEdges} = {LastOf(j) : j \in As}
        BY <1>5, <1>7, EdgesInto DEF b
    <2>2. ReachingIn(g, R, q) = UNION {R[LastOf(a)] : a \in As}
        BY <1>1, <1>2, <1>6, <1>7
    <2> QED  BY <2>1, <2>2
<1>8. CASE q # cfg[b].first
    <2>1. {i \in Positions : <<i, q>> \in InstrEdges} = {q - 1}
        BY <1>8, EdgesInto DEF b
    <2> QED  BY <1>1, <1>2, <1>8, <2>1
<1> QED  BY <1>7, <1>8

-----------------------------------------------------------------------------
(* The definitions that the earlier slicer finds to reach an instruction   *)
(* are those that some path brings.                                        *)

OperandsListed == \A p \in Positions : IsSequence(idToInstr[p].regs)

AllReadAlike == \A p \in Positions : ReadAlike(idToInstr[p])

\* Instructions that are read alike write and overwrite alike.
LEMMA DefinitionsAlike ==
    ASSUME Shape, Maps, AllReadAlike
    PROVE  /\ AllDefinitions(idToInstr) = AllDefs
           /\ \A p \in Positions : /\ Gens(idToInstr, p) = genMap[p]
                                   /\ Kills(idToInstr, p) = killMap[p]
<1>1. \A p \in Positions : LegacyWrites(idToInstr[p]) = DefsOf(idToInstr[p])
    BY DEF AllReadAlike, ReadAlike
<1>2. AllDefinitions(idToInstr) = UNION {Gen(idToInstr, p) : p \in Positions}
    BY <1>1 DEF AllDefinitions, Gen, Positions
<1>3. AllDefs = UNION {Gen(idToInstr, p) : p \in Positions}
    BY DEF Maps, AllDefs
<1>4. \A p \in Positions : Gens(idToInstr, p) = Gen(idToInstr, p)
    BY <1>2 DEF Gens, Gen
<1>5. ASSUME NEW p \in Positions PROVE Kills(idToInstr, p) = Kill(idToInstr, AllDefs, p)
    <2>1. IsPredicated(idToInstr[p]) <=> idToInstr[p].guard # "none"
        BY DEF IsPredicated, AllReadAlike, ReadAlike
    <2>2. \A d \in AllDefs : d \in Gens(idToInstr, p) <=> d[2] = p
        BY <1>2, <1>3 DEF Gens
    <2>3. Kills(idToInstr, p) = IF idToInstr[p].guard # "none" THEN {}
                                ELSE {d \in AllDefs : d[1] \in DefsOf(idToInstr[p])}
                                        \ Gens(idToInstr, p)
        BY <1>1, <1>2, <1>3 DEF Kills
    <2>4. {d \in AllDefs : d[1] \in DefsOf(idToInstr[p])} \ Gens(idToInstr, p)
             = {d \in AllDefs : d[1] \in DefsOf(idToInstr[p]) /\ d[2] # p}
        BY <2>2
    <2> QED  BY <2>1, <2>3, <2>4 DEF Kill
<1> QED  BY <1>2, <1>3, <1>4, <1>5 DEF Maps

\* A function has finitely many definitions.
LEMMA FewDefinitions ==
    ASSUME Shape, Maps, OperandsListed
    PROVE  IsFiniteSet(AllDefs)
<1>1. ASSUME NEW p \in Positions PROVE IsFiniteSet(DefsOf(idToInstr[p]))
    <2> DEFINE i == idToInstr[p]
               K == {j \in Written(i) : i.regs[j] \notin ConstantRegs}
               regs == [k \in K |-> AdjacentRegs(i.regs[k], MultiWriter(i, k))]
    <2>1. IsFiniteSet(K)
        <3>1. DOMAIN i.regs = 1 .. Len(i.regs) /\ Len(i.regs) \in Nat
            BY SequenceDomain DEF OperandsListed
        <3>2. IsFiniteSet(1 .. Len(i.regs))
            BY <3>1, FS_Interval
        <3>3. K \in SUBSET (1 .. Len(i.regs))
            BY <3>1 DEF Written
        <3> HIDE DEF K
        <3> QED  BY <3>2, <3>3, FS_Subset
    <2>2. \A k \in K : IsFiniteSet(regs[k])
        <3> SUFFICES ASSUME NEW r, NEW c \in Nat PROVE IsFiniteSet(AdjacentRegs(r, c))
            BY DEF MultiWriter
        <3> DEFINE at == [n \in 0 .. c - 1 |-> <<r[1], r[2] + n>>]
        <3>1. IsFiniteSet(0 .. c - 1)
            BY FS_Interval
        <3>2. AdjacentRegs(r, c) = {at[n] : n \in 0 .. c - 1}
            BY DEF AdjacentRegs
        <3> HIDE DEF at
        <3> QED  BY <3>1, <3>2, SetOfFew
    <2> HIDE DEF K
    <2>3. IsFiniteSet({regs[k] : k \in K})
        <3> HIDE DEF regs
        <3> QED  BY <2>1, SetOfFew
    <2>4. IsFiniteSet(UNION {regs[k] : k \in K})
        BY <2>2, <2>3, FS_UNION
    <2>5. DefsOf(i) = UNION {regs[k] : k \in K}
        BY DEF DefsOf, K
    <2> QED  BY <2>4, <2>5
<1>2. ASSUME NEW p \in Positions PROVE IsFiniteSet(genMap[p])
    <2> DEFINE pair == [r \in DefsOf(idToInstr[p]) |-> <<r, p>>]
    <2>1. genMap[p] = {pair[r] : r \in DefsOf(idToInstr[p])}
        BY DEF Maps, Gen
    <2> HIDE DEF pair
    <2> QED  BY <1>1, <2>1, SetOfFew
<1>3. IsFiniteSet({genMap[p] : p \in Positions})
    BY InstrEdgesAre, SetOfFew
<1>4. AllDefs = UNION {genMap[p] : p \in Positions}
    BY DEF Maps, AllDefs
<1> QED  BY <1>2, <1>3, <1>4, FS_UNION

Arriving(R, q) == UNION {R[p] : p \in {i \in Positions : <<i, q>> \in InstrEdges}}
Leaving(R, q)  == genMap[q] \cup (Arriving(R, q) \ killMap[q])

\* What a visit can leave behind: nothing that no path brings, and nothing that
\* another visit could take away.
Reached ==
    {R \in [Positions -> SUBSET AllDefs] :
        \A p \in Positions : R[p] \subseteq Leaving(R, p) /\ \A d \in R[p] : Passes(d, p)}

PairsOf(R) == {x \in Positions \X AllDefs : x[2] \in R[x[1]]}

Visits == [p \in Positions |-> [R \in Reached |-> [R EXCEPT ![p] = Leaving(R, p)]]]
Size   == [R \in Reached |-> Cardinality(PairsOf(R))]

\* A visit adds pairs of instructions and definitions, or changes nothing.
LEMMA VisitRaises ==
    ASSUME Shape, Maps, IsFiniteSet(AllDefs), NEW R \in Reached
    PROVE  /\ Size[R] \in 0 .. Cardinality(Positions) * Cardinality(AllDefs)
           /\ Size[R] \in Nat
           /\ \A p \in Positions : /\ Visits[p][R] = [R EXCEPT ![p] = Leaving(R, p)]
                                   /\ Visits[p][R] \in Reached
                                   /\ Visits[p][R] = R \/ Size[R] < Size[Visits[p][R]]
<1>1. /\ IsFiniteSet(Positions \X AllDefs)
      /\ Cardinality(Positions \X AllDefs) = Cardinality(Positions) * Cardinality(AllDefs)
      /\ Cardinality(Positions \X AllDefs) \in Nat
    BY InstrEdgesAre, FS_Product, FS_CardinalityType
<1>2. \A Q \in Reached : /\ Size[Q] = Cardinality(PairsOf(Q)) /\ IsFiniteSet(PairsOf(Q))
                         /\ Cardinality(PairsOf(Q)) \in Nat
                         /\ Cardinality(PairsOf(Q)) <= Cardinality(Positions \X AllDefs)
    <2> SUFFICES ASSUME NEW Q \in Reached
                 PROVE  /\ Size[Q] = Cardinality(PairsOf(Q)) /\ IsFiniteSet(PairsOf(Q))
                        /\ Cardinality(PairsOf(Q)) \in Nat
                        /\ Cardinality(PairsOf(Q)) <= Cardinality(Positions \X AllDefs)
        OBVIOUS
    <2>1. PairsOf(Q) \in SUBSET (Positions \X AllDefs)
        BY DEF PairsOf
    <2>2. Size[Q] = Cardinality(PairsOf(Q))
        BY DEF Size
    <2> QED  BY <1>1, <2>1, <2>2, FS_Subset, FS_CardinalityType
<1>3. ASSUME NEW p \in Positions
      PROVE  /\ Visits[p][R] = [R EXCEPT ![p] = Leaving(R, p)]
             /\ Visits[p][R] \in Reached
             /\ Visits[p][R] = R \/ Size[R] < Size[Visits[p][R]]
    <2> DEFINE Q == [R EXCEPT ![p] = Leaving(R, p)]
    <2>1. Visits[p][R] = [R EXCEPT ![p] = Leaving(R, p)] /\ Visits[p][R] = Q
        BY DEF Visits
    <2>2. /\ R \in [Positions -> SUBSET AllDefs]
          /\ \A q \in Positions : R[q] \subseteq Leaving(R, q) /\ \A d \in R[q] : Passes(d, q)
        BY DEF Reached
    <2>3. genMap[p] \subseteq AllDefs
        BY DEF Shape
    <2>4. Leaving(R, p) \subseteq AllDefs
        BY <2>2, <2>3 DEF Leaving, Arriving
    <2>5. Q \in [Positions -> SUBSET AllDefs]
        BY <2>2, <2>4
    <2>6. \A q \in Positions : Q[q] = IF q = p THEN Leaving(R, p) ELSE R[q]
        BY <2>2
    <2> HIDE DEF Q
    <2>7. \A q \in Positions : R[q] \subseteq Q[q]
        BY <2>2, <2>6
    <2>8. \A q \in Positions : Leaving(R, q) \subseteq Leaving(Q, q)
        BY <2>7 DEF Leaving, Arriving
    <2>9. \A q \in Positions : Q[q] \subseteq Leaving(Q, q)
        BY <2>2, <2>6, <2>8
    <2>10. ASSUME NEW d \in Leaving(R, p) PROVE Passes(d, p)
        <3>1. CASE d \in genMap[p]
            BY <3>1 DEF Maps, Gen, Passes
        <3>2. CASE d \in Arriving(R, p) /\ d \notin killMap[p]
            <4>1. PICK i \in Positions : <<i, p>> \in InstrEdges /\ d \in R[i]
                BY <3>2 DEF Arriving
            <4>2. Passes(d, i) /\ d \in AllDefs
                BY <2>2, <4>1
            <4>3. p \in Sees(d[2], d[1])
                BY <4>1, <4>2, SeesIs DEF Passes
            <4>4. AlwaysWrites(p, d[1]) => d[2] = p
                BY <3>2, <4>2 DEF Maps, Kill, AlwaysWrites
            <4> QED  BY <4>3, <4>4 DEF Passes
        <3> QED  BY <3>1, <3>2 DEF Leaving
    <2>11. Q \in Reached
        BY <2>2, <2>5, <2>6, <2>9, <2>10 DEF Reached
    <2>12. ASSUME Q # R PROVE Size[R] < Size[Q]
        <3>1. PairsOf(R) \in SUBSET PairsOf(Q)
            BY <2>7 DEF PairsOf
        <3>2. Q[p] # R[p]
            <4>1. \A q \in Positions : q # p => Q[q] = R[q]
                BY <2>6
            <4> QED  BY <2>2, <2>5, <2>12, <4>1
        <3>3. PICK d \in Q[p] : d \notin R[p]
            BY <2>7, <3>2
        <3>4. d \in AllDefs
            BY <2>5
        <3>5. <<p, d>> \in PairsOf(Q) /\ <<p, d>> \notin PairsOf(R)
            BY <3>3, <3>4 DEF PairsOf
        <3>6. Cardinality(PairsOf(R)) <= Cardinality(PairsOf(Q))
              /\ Cardinality(PairsOf(R)) # Cardinality(PairsOf(Q))
            BY <1>2, <2>11, <3>1, <3>5, FS_Subset
        <3> QED  BY <1>2, <2>11, <3>6
    <2> QED  BY <2>1, <2>11, <2>12
<1>4. Size[R] \in Nat /\ Size[R] \in 0 .. Cardinality(Positions \X AllDefs)
    <2>1. Size[R] \in Nat /\ Size[R] <= Cardinality(Positions \X AllDefs)
        BY <1>2
    <2> QED  BY <1>1, <2>1
<1> QED  BY <1>1, <1>3, <1>4

\* So does a pass; one that changes nothing leaves the equations solved.
LEMMA ReachPassIs ==
    ASSUME Shape, Maps, AllReadAlike, IsFiniteSet(AllDefs), IsSequence(idToInstr),
           NEW g, IsViewOfCfg(g), NEW R \in Reached
    PROVE  LET Q == ReachPass(g, idToInstr, R)
           IN  /\ Q \in Reached
               /\ Q = R \/ Size[R] < Size[Q]
               /\ Q = R => \A p \in Positions : R[p] = Leaving(R, p)
<1> DEFINE n == Len(idToInstr)
           Visit(B, p) == [B EXCEPT ![p] = Gens(idToInstr, p)
                                             \cup (ReachingIn(g, B, p) \ Kills(idToInstr, p))]
           Eq(r) == r = [p \in 0 .. n |-> IF p = 0 THEN R ELSE Visit(r[p - 1], p)]
           s == CHOOSE r : Eq(r)
<1>1. n \in Nat /\ Positions = 1 .. n
    BY SequenceDomain DEF Positions
<1>2. \A B \in Reached, p \in Positions : Visit(B, p) = Visits[p][B] /\ Visits[p][B] \in Reached
    <2> SUFFICES ASSUME NEW B \in Reached, NEW p \in Positions
                 PROVE  Visit(B, p) = Visits[p][B] /\ Visits[p][B] \in Reached
        OBVIOUS
    <2>1. ReachingIn(g, B, p) = Arriving(B, p)
        BY ReachingInIs DEF Arriving
    <2>2. Visit(B, p) = [B EXCEPT ![p] = Leaving(B, p)]
        BY <2>1, DefinitionsAlike DEF Leaving
    <2> HIDE DEF Visit
    <2> QED  BY <2>2, VisitRaises
<1>3. ReachPass(g, idToInstr, R) = s[n]
    BY DEF ReachPass
<1> HIDE DEF Visit, n
<1>4. Eq(s)
    <2>1. PICK r : Recurs(r, 0, n, R, Visits) /\ \A p \in 0 .. n : r[p] \in Reached
        <3>1. \A p \in 0 + 1 .. n : \A B \in Reached : Visits[p][B] \in Reached
            BY <1>1, <1>2
        <3>2. 0 \in Int /\ n \in Int /\ 0 <= n
            BY <1>1
        <3> QED  BY <3>1, <3>2, RecursionExists
    <2>2. \A p \in 0 .. n : p # 0 => /\ r[p - 1] \in Reached /\ p \in Positions
                                     /\ Visits[p][r[p - 1]] = Visit(r[p - 1], p)
        <3>1. \A p \in 0 .. n : p # 0 => p - 1 \in 0 .. n /\ p \in Positions
            BY <1>1
        <3> QED  BY <1>2, <2>1, <3>1
    <2>3. [p \in 0 .. n |-> IF p = 0 THEN R ELSE Visits[p][r[p - 1]]]
             = [p \in 0 .. n |-> IF p = 0 THEN R ELSE Visit(r[p - 1], p)]
        BY <2>2
    <2>4. Eq(r)
        BY <2>1, <2>3, Zenon DEF Recurs
    <2> HIDE DEF Eq
    <2> QED  BY <2>4
<1> HIDE DEF s
<1>5. s[0] = R /\ \A p \in 0 + 1 .. n : s[p] = Visit(s[p - 1], p)
    BY <1>1, <1>4
<1>6. Passed(s, 0, n, R, Visits, Reached)
    BY <1>1, <1>2, <1>5 DEF Passed
<1>7. Raise(Visits, 0, n, Size, Reached)
    <2>1. 0 + 1 .. n = Positions
        BY <1>1
    <2> QED  BY <2>1, VisitRaises, Zenon DEF Raise
<1>8. /\ s[n] \in Reached
      /\ s[n] = R \/ Size[R] < Size[s[n]]
      /\ s[n] = R => \A p \in 0 + 1 .. n : Visits[p][R] = R
    <2>1. 0 <= n /\ n \in Int
        BY <1>1
    <2> QED  BY <1>6, <1>7, <2>1, PassRaises
<1>9. ASSUME s[n] = R, NEW p \in Positions PROVE R[p] = Leaving(R, p)
    <2>1. R = [R EXCEPT ![p] = Leaving(R, p)]
        <3>1. p \in 0 + 1 .. n
            BY <1>1
        <3> QED  BY <1>8, <1>9, <3>1, VisitRaises, Zenon
    <2>2. DOMAIN R = Positions
        BY DEF Reached
    <2> QED  BY <2>1, <2>2
<1> QED  BY <1>3, <1>8, <1>9

\* As many passes as there are such pairs solve them.
LEMMA SettledReachIs ==
    ASSUME Shape, Maps, AllReadAlike, OperandsListed, IsSequence(idToInstr),
           NEW g, IsViewOfCfg(g)
    PROVE  LET R == SettledReach(g, idToInstr)
           IN  R \in Reached /\ \A p \in Positions : R[p] = Leaving(R, p)
<1> DEFINE m == Len(idToInstr) * Cardinality(AllDefinitions(idToInstr))
           none == [p \in DOMAIN idToInstr |-> {}]
           pass == [R \in Reached |-> ReachPass(g, idToInstr, R)]
           passes == [k \in 0 + 1 .. m |-> pass]
           Eq(r) == r = [n \in 0 .. m |-> IF n = 0 THEN none
                                          ELSE ReachPass(g, idToInstr, r[n - 1])]
           s == CHOOSE r : Eq(r)
<1>1. IsFiniteSet(AllDefs)
    BY FewDefinitions
<1>2. /\ Cardinality(Positions) = Len(idToInstr) /\ Positions = DOMAIN idToInstr
      /\ AllDefinitions(idToInstr) = AllDefs
    <2>1. Positions = 1 .. Len(idToInstr) /\ Len(idToInstr) \in Nat
        BY SequenceDomain DEF Positions
    <2>2. Cardinality(Positions) = Len(idToInstr)
        <3>1. \A n \in Nat : Cardinality(1 .. n) = n
            <4>1. \A n \in Nat : Cardinality(1 .. n) = IF 1 > n THEN 0 ELSE n - 1 + 1
                BY FS_Interval
            <4> QED  BY <4>1
        <3> QED  BY <2>1, <3>1
    <2> QED  BY <2>2, DefinitionsAlike DEF Positions
<1>3. m \in Nat /\ m = Cardinality(Positions) * Cardinality(AllDefs)
    <2>1. Cardinality(Positions) \in Nat /\ Cardinality(AllDefs) \in Nat
        BY <1>1, InstrEdgesAre, FS_CardinalityType
    <2> QED  BY <1>2, <2>1
<1>4. none \in Reached
    <2>1. none \in [Positions -> SUBSET AllDefs] /\ \A p \in Positions : none[p] = {}
        BY <1>2
    <2> QED  BY <2>1 DEF Reached
<1>5. SettledReach(g, idToInstr) = s[m]
    BY DEF SettledReach
<1> HIDE DEF m, none
<1>6. \A R \in Reached :
          /\ pass[R] = ReachPass(g, idToInstr, R) /\ pass[R] \in Reached
          /\ pass[R] = R \/ Size[R] < Size[pass[R]]
          /\ pass[R] = R => \A p \in Positions : R[p] = Leaving(R, p)
    BY <1>1, ReachPassIs
<1> HIDE DEF pass
<1>7. Eq(s)
    <2>1. PICK r : Recurs(r, 0, m, none, passes) /\ \A k \in 0 .. m : r[k] \in Reached
        <3>1. \A k \in 0 + 1 .. m : \A R \in Reached : passes[k][R] \in Reached
            BY <1>6
        <3>2. 0 \in Int /\ m \in Int /\ 0 <= m
            BY <1>3
        <3> HIDE DEF passes
        <3> QED  BY <1>4, <3>1, <3>2, RecursionExists
    <2>2. \A k \in 0 .. m : k # 0 => passes[k][r[k - 1]] = ReachPass(g, idToInstr, r[k - 1])
        <3>1. \A k \in 0 .. m : k # 0 => k - 1 \in 0 .. m /\ k \in 0 + 1 .. m
            BY <1>3
        <3> QED  BY <1>6, <2>1, <3>1
    <2>3. [k \in 0 .. m |-> IF k = 0 THEN none ELSE passes[k][r[k - 1]]]
             = [k \in 0 .. m |-> IF k = 0 THEN none ELSE ReachPass(g, idToInstr, r[k - 1])]
        BY <2>2
    <2>4. Eq(r)
        BY <2>1, <2>3, Zenon DEF Recurs
    <2> HIDE DEF Eq
    <2> QED  BY <2>4
<1> HIDE DEF s
<1>8. Iterates(s, m, none, pass, Reached)
    <2>1. \A k \in 0 .. m - 1 : k + 1 \in 0 .. m /\ k + 1 # 0 /\ (k + 1) - 1 = k
        BY <1>3
    <2>2. 0 \in 0 .. m
        BY <1>3
    <2>3. \A k \in 0 .. m : s[k] = IF k = 0 THEN none ELSE ReachPass(g, idToInstr, s[k - 1])
        BY <1>7
    <2> QED  BY <1>6, <2>1, <2>2, <2>3 DEF Iterates
<1>9. RaisesUpTo(pass, m, Size, Reached)
    BY <1>1, <1>3, <1>6, VisitRaises DEF RaisesUpTo
<1>10. s[m] \in Reached /\ pass[s[m]] = s[m]
    BY <1>3, <1>4, <1>8, <1>9, Settles
<1> QED  BY <1>5, <1>6, <1>10

\* The least solution is what the paths bring, and no pass goes beyond it.
LEMMA ReadDefinitionsAre ==
    ASSUME Shape, Maps, AllReadAlike, OperandsListed, IsSequence(idToInstr),
           NEW g, IsViewOfCfg(g), NEW p \in Positions
    PROVE  ReadDefinitions(g, idToInstr)[p]
              = {d[2] : d \in {e \in AllDefs : /\ p \in Sees(e[2], e[1])
                                               /\ e[1] \in LegacyReads(idToInstr[p])}}
<1> DEFINE R == SettledReach(g, idToInstr)
<1>1. R \in Reached /\ \A q \in Positions : R[q] = Leaving(R, q)
    BY SettledReachIs
<1>2. ReadDefinitions(g, idToInstr)[p]
         = {d[2] : d \in {e \in ReachingIn(g, R, p) : e[1] \in LegacyReads(idToInstr[p])}}
    BY DEF ReadDefinitions, Positions
<1> HIDE DEF R
<1>3. ReachingIn(g, R, p) = Arriving(R, p)
    BY ReachingInIs DEF Arriving
<1>4. \A q \in Positions : R[q] \subseteq AllDefs /\ \A d \in R[q] : Passes(d, q)
    BY <1>1 DEF Reached
<1>5. ASSUME NEW d \in Arriving(R, p) PROVE d \in AllDefs /\ p \in Sees(d[2], d[1])
    <2>1. PICK i \in Positions : <<i, p>> \in InstrEdges /\ d \in R[i]
        BY <1>5 DEF Arriving
    <2>2. Passes(d, i) /\ d \in AllDefs
        BY <1>4, <2>1
    <2> QED  BY <2>1, <2>2, SeesIs DEF Passes
<1>6. ASSUME NEW d \in AllDefs, p \in Sees(d[2], d[1]) PROVE d \in Arriving(R, p)
    <2> DEFINE T == {q \in Positions : d \in Arriving(R, q)}
    <2>1. ASSUME NEW e \in InstrEdges, d \in R[e[1]] PROVE e[2] \in T
        <3>1. e[1] \in Positions /\ e[2] \in Positions /\ e = <<e[1], e[2]>>
            BY InstrEdgesAre DEF InstrEdges
        <3> QED  BY <2>1, <3>1 DEF Arriving
    <2>2. d \in R[d[2]] /\ d[2] \in Positions
        <3>1. PICK q \in Positions : d \in Gen(idToInstr, q)
            BY DEF AllDefs, Maps
        <3>2. d[2] = q
            BY <3>1 DEF Gen
        <3> QED  BY <1>1, <3>1, <3>2 DEF Leaving, Maps
    <2>3. ASSUME NEW e \in InstrEdges, e[1] \in T, ~ AlwaysWrites(e[1], d[1])
          PROVE  e[2] \in T
        <3>1. e[1] \in Positions /\ d \in Arriving(R, e[1])
            BY <2>3
        <3>2. d \notin killMap[e[1]]
            BY <2>3, <3>1 DEF Maps, Kill, AlwaysWrites
        <3>3. d \in R[e[1]]
            BY <1>1, <3>1, <3>2 DEF Leaving
        <3> QED  BY <2>1, <3>3
    <2>4. Sees(d[2], d[1]) \subseteq T
        <3>1. \A e \in InstrEdges : e[1] = d[2] => e[2] \in T
            BY <2>1, <2>2
        <3> HIDE DEF T
        <3> QED  BY <2>3, <3>1, SeesIs
    <2> QED  BY <1>6, <2>4
<1>7. Arriving(R, p) = {e \in AllDefs : p \in Sees(e[2], e[1])}
    BY <1>5, <1>6
<1> QED  BY <1>2, <1>3, <1>7

\* Where no address that is not read is reached, both slicers follow the same
\* definitions; elsewhere the earlier one follows no others.
LEMMA SameDefinitionsRead ==
    ASSUME Shape, Maps, AllReadAlike, OperandsListed, IsSequence(idToInstr),
           NEW g, IsViewOfCfg(g), NEW p \in Positions
    PROVE  /\ ReadDefinitions(g, idToInstr)[p] \subseteq DataDependencies(p)
           /\ (\A d \in AllDefs : p \in Sees(d[2], d[1]) => d[1] \notin UnreadAddresses(idToInstr[p]))
                 => ReadDefinitions(g, idToInstr)[p] = DataDependencies(p)
<1>1. AllDefs = UNION {Gen(idToInstr, q) : q \in Positions}
    BY DEF Maps, AllDefs
<1>2. DataDependencies(p)
         = {d[2] : d \in {e \in AllDefs : p \in Sees(e[2], e[1]) /\ e[1] \in UsesOf(idToInstr[p])}}
    <2>1. ASSUME NEW q \in DataDependencies(p)
          PROVE  \E d \in AllDefs : p \in Sees(d[2], d[1]) /\ d[1] \in UsesOf(idToInstr[p]) /\ q = d[2]
        <3>1. PICK r \in DefsOf(idToInstr[q]) \cap UsesOf(idToInstr[p]) : p \in Sees(q, r)
            BY DEF DataDependencies
        <3>2. q \in Positions
            BY DEF DataDependencies
        <3>3. <<r, q>> \in AllDefs /\ <<r, q>>[1] = r /\ <<r, q>>[2] = q
            BY <1>1, <3>1, <3>2 DEF Gen
        <3> QED  BY <3>1, <3>3
    <2>2. ASSUME NEW d \in AllDefs, p \in Sees(d[2], d[1]), d[1] \in UsesOf(idToInstr[p])
          PROVE  d[2] \in DataDependencies(p)
        <3>1. PICK x \in Positions : d \in Gen(idToInstr, x)
            BY <1>1
        <3>2. d[2] = x /\ d[1] \in DefsOf(idToInstr[x])
            BY <3>1 DEF Gen
        <3> QED  BY <2>2, <3>2 DEF DataDependencies
    <2> QED  BY <2>1, <2>2
<1>3. /\ LegacyReads(idToInstr[p]) \subseteq UsesOf(idToInstr[p])
      /\ UsesOf(idToInstr[p]) \subseteq LegacyReads(idToInstr[p]) \cup UnreadAddresses(idToInstr[p])
    BY DEF AllReadAlike, ReadAlike
<1>4. ReadDefinitions(g, idToInstr)[p]
         = {d[2] : d \in {e \in AllDefs : /\ p \in Sees(e[2], e[1])
                                          /\ e[1] \in LegacyReads(idToInstr[p])}}
    BY ReadDefinitionsAre
<1> QED  BY <1>2, <1>3, <1>4

-----------------------------------------------------------------------------
(* The earlier slicer's post-dominators.                                   *)

\* The blocks of the two graphs correspond, the one behind the exits to the last.
LEMMA ViewBlocks ==
    ASSUME Shape, NEW g, IsViewOfCfg(g)
    PROVE  /\ VirtualExit \in AllBlocks /\ DOMAIN cfg \subseteq AllBlocks
           /\ VirtualExit \notin DOMAIN cfg
           /\ \A b \in AllBlocks : Named(b) \in DOMAIN g /\ Named(b) # StartBlock
           /\ \A b \in DOMAIN cfg : Named(b) = b
           /\ Named(VirtualExit) = ExitBlock
           /\ \A b, c \in AllBlocks : Named(b) = Named(c) => b = c
           /\ \A d \in DOMAIN g : d = StartBlock \/ \E b \in AllBlocks : d = Named(b)
           /\ \A b \in DOMAIN cfg :
                 /\ \A s \in ToSet(RevPreds(b)) : Named(s) \in Successors(g, b)
                 /\ \A d \in Successors(g, b) : \E s \in ToSet(RevPreds(b)) : d = Named(s)
           /\ NoBlock \in Int /\ Cardinality(DOMAIN g) \in Nat
           /\ IsFiniteSet(DOMAIN g)
           /\ DOMAIN g = NoBlock + 1 .. Cardinality(DOMAIN g) + NoBlock
           /\ NoBlock <= Cardinality(DOMAIN g) + NoBlock
<1>1. /\ DOMAIN g = DOMAIN cfg \cup {StartBlock, ExitBlock}
      /\ \A k \in DOMAIN cfg : Successors(g, k) = {Named(s) : s \in ToSet(RevPreds(k))}
    BY DEF IsViewOfCfg
<1>2. VirtualExit \in Nat /\ DOMAIN cfg = 0 .. VirtualExit - 1
    BY GraphsAssumption DEF Shape, IsCfg, VirtualExit
<1>3. AllBlocks = DOMAIN cfg \cup {VirtualExit}
    BY DEF AllBlocks
<1>4. StartBlock = -2 /\ ExitBlock = -1 /\ NoBlock = -3
    BY DEF StartBlock, ExitBlock, NoBlock
<1>5. DOMAIN g = -2 .. VirtualExit - 1
    BY <1>1, <1>2, <1>4
<1>6. IsFiniteSet(DOMAIN g) /\ Cardinality(DOMAIN g) = VirtualExit + 2
    <2>1. /\ IsFiniteSet(-2 .. VirtualExit - 1)
          /\ Cardinality(-2 .. VirtualExit - 1)
                = IF -2 > VirtualExit - 1 THEN 0 ELSE (VirtualExit - 1) - (-2) + 1
        BY <1>2, FS_Interval
    <2> QED  BY <1>2, <1>5, <2>1
<1>7. /\ \A b \in DOMAIN cfg : Named(b) = b
      /\ Named(VirtualExit) = ExitBlock
    BY <1>2 DEF Named
<1>8. \A b \in AllBlocks : Named(b) \in DOMAIN g /\ Named(b) # StartBlock
    BY <1>1, <1>2, <1>3, <1>4, <1>7
<1>9. \A b, c \in AllBlocks : Named(b) = Named(c) => b = c
    BY <1>2, <1>3, <1>4, <1>7
<1>10. \A d \in DOMAIN g : d = StartBlock \/ \E b \in AllBlocks : d = Named(b)
    BY <1>1, <1>3, <1>7
<1>11. DOMAIN g = NoBlock + 1 .. Cardinality(DOMAIN g) + NoBlock
    BY <1>2, <1>4, <1>5, <1>6
<1>12. /\ NoBlock \in Int /\ Cardinality(DOMAIN g) \in Nat
       /\ NoBlock <= Cardinality(DOMAIN g) + NoBlock
    BY <1>2, <1>4, <1>6
<1>13. VirtualExit \notin DOMAIN cfg
    BY <1>2
<1> QED  BY <1>1, <1>3, <1>6, <1>7, <1>8, <1>9, <1>10, <1>11, <1>12, <1>13

NewDoms(g, D, b) ==
    {b} \cup {d \in DOMAIN g : Successors(g, b) # {} /\ \A s \in Successors(g, b) : d \in D[s]}

\* What a visit can leave behind: no post-dominator is gone, and another visit
\* could add none.
Narrowed(g) ==
    {D \in [DOMAIN g -> SUBSET DOMAIN g] :
        /\ \A b \in DOMAIN g : NewDoms(g, D, b) \subseteq D[b]
        /\ \A b \in AllBlocks : \A c \in MustPass(b) : Named(c) \in D[Named(b)]}

MissingFrom(g, D) == {x \in (DOMAIN g) \X (DOMAIN g) : x[2] \notin D[x[1]]}

DomVisits(g) ==
    [b \in DOMAIN g |-> [D \in Narrowed(g) |-> [D EXCEPT ![b] = NewDoms(g, D, b)]]]
Gone(g) == [D \in Narrowed(g) |-> Cardinality(MissingFrom(g, D))]

\* A visit takes blocks away, or changes nothing.
LEMMA DomVisitRaises ==
    ASSUME Shape, ChoicesExit(cfg), NEW g, IsViewOfCfg(g), NEW D \in Narrowed(g)
    PROVE  /\ Gone(g)[D] \in 0 .. Cardinality(DOMAIN g) * Cardinality(DOMAIN g)
           /\ Gone(g)[D] \in Nat
           /\ \A b \in DOMAIN g :
                 /\ DomVisits(g)[b][D] = [D EXCEPT ![b] = NewDoms(g, D, b)]
                 /\ DomVisits(g)[b][D] \in Narrowed(g)
                 /\ DomVisits(g)[b][D] = D \/ Gone(g)[D] < Gone(g)[DomVisits(g)[b][D]]
<1> DEFINE Ds == Narrowed(g)
           all == (DOMAIN g) \X (DOMAIN g)
<1>1. /\ IsFiniteSet(all)
      /\ Cardinality(all) = Cardinality(DOMAIN g) * Cardinality(DOMAIN g)
      /\ Cardinality(all) \in Nat
    BY ViewBlocks, FS_Product, FS_CardinalityType
<1>2. \A Q \in Ds : /\ Gone(g)[Q] = Cardinality(MissingFrom(g, Q))
                    /\ IsFiniteSet(MissingFrom(g, Q))
                    /\ Cardinality(MissingFrom(g, Q)) \in Nat
                    /\ Cardinality(MissingFrom(g, Q)) <= Cardinality(all)
    <2> SUFFICES ASSUME NEW Q \in Ds
                 PROVE  /\ Gone(g)[Q] = Cardinality(MissingFrom(g, Q))
                        /\ IsFiniteSet(MissingFrom(g, Q))
                        /\ Cardinality(MissingFrom(g, Q)) \in Nat
                        /\ Cardinality(MissingFrom(g, Q)) <= Cardinality(all)
        OBVIOUS
    <2>1. MissingFrom(g, Q) \in SUBSET all
        BY DEF MissingFrom
    <2>2. Gone(g)[Q] = Cardinality(MissingFrom(g, Q))
        BY DEF Gone
    <2> HIDE DEF all
    <2> QED  BY <1>1, <2>1, <2>2, FS_Subset, FS_CardinalityType
<1>3. ASSUME NEW b \in DOMAIN g
      PROVE  /\ DomVisits(g)[b][D] = [D EXCEPT ![b] = NewDoms(g, D, b)]
             /\ DomVisits(g)[b][D] \in Ds
             /\ DomVisits(g)[b][D] = D \/ Gone(g)[D] < Gone(g)[DomVisits(g)[b][D]]
    <2> DEFINE Q == [D EXCEPT ![b] = NewDoms(g, D, b)]
    <2>1. DomVisits(g)[b][D] = [D EXCEPT ![b] = NewDoms(g, D, b)] /\ DomVisits(g)[b][D] = Q
        BY DEF DomVisits
    <2>2. /\ D \in [DOMAIN g -> SUBSET DOMAIN g]
          /\ \A a \in DOMAIN g : NewDoms(g, D, a) \subseteq D[a]
          /\ \A a \in AllBlocks : \A c \in MustPass(a) : Named(c) \in D[Named(a)]
        BY DEF Narrowed
    <2>3. NewDoms(g, D, b) \subseteq DOMAIN g
        BY DEF NewDoms
    <2>4. Q \in [DOMAIN g -> SUBSET DOMAIN g]
          /\ \A a \in DOMAIN g : Q[a] = IF a = b THEN NewDoms(g, D, b) ELSE D[a]
        BY <2>2, <2>3
    <2> HIDE DEF Q
    <2>5. \A a \in DOMAIN g : Q[a] \subseteq D[a]
        BY <2>2, <2>4
    <2>6. \A a \in DOMAIN g : Successors(g, a) \subseteq DOMAIN g
        <3>1. \A a \in DOMAIN g : a = StartBlock \/ a = ExitBlock \/ a \in DOMAIN cfg
            BY DEF IsViewOfCfg
        <3>2. Successors(g, StartBlock) \subseteq DOMAIN g
            BY DEF IsViewOfCfg
        <3>3. Successors(g, ExitBlock) \subseteq DOMAIN g
            BY DEF IsViewOfCfg
        <3>4. \A a \in DOMAIN cfg : Successors(g, a) \subseteq DOMAIN g
            BY ViewBlocks, BlockEdgesAre
        <3> QED  BY <3>1, <3>2, <3>3, <3>4
    <2>7. \A a \in DOMAIN g : NewDoms(g, Q, a) \subseteq NewDoms(g, D, a)
        BY <2>5, <2>6 DEF NewDoms
    <2>8. \A a \in DOMAIN g : NewDoms(g, Q, a) \subseteq Q[a]
        BY <2>2, <2>4, <2>7
    <2>9. ASSUME NEW a \in AllBlocks, NEW c \in MustPass(a) PROVE Named(c) \in Q[Named(a)]
        <3>1. Named(c) \in D[Named(a)] /\ Named(a) \in DOMAIN g /\ c \in AllBlocks
              /\ Named(c) \in DOMAIN g
            BY <2>2, ViewBlocks DEF MustPass
        <3>2. CASE Named(a) # b
            BY <2>4, <3>1, <3>2
        <3>3. CASE Named(a) = b /\ c = a
            BY <2>4, <3>1, <3>3 DEF NewDoms
        <3>4. CASE Named(a) = b /\ c # a
            <4>1. a \in DOMAIN cfg
                <5>1. a # VirtualExit
                    BY <3>4, MustPassIs
                <5> QED  BY <5>1 DEF AllBlocks
            <4>2. a = b
                BY <3>4, <4>1, ViewBlocks
            <4>3. \A s \in ToSet(RevPreds(a)) : s \in AllBlocks /\ c \in MustPass(s)
                BY <3>1, <3>4, <4>1, BlockEdgesAre, MustPassIs
            <4>4. \A s \in ToSet(RevPreds(a)) : Named(c) \in D[Named(s)]
                BY <2>2, <4>3
            <4>5. \A d \in Successors(g, a) : Named(c) \in D[d]
                BY <4>1, <4>4, ViewBlocks
            <4>6. Successors(g, a) # {}
                <5>1. PICK s : s \in ToSet(RevPreds(a))
                    <6>1. RevPreds(a) # <<>> /\ IsSequence(RevPreds(a))
                        BY <4>1, WayOut, BlockEdgesAre
                    <6>2. 1 \in DOMAIN RevPreds(a)
                        BY <6>1, SequenceDomain
                    <6> QED  BY <6>2 DEF ToSet
                <5> QED  BY <4>1, <5>1, ViewBlocks
            <4> QED  BY <2>4, <3>1, <4>2, <4>5, <4>6 DEF NewDoms
        <3> QED  BY <3>2, <3>3, <3>4
    <2>10. Q \in Ds
        BY <2>4, <2>8, <2>9 DEF Narrowed
    <2>11. ASSUME Q # D PROVE Gone(g)[D] < Gone(g)[Q]
        <3>1. MissingFrom(g, D) \in SUBSET MissingFrom(g, Q)
            BY <2>5 DEF MissingFrom
        <3>2. Q[b] # D[b]
            <4>1. \A a \in DOMAIN g : a # b => Q[a] = D[a]
                BY <2>4
            <4> QED  BY <2>2, <2>4, <2>11, <4>1
        <3>3. PICK d \in D[b] : d \notin Q[b]
            BY <2>5, <3>2
        <3>4. d \in DOMAIN g
            BY <2>2
        <3>5. <<b, d>> \in MissingFrom(g, Q) /\ <<b, d>> \notin MissingFrom(g, D)
            BY <3>3, <3>4 DEF MissingFrom
        <3>6. Cardinality(MissingFrom(g, D)) <= Cardinality(MissingFrom(g, Q))
              /\ Cardinality(MissingFrom(g, D)) # Cardinality(MissingFrom(g, Q))
            BY <1>2, <2>10, <3>1, <3>5, FS_Subset
        <3> QED  BY <1>2, <2>10, <3>6
    <2> QED  BY <2>1, <2>10, <2>11
<1>4. Gone(g)[D] \in Nat /\ Gone(g)[D] \in 0 .. Cardinality(all)
    <2>1. Gone(g)[D] \in Nat /\ Gone(g)[D] <= Cardinality(all)
        BY <1>2
    <2> HIDE DEF all
    <2> QED  BY <1>1, <2>1
<1> QED  BY <1>1, <1>3, <1>4

\* So does a pass; one that changes nothing leaves the equations solved.
LEMMA DomPassIs ==
    ASSUME Shape, ChoicesExit(cfg), NEW g, IsViewOfCfg(g), NEW D \in Narrowed(g)
    PROVE  LET Q == DomPass(g, D)
           IN  /\ Q \in Narrowed(g)
               /\ Q = D \/ Gone(g)[D] < Gone(g)[Q]
               /\ Q = D => \A b \in DOMAIN g : D[b] = NewDoms(g, D, b)
<1> DEFINE lo == NoBlock
           hi == Cardinality(DOMAIN g) + NoBlock
           Visit(B, b) == [B EXCEPT ![b] =
                              {b} \cup {d \in DOMAIN g : /\ Successors(g, b) # {}
                                                         /\ \A s \in Successors(g, b) : d \in B[s]}]
           Eq(r) == r = [b \in lo .. hi |-> IF b = lo THEN D ELSE Visit(r[b - 1], b)]
           s == CHOOSE r : Eq(r)
<1>1. lo \in Int /\ hi \in Int /\ lo <= hi /\ DOMAIN g = lo + 1 .. hi
    BY ViewBlocks
<1>2. \A B \in Narrowed(g), b \in DOMAIN g :
          Visit(B, b) = DomVisits(g)[b][B] /\ DomVisits(g)[b][B] \in Narrowed(g)
    <2> SUFFICES ASSUME NEW B \in Narrowed(g), NEW b \in DOMAIN g
                 PROVE  Visit(B, b) = DomVisits(g)[b][B] /\ DomVisits(g)[b][B] \in Narrowed(g)
        OBVIOUS
    <2>1. Visit(B, b) = [B EXCEPT ![b] = NewDoms(g, B, b)]
        BY DEF NewDoms
    <2> HIDE DEF Visit
    <2> QED  BY <2>1, DomVisitRaises
<1>3. DomPass(g, D) = s[hi]
    BY DEF DomPass
<1> HIDE DEF Visit, lo, hi
<1>4. Eq(s)
    <2>1. PICK r : /\ Recurs(r, lo, hi, D, DomVisits(g))
                   /\ \A b \in lo .. hi : r[b] \in Narrowed(g)
        <3>1. \A b \in lo + 1 .. hi : \A B \in Narrowed(g) : DomVisits(g)[b][B] \in Narrowed(g)
            BY <1>1, <1>2
        <3> QED  BY <1>1, <3>1, RecursionExists
    <2>2. \A b \in lo .. hi : b # lo => DomVisits(g)[b][r[b - 1]] = Visit(r[b - 1], b)
        <3>1. \A b \in lo .. hi : b # lo => b - 1 \in lo .. hi /\ b \in DOMAIN g
            BY <1>1
        <3> QED  BY <1>2, <2>1, <3>1
    <2>3. [b \in lo .. hi |-> IF b = lo THEN D ELSE DomVisits(g)[b][r[b - 1]]]
             = [b \in lo .. hi |-> IF b = lo THEN D ELSE Visit(r[b - 1], b)]
        BY <2>2
    <2>4. Eq(r)
        BY <2>1, <2>3, Zenon DEF Recurs
    <2> HIDE DEF Eq
    <2> QED  BY <2>4
<1> HIDE DEF s
<1>5. Passed(s, lo, hi, D, DomVisits(g), Narrowed(g))
    <2>1. lo \in lo .. hi /\ \A b \in lo + 1 .. hi : b \in lo .. hi /\ b # lo
        BY <1>1
    <2>2. s[lo] = D /\ \A b \in lo + 1 .. hi : s[b] = Visit(s[b - 1], b)
        BY <1>4, <2>1
    <2> QED  BY <1>1, <1>2, <2>2 DEF Passed
<1>6. Raise(DomVisits(g), lo, hi, Gone(g), Narrowed(g))
    BY <1>1, DomVisitRaises, Zenon DEF Raise
<1>7. /\ s[hi] \in Narrowed(g)
      /\ s[hi] = D \/ Gone(g)[D] < Gone(g)[s[hi]]
      /\ s[hi] = D => \A b \in lo + 1 .. hi : DomVisits(g)[b][D] = D
    BY <1>1, <1>5, <1>6, PassRaises
<1>8. ASSUME s[hi] = D, NEW b \in DOMAIN g PROVE D[b] = NewDoms(g, D, b)
    <2>1. D = [D EXCEPT ![b] = NewDoms(g, D, b)]
        <3>1. b \in lo + 1 .. hi
            BY <1>1
        <3>2. DomVisits(g)[b][D] = D
            BY <1>7, <1>8, <3>1
        <3>3. DomVisits(g)[b][D] = [D EXCEPT ![b] = NewDoms(g, D, b)]
            BY DomVisitRaises
        <3> QED  BY <3>2, <3>3
    <2>2. DOMAIN D = DOMAIN g
        BY DEF Narrowed
    <2> QED  BY <2>1, <2>2
<1> QED  BY <1>3, <1>7, <1>8

\* The sets that remain are the blocks that every way to an exit passes.
LEMMA PostDomsAre ==
    ASSUME Shape, ChoicesExit(cfg), NEW g, IsViewOfCfg(g)
    PROVE  /\ PostDoms(g) \in [DOMAIN g -> SUBSET DOMAIN g]
           /\ \A b \in Live : PostDoms(g)[Named(b)] = {Named(c) : c \in MustPass(b)}
<1> DEFINE m == Cardinality(DOMAIN g) * Cardinality(DOMAIN g)
           full == [b \in DOMAIN g |-> DOMAIN g]
           pass == [D \in Narrowed(g) |-> DomPass(g, D)]
           passes == [k \in 0 + 1 .. m |-> pass]
           Eq(r) == r = [n \in 0 .. m |-> IF n = 0 THEN full ELSE DomPass(g, r[n - 1])]
           s == CHOOSE r : Eq(r)
<1>1. m \in Nat
    BY ViewBlocks
<1>2. full \in Narrowed(g)
    <2>1. full \in [DOMAIN g -> SUBSET DOMAIN g] /\ \A b \in DOMAIN g : full[b] = DOMAIN g
        OBVIOUS
    <2>2. \A b \in DOMAIN g : NewDoms(g, full, b) \subseteq full[b]
        BY DEF NewDoms
    <2>3. \A b \in AllBlocks : \A c \in MustPass(b) : Named(c) \in full[Named(b)]
        BY ViewBlocks DEF MustPass
    <2> QED  BY <2>1, <2>2, <2>3 DEF Narrowed
<1>3. PostDoms(g) = s[m]
    BY DEF PostDoms
<1> HIDE DEF m, full
<1>4. \A D \in Narrowed(g) :
          /\ pass[D] = DomPass(g, D) /\ pass[D] \in Narrowed(g)
          /\ pass[D] = D \/ Gone(g)[D] < Gone(g)[pass[D]]
          /\ pass[D] = D => \A b \in DOMAIN g : D[b] = NewDoms(g, D, b)
    BY DomPassIs
<1> HIDE DEF pass
<1>5. Eq(s)
    <2>1. PICK r : Recurs(r, 0, m, full, passes) /\ \A k \in 0 .. m : r[k] \in Narrowed(g)
        <3>1. \A k \in 0 + 1 .. m : \A D \in Narrowed(g) : passes[k][D] \in Narrowed(g)
            BY <1>4
        <3>2. 0 \in Int /\ m \in Int /\ 0 <= m
            BY <1>1
        <3> HIDE DEF passes
        <3> QED  BY <1>2, <3>1, <3>2, RecursionExists
    <2>2. \A k \in 0 .. m : k # 0 => passes[k][r[k - 1]] = DomPass(g, r[k - 1])
        <3>1. \A k \in 0 .. m : k # 0 => k - 1 \in 0 .. m /\ k \in 0 + 1 .. m
            BY <1>1
        <3> QED  BY <1>4, <2>1, <3>1
    <2>3. [k \in 0 .. m |-> IF k = 0 THEN full ELSE passes[k][r[k - 1]]]
             = [k \in 0 .. m |-> IF k = 0 THEN full ELSE DomPass(g, r[k - 1])]
        BY <2>2
    <2>4. Eq(r)
        BY <2>1, <2>3, Zenon DEF Recurs
    <2> HIDE DEF Eq
    <2> QED  BY <2>4
<1> HIDE DEF s
<1>6. Iterates(s, m, full, pass, Narrowed(g))
    <2>1. \A k \in 0 .. m - 1 : k + 1 \in 0 .. m /\ k + 1 # 0 /\ (k + 1) - 1 = k
        BY <1>1
    <2>2. 0 \in 0 .. m
        BY <1>1
    <2>3. \A k \in 0 .. m : s[k] = IF k = 0 THEN full ELSE DomPass(g, s[k - 1])
        BY <1>5
    <2> QED  BY <1>4, <2>1, <2>2, <2>3 DEF Iterates
<1>7. RaisesUpTo(pass, m, Gone(g), Narrowed(g))
    BY <1>4, DomVisitRaises DEF RaisesUpTo, m
<1>8. s[m] \in Narrowed(g) /\ pass[s[m]] = s[m]
    BY <1>1, <1>2, <1>6, <1>7, Settles
<1> DEFINE D == s[m]
<1>9. /\ D \in [DOMAIN g -> SUBSET DOMAIN g]
      /\ \A b \in AllBlocks : \A c \in MustPass(b) : Named(c) \in D[Named(b)]
      /\ \A b \in DOMAIN g : D[b] = NewDoms(g, D, b)
    BY <1>4, <1>8 DEF Narrowed
<1> HIDE DEF D
<1>10. ASSUME NEW b \in Live, NEW d \in D[Named(b)]
       PROVE  \E c \in MustPass(b) : d = Named(c)
    <2>0. b \in AllBlocks
        BY LiveIs
    <2>1. d \in DOMAIN g
        BY <1>9, <2>0, ViewBlocks
    <2>2. CASE d = ExitBlock
        BY <2>0, <2>2, ViewBlocks, MustPassIs
    <2>3. CASE d # ExitBlock
        <3> DEFINE T == {y \in AllBlocks : d \in D[Named(y)]}
        <3>1. VirtualExit \notin T
            <4>1. D[ExitBlock] = NewDoms(g, D, ExitBlock)
                BY <1>9 DEF IsViewOfCfg
            <4>2. NewDoms(g, D, ExitBlock) = {ExitBlock}
                BY DEF NewDoms, IsViewOfCfg
            <4> QED  BY <2>3, <4>1, <4>2, ViewBlocks
        <3>2. ASSUME NEW e \in BlockEdges, d # Named(e[1]), e[1] \in T PROVE e[2] \in T
            <4>1. e[1] \in DOMAIN cfg /\ e[2] \in ToSet(RevPreds(e[1])) /\ e[2] \in AllBlocks
                BY BlockEdgesAre
            <4>2. d \in NewDoms(g, D, Named(e[1]))
                BY <1>9, <3>2, ViewBlocks
            <4>3. Named(e[2]) \in Successors(g, Named(e[1]))
                BY <4>1, ViewBlocks
            <4> QED  BY <3>2, <4>1, <4>2, <4>3 DEF NewDoms
        <3>3. b \in T
            BY <1>10, <2>0
        <3> HIDE DEF T
        <3>4. CASE d = StartBlock
            <4>1. \A e \in BlockEdges : e[1] \in T => e[2] \in T
                <5>1. \A e \in BlockEdges : Named(e[1]) # StartBlock
                    BY BlockEdgesAre, ViewBlocks
                <5> QED  BY <3>2, <3>4, <5>1
            <4>2. ClosureOf({b}, BlockEdges) \subseteq T
                BY <3>3, <4>1, BlockEdgesAre, ClosureLeast DEF IsClosed
            <4> QED  BY <3>1, <4>2 DEF Live
        <3>5. CASE d # StartBlock
            <4>1. PICK c \in AllBlocks : d = Named(c)
                BY <2>1, <3>5, ViewBlocks
            <4>2. \A e \in BlockEdges : e[1] # c /\ e[1] \in T => e[2] \in T
                <5>1. \A e \in BlockEdges : e[1] \in AllBlocks
                    BY BlockEdgesAre, ViewBlocks
                <5>2. \A e \in BlockEdges : e[1] # c => d # Named(e[1])
                    BY <4>1, <5>1, ViewBlocks
                <5> QED  BY <3>2, <5>2
            <4>3. ClosureOf({b}, Around(BlockEdges, c)) \subseteq T
                BY <3>3, <4>2, BlockEdgesAre, AroundLeast
            <4>4. c \in MustPass(b)
                BY <3>1, <4>1, <4>3 DEF MustPass, Inevitable
            <4> QED  BY <4>1, <4>4
        <3> QED  BY <3>4, <3>5
    <2> QED  BY <2>2, <2>3
<1>11. \A b \in Live : D[Named(b)] = {Named(c) : c \in MustPass(b)}
    BY <1>9, <1>10, LiveIs
<1> QED  BY <1>3, <1>9, <1>11 DEF D

-----------------------------------------------------------------------------
(* The nearest of the blocks that every way from a block passes.           *)

IsNearest(m, b) ==
    /\ m \in MustPass(b) /\ m # b /\ m \in AllBlocks /\ m \in Live
    /\ \A d \in MustPass(b) : d # b => d \in MustPass(m)

\* Of a block that every way passes, less lies behind.
LEMMA FewerBehind ==
    ASSUME Shape, NEW c \in AllBlocks, NEW d \in Live, c \in MustPass(d), c # d
    PROVE  MustPass(c) \in SUBSET MustPass(d) /\ d \in MustPass(d) /\ d \notin MustPass(c)
<1>0. d \in AllBlocks
    BY LiveIs
<1>1. MustPass(c) \subseteq MustPass(d)
    <2>1. MustPass(c) \subseteq AllBlocks
        BY MustPassIs
    <2> QED  BY <1>0, <2>1, MustPassIs
<1>2. d \in MustPass(d) /\ d \notin MustPass(c)
    BY <1>0, MustPassIs
<1> QED  BY <1>1, <1>2

\* Of sets of sizes, those of what is behind a block.
LEMMA BehindCounted ==
    ASSUME Shape
    PROVE  /\ Cardinality(AllBlocks) \in Nat
           /\ \A b \in AllBlocks : Cardinality(MustPass(b)) \in 0 .. Cardinality(AllBlocks)
           /\ \A c \in AllBlocks, d \in Live : c \in MustPass(d) /\ c # d
                 => Cardinality(MustPass(c)) < Cardinality(MustPass(d))
<1>1. IsFiniteSet(AllBlocks) /\ Cardinality(AllBlocks) \in Nat
    BY BlockEdgesAre, FS_CardinalityType
<1>2. \A b \in AllBlocks : /\ IsFiniteSet(MustPass(b)) /\ Cardinality(MustPass(b)) \in Nat
                           /\ Cardinality(MustPass(b)) <= Cardinality(AllBlocks)
    <2> SUFFICES ASSUME NEW b \in AllBlocks
                 PROVE  /\ IsFiniteSet(MustPass(b)) /\ Cardinality(MustPass(b)) \in Nat
                        /\ Cardinality(MustPass(b)) <= Cardinality(AllBlocks)
        OBVIOUS
    <2>1. MustPass(b) \in SUBSET AllBlocks
        BY MustPassIs
    <2> QED  BY <1>1, <2>1, FS_Subset, FS_CardinalityType
<1>3. ASSUME NEW c \in AllBlocks, NEW d \in Live, c \in MustPass(d), c # d
      PROVE  Cardinality(MustPass(c)) < Cardinality(MustPass(d))
    <2>0. d \in AllBlocks
        BY LiveIs
    <2>1. MustPass(c) \in SUBSET MustPass(d) /\ d \in MustPass(d) /\ d \notin MustPass(c)
        BY <1>3, FewerBehind
    <2>2. /\ Cardinality(MustPass(c)) <= Cardinality(MustPass(d))
          /\ Cardinality(MustPass(c)) # Cardinality(MustPass(d))
        BY <1>2, <2>0, <2>1, FS_Subset
    <2> QED  BY <1>2, <2>0, <2>2
<1> QED  BY <1>1, <1>2, <1>3

\* Every block but the end from which an exit is reached has one, as the blocks passed form a chain.
LEMMA NearestExists ==
    ASSUME Shape, NEW b \in DOMAIN cfg, b \in Live
    PROVE  \E m : IsNearest(m, b)
<1> DEFINE cand == MustPass(b) \ {b}
           n == Cardinality(AllBlocks)
           S == {Cardinality(MustPass(c)) : c \in cand}
<1>1. b \in AllBlocks /\ b # VirtualExit /\ VirtualExit \in AllBlocks
    BY BlockEdgesAre DEF AllBlocks
<1>2. cand \subseteq AllBlocks /\ cand \subseteq Live /\ cand # {}
    BY <1>1, LiveIs, MustPassIs
<1>3. n \in Nat /\ S \subseteq 0 .. n /\ S # {}
    BY <1>2, BehindCounted
<1>4. PICK m \in cand : \A d \in cand : Cardinality(MustPass(d)) <= Cardinality(MustPass(m))
    <2>1. Max(S) \in S /\ \A y \in S : y <= Max(S)
        <3> HIDE DEF S
        <3> QED  BY <1>3, MaxMember
    <2>2. PICK m \in cand : Max(S) = Cardinality(MustPass(m))
        BY <2>1
    <2> QED  BY <2>1, <2>2
<1>5. ASSUME NEW d \in cand PROVE d \in MustPass(m)
    <2>1. /\ d \in AllBlocks /\ m \in AllBlocks /\ d \in MustPass(b) /\ m \in MustPass(b)
          /\ d \in Live /\ m \in Live
        BY <1>2
    <2>2. d \in MustPass(m) \/ m \in MustPass(d)
        BY <1>1, <2>1, MustPassIs
    <2>3. CASE m = d
        BY <2>1, <2>3, MustPassIs
    <2>4. CASE m # d /\ m \in MustPass(d)
        <3>1. Cardinality(MustPass(m)) < Cardinality(MustPass(d))
            BY <2>1, <2>4, BehindCounted
        <3>2. Cardinality(MustPass(d)) <= Cardinality(MustPass(m))
            BY <1>4
        <3>3. Cardinality(MustPass(m)) \in Int /\ Cardinality(MustPass(d)) \in Int
            BY <2>1, BehindCounted
        <3> QED  BY <3>1, <3>2, <3>3
    <2> QED  BY <2>2, <2>3, <2>4
<1> QED  BY <1>2, <1>5 DEF IsNearest

NearestTo(b) == CHOOSE m : IsNearest(m, b)

\* The post-dominator with most post-dominators is the nearest.
LEMMA IdomsAre ==
    ASSUME Shape, ChoicesExit(cfg), NEW g, IsViewOfCfg(g), NEW b \in DOMAIN cfg, b \in Live
    PROVE  Idoms(PostDoms(g))[b] = Named(NearestTo(b)) /\ IsNearest(NearestTo(b), b)
<1> DEFINE dom == PostDoms(g)
           m == NearestTo(b)
           deepest == {d \in dom[b] \ {b} :
                          \A e \in dom[b] \ {b} : Cardinality(dom[e]) <= Cardinality(dom[d])}
<1>1. /\ dom \in [DOMAIN g -> SUBSET DOMAIN g]
      /\ \A c \in Live : dom[Named(c)] = {Named(d) : d \in MustPass(c)}
    BY PostDomsAre
<1>2. IsNearest(m, b)
    BY NearestExists DEF NearestTo
<1>3. /\ b \in AllBlocks /\ Named(b) = b /\ b \in DOMAIN g
      /\ \A c \in MustPass(b) : c \in AllBlocks /\ c \in Live /\ Named(c) \in DOMAIN g
    BY ViewBlocks, LiveIs, MustPassIs DEF IsViewOfCfg
<1>4. Idoms(dom)[b] = IF deepest = {} THEN NoBlock ELSE FirstOf(deepest)
    BY <1>1, <1>3 DEF Idoms
<1> HIDE DEF dom, m
<1>5. /\ Named(m) \in dom[b] \ {b}
      /\ \A d \in dom[b] \ {b} : \E c \in MustPass(b) : c # b /\ d = Named(c)
    BY <1>1, <1>2, <1>3, ViewBlocks DEF IsNearest
<1>6. \A d \in DOMAIN g : IsFiniteSet(dom[d]) /\ Cardinality(dom[d]) \in Nat
    <2> SUFFICES ASSUME NEW d \in DOMAIN g PROVE IsFiniteSet(dom[d]) /\ Cardinality(dom[d]) \in Nat
        OBVIOUS
    <2>1. dom[d] \in SUBSET DOMAIN g /\ IsFiniteSet(DOMAIN g)
        BY <1>1, ViewBlocks
    <2> QED  BY <2>1, FS_Subset, FS_CardinalityType
<1>7. ASSUME NEW c \in MustPass(b), c # b, c # m
      PROVE  Cardinality(dom[Named(c)]) < Cardinality(dom[Named(m)])
    <2>1. /\ c \in MustPass(m) /\ c \in AllBlocks /\ m \in AllBlocks
          /\ c \in Live /\ m \in Live
        BY <1>2, <1>3, <1>7 DEF IsNearest
    <2>2. MustPass(c) \in SUBSET MustPass(m) /\ m \in MustPass(m) /\ m \notin MustPass(c)
        BY <1>7, <2>1, FewerBehind
    <2>3. Named(m) \in dom[Named(m)] /\ Named(m) \notin dom[Named(c)]
        <3>1. MustPass(c) \subseteq AllBlocks
            BY <2>1, MustPassIs
        <3> QED  BY <1>1, <2>1, <2>2, <3>1, ViewBlocks
    <2>4. dom[Named(c)] \in SUBSET dom[Named(m)]
        BY <1>1, <2>1, <2>2
    <2>5. Named(c) \in DOMAIN g /\ Named(m) \in DOMAIN g
        BY <2>1, ViewBlocks
    <2>6. /\ Cardinality(dom[Named(c)]) <= Cardinality(dom[Named(m)])
          /\ Cardinality(dom[Named(c)]) # Cardinality(dom[Named(m)])
        BY <1>6, <2>3, <2>4, <2>5, FS_Subset
    <2> QED  BY <1>6, <2>5, <2>6
<1>8. m \in AllBlocks /\ Named(m) \in DOMAIN g /\ Cardinality(dom[Named(m)]) \in Nat
    BY <1>2, <1>6, ViewBlocks DEF IsNearest
<1>9. deepest = {Named(m)}
    <2>1. Named(m) \in deepest
        <3>1. ASSUME NEW e \in dom[b] \ {b}
              PROVE  Cardinality(dom[e]) <= Cardinality(dom[Named(m)])
            <4>1. PICK c \in MustPass(b) : c # b /\ e = Named(c)
                BY <1>5
            <4>2. Cardinality(dom[e]) \in Nat
                BY <1>3, <1>6, <4>1
            <4>3. CASE c = m
                BY <1>8, <4>1, <4>3
            <4>4. CASE c # m
                BY <1>7, <1>8, <4>1, <4>2, <4>4
            <4> QED  BY <4>3, <4>4
        <3> QED  BY <1>5, <3>1
    <2>2. ASSUME NEW d \in deepest PROVE d = Named(m)
        <3>1. PICK c \in MustPass(b) : c # b /\ d = Named(c)
            BY <1>5
        <3>2. Cardinality(dom[Named(m)]) <= Cardinality(dom[d])
            BY <1>5
        <3>3. Cardinality(dom[d]) \in Nat
            BY <1>3, <1>6, <3>1
        <3>4. ~ (Cardinality(dom[d]) < Cardinality(dom[Named(m)]))
            BY <1>8, <3>2, <3>3
        <3>5. c = m
            BY <1>7, <3>1, <3>4
        <3> QED  BY <3>1, <3>5
    <2> HIDE DEF deepest
    <2> QED  BY <2>1, <2>2
<1>10. Idoms(dom)[b] = Named(m)
    <2>1. Named(m) \in Int
        BY <1>8, ViewBlocks
    <2>2. FirstOf({Named(m)}) = Named(m)
        BY <2>1 DEF FirstOf
    <2> HIDE DEF deepest
    <2> QED  BY <1>4, <1>9, <2>2
<1> QED  BY <1>2, <1>10 DEF dom, m

-----------------------------------------------------------------------------
(* A walk from a successor s of a block meets what every way from s passes *)
(* before the nearest to the block.                                        *)

Before(s, i) == {x \in DOMAIN cfg : x \in MustPass(s) /\ i \in MustPass(x) /\ i # x}

LEMMA BeforeGoesOn ==
    ASSUME Shape, NEW s \in AllBlocks, s \in Live, NEW i \in AllBlocks, i \in MustPass(s)
    PROVE  /\ s # i => s \in Before(s, i)
           /\ \A x \in Before(s, i) : NearestTo(x) # i => NearestTo(x) \in Before(s, i)
           /\ \A T : /\ s # i => s \in T
                     /\ \A x \in T \cap DOMAIN cfg :
                           x \in Live /\ NearestTo(x) # i => NearestTo(x) \in T
                     => Before(s, i) \subseteq T
<1>1. VirtualExit \in AllBlocks /\ DOMAIN cfg \subseteq AllBlocks
      /\ \A x \in AllBlocks : x # VirtualExit => x \in DOMAIN cfg
    BY DEF AllBlocks
<1>2. \A x \in DOMAIN cfg : x \in Live => IsNearest(NearestTo(x), x)
    BY NearestExists DEF NearestTo
<1>3. ASSUME NEW x \in AllBlocks, i \in MustPass(x), i # x PROVE x \in DOMAIN cfg
    BY <1>1, <1>3, MustPassIs
<1>4. s # i => s \in Before(s, i)
    BY <1>3, MustPassIs DEF Before
<1>5. ASSUME NEW x \in Before(s, i), NearestTo(x) # i PROVE NearestTo(x) \in Before(s, i)
    <2>1. /\ x \in DOMAIN cfg /\ x \in AllBlocks /\ x \in MustPass(s) /\ i \in MustPass(x) /\ i # x
          /\ x \in Live
        BY <1>1, LiveIs DEF Before
    <2>2. NearestTo(x) \in MustPass(x) /\ NearestTo(x) \in AllBlocks /\ i \in MustPass(NearestTo(x))
        BY <1>2, <2>1 DEF IsNearest
    <2>3. NearestTo(x) \in MustPass(s)
        BY <2>1, <2>2, MustPassIs
    <2> QED  BY <1>3, <1>5, <2>2, <2>3 DEF Before
<1>6. ASSUME NEW T, s # i => s \in T,
             \A x \in T \cap DOMAIN cfg :
                 x \in Live /\ NearestTo(x) # i => NearestTo(x) \in T,
             NEW x \in Before(s, i)
      PROVE  x \in T
    <2> DEFINE U == {y \in Live \cap T : x \in MustPass(y)}
               N == {Cardinality(MustPass(y)) : y \in U}
    <2>1. /\ x \in DOMAIN cfg /\ x \in AllBlocks /\ x \in MustPass(s) /\ i \in MustPass(x) /\ i # x
          /\ x \in Live
        BY <1>1, LiveIs DEF Before
    <2>2. s # i
        BY <2>1, MustPassIs
    <2>3. s \in U
        BY <1>6, <2>1, <2>2
    <2>4. N \subseteq Nat /\ N # {}
        BY <2>3, BehindCounted, LiveIs
    <2>5. PICK y \in U : \A z \in U : Cardinality(MustPass(y)) <= Cardinality(MustPass(z))
        <3>1. PICK k \in N : \A j \in N : k <= j
            <4> HIDE DEF N
            <4> QED  BY <2>4, LeastNat
        <3>2. PICK y \in U : k = Cardinality(MustPass(y))
            OBVIOUS
        <3> QED  BY <3>1, <3>2
    <2>6. CASE y = x
        BY <2>6
    <2>7. CASE y # x
        <3>1. y \in AllBlocks /\ y \in Live /\ x \in MustPass(y) /\ y \in T
            BY <2>5, LiveIs
        <3>2. y \in DOMAIN cfg
            BY <1>1, <2>7, <3>1, MustPassIs
        <3>3. IsNearest(NearestTo(y), y)
            BY <1>2, <3>1, <3>2
        <3> DEFINE z == NearestTo(y)
        <3> HIDE DEF z
        <3>4. z \in MustPass(y) /\ z # y /\ z \in AllBlocks /\ z \in Live /\ x \in MustPass(z)
            BY <2>7, <3>1, <3>3 DEF IsNearest, z
        <3>5. z # i
            BY <2>1, <3>4, MustPassIs
        <3>6. z \in U
            BY <1>6, <3>1, <3>2, <3>4, <3>5 DEF z
        <3>7. Cardinality(MustPass(z)) < Cardinality(MustPass(y))
              /\ Cardinality(MustPass(z)) \in Int /\ Cardinality(MustPass(y)) \in Int
            BY <3>1, <3>4, BehindCounted
        <3>8. Cardinality(MustPass(y)) <= Cardinality(MustPass(z))
            BY <2>5, <3>6
        <3> QED  BY <3>7, <3>8
    <2> QED  BY <2>6, <2>7
<1> QED  BY <1>4, <1>5, <1>6

\* The earlier slicer's walk up from a successor meets just these.
LEMMA WalkUpIs ==
    ASSUME Shape, ChoicesExit(cfg), NEW g, IsViewOfCfg(g),
           NEW c \in DOMAIN cfg, c \in Live, NEW s \in ToSet(RevPreds(c)),
           NEW idom, idom = Idoms(PostDoms(g))
    PROVE  WalkUp(idom, Named(s), idom[c]) = Before(s, NearestTo(c))
<1> DEFINE i == NearestTo(c)
           all == Before(s, i)
           V == SUBSET all
           block == Named(s)
           stop == idom[c]
           m == Cardinality(DOMAIN idom)
           x0 == {block} \ {stop}
           Further(B) == B \cup ({idom[b] : b \in B} \ {stop})
           pass == [B \in V |-> Further(B)]
           passes == [k \in 0 + 1 .. m |-> pass]
           Eq(r) == r = [n \in 0 .. m |-> IF n = 0 THEN x0 ELSE Further(r[n - 1])]
           w == CHOOSE r : Eq(r)
<1>1. WalkUp(idom, Named(s), idom[c]) = w[m]
    BY DEF WalkUp
<1>2. /\ s \in AllBlocks /\ c \in AllBlocks /\ i \in AllBlocks /\ i \in MustPass(s)
      /\ stop = Named(i) /\ s \in Live
    <2>1. IsNearest(i, c) /\ stop = Named(i)
        BY IdomsAre
    <2>2. s \in AllBlocks /\ c \in AllBlocks
        BY BlockEdgesAre DEF AllBlocks
    <2>3. s \in Live
        BY ChoicesLive
    <2> QED  BY <2>1, <2>2, <2>3, MustPassIs DEF IsNearest
<1>3. /\ DOMAIN idom = DOMAIN g /\ IsFiniteSet(DOMAIN g) /\ m \in Nat
    BY PostDomsAre, ViewBlocks DEF Idoms
<1>4. /\ all \subseteq DOMAIN cfg /\ all \subseteq Live
      /\ IsFiniteSet(all) /\ Cardinality(all) <= m
    <2>1. all \in SUBSET DOMAIN g /\ all \subseteq DOMAIN cfg
        BY DEF Before, IsViewOfCfg
    <2>2. all \subseteq Live
        BY <1>2, LiveIs DEF Before
    <2> HIDE DEF all
    <2> QED  BY <1>3, <2>1, <2>2, FS_Subset
<1>5. \A b \in DOMAIN cfg : b \in Live => idom[b] = Named(NearestTo(b)) /\ NearestTo(b) \in AllBlocks
    BY IdomsAre DEF IsNearest
<1>6. \A b \in AllBlocks : b # i <=> Named(b) # stop
    BY <1>2, ViewBlocks
<1>7. \A b \in all : b \in DOMAIN cfg /\ Named(b) = b
    BY <1>4, ViewBlocks
<1> HIDE DEF i, stop, m
<1>8. x0 \in V /\ (s # i => s \in x0)
    <2>1. s # i => s \in all
        BY <1>2, BeforeGoesOn
    <2> HIDE DEF all
    <2> QED  BY <1>2, <1>6, <1>7, <2>1
<1>9. \A B \in V : pass[B] = Further(B) /\ B \subseteq pass[B]
    OBVIOUS
<1>10. \A B \in V : pass[B] \in V
    <2> SUFFICES ASSUME NEW B \in V, NEW b \in B, idom[b] # stop PROVE idom[b] \in all
        BY <1>9
    <2>1. b \in DOMAIN cfg /\ idom[b] = Named(NearestTo(b)) /\ NearestTo(b) \in AllBlocks
        BY <1>4, <1>5
    <2>2. NearestTo(b) \in all
        BY <1>2, <1>6, <2>1, BeforeGoesOn
    <2> HIDE DEF all
    <2> QED  BY <1>7, <2>1, <2>2
<1> HIDE DEF V, pass, x0, Further
<1>11. Eq(w)
    <2>1. PICK r : Recurs(r, 0, m, x0, passes) /\ \A k \in 0 .. m : r[k] \in V
        <3>1. \A k \in 0 + 1 .. m : \A B \in V : passes[k][B] \in V
            BY <1>10
        <3>2. 0 \in Int /\ m \in Int /\ 0 <= m
            BY <1>3
        <3> HIDE DEF passes
        <3> QED  BY <1>8, <3>1, <3>2, RecursionExists
    <2>2. \A k \in 0 .. m : k # 0 => passes[k][r[k - 1]] = Further(r[k - 1])
        <3>1. \A k \in 0 .. m : k # 0 => k - 1 \in 0 .. m /\ k \in 0 + 1 .. m
            BY <1>3
        <3> QED  BY <1>9, <2>1, <3>1
    <2>3. [k \in 0 .. m |-> IF k = 0 THEN x0 ELSE passes[k][r[k - 1]]]
             = [k \in 0 .. m |-> IF k = 0 THEN x0 ELSE Further(r[k - 1])]
        BY <2>2
    <2>4. Eq(r)
        BY <2>1, <2>3, Zenon DEF Recurs
    <2> HIDE DEF Eq
    <2> QED  BY <2>4
<1> HIDE DEF w
<1>12. Iterates(w, m, x0, pass, V)
    <2>1. \A k \in 0 .. m - 1 : k + 1 \in 0 .. m /\ k + 1 # 0 /\ (k + 1) - 1 = k
        BY <1>3
    <2>2. 0 \in 0 .. m
        BY <1>3
    <2>3. \A k \in 0 .. m : w[k] = IF k = 0 THEN x0 ELSE Further(w[k - 1])
        BY <1>11
    <2> QED  BY <1>9, <2>1, <2>2, <2>3 DEF Iterates
<1>13. RaisesUpTo(pass, m, Sizes(V), V)
    BY <1>3, <1>4, <1>9, <1>10, GrowingSets DEF V
<1>14. w[m] \in V /\ pass[w[m]] = w[m]
    BY <1>3, <1>8, <1>12, <1>13, Settles
<1>15. x0 \subseteq w[m]
    <2> DEFINE T == {k \in 0 .. m : w[k] \in V /\ x0 \subseteq w[k]}
    <2>1. 0 \in T
        BY <1>3, <1>8, <1>12 DEF Iterates
    <2>2. ASSUME NEW k \in 0 .. m - 1, k \in T PROVE k + 1 \in T
        <3>1. w[k + 1] = pass[w[k]] /\ k + 1 \in 0 .. m
            BY <1>3, <1>12, <2>2 DEF Iterates
        <3> QED  BY <1>9, <1>10, <2>2, <3>1
    <2> HIDE DEF T
    <2>3. 0 .. m \subseteq T
        BY <1>3, <2>1, <2>2, UpTo
    <2>4. m \in T
        BY <1>3, <2>3
    <2> QED  BY <2>4 DEF T
<1>16. all \subseteq w[m]
    <2>1. \A b \in w[m] : idom[b] # stop => idom[b] \in w[m]
        BY <1>9, <1>14 DEF Further
    <2>2. ASSUME NEW b \in w[m] \cap DOMAIN cfg, b \in Live, NearestTo(b) # i
          PROVE  NearestTo(b) \in w[m]
        <3>1. idom[b] = Named(NearestTo(b)) /\ NearestTo(b) \in AllBlocks /\ idom[b] \in w[m]
            BY <1>5, <1>6, <2>1, <2>2
        <3>2. NearestTo(b) \in all
            BY <1>2, <1>14, <2>2, BeforeGoesOn DEF V
        <3> HIDE DEF all
        <3> QED  BY <1>7, <3>1, <3>2
    <2>3. s # i => s \in w[m]
        BY <1>8, <1>15
    <2> QED  BY <1>2, <2>2, <2>3, BeforeGoesOn
<1> QED  BY <1>1, <1>14, <1>16 DEF V, i

\* Its frontiers are the control dependencies of the blocks.
LEMMA FrontiersAre ==
    ASSUME Shape, ChoicesExit(cfg), NEW g, IsViewOfCfg(g), NEW x \in DOMAIN cfg
    PROVE  Frontiers(g)[x] = {c \in DOMAIN cfg : Depends(x, c)}
<1> DEFINE idom == Idoms(PostDoms(g))
           joins == {b \in DOMAIN g : Cardinality(Successors(g, b)) > 1}
<1>1. Frontiers(g)[x] = {b \in joins : \E d \in Successors(g, b) : x \in WalkUp(idom, d, idom[b])}
    BY DEF Frontiers, IsViewOfCfg
<1> HIDE DEF idom
<1>2. \A c \in DOMAIN cfg : c \in Live => \A s \in ToSet(RevPreds(c)) :
          WalkUp(idom, Named(s), idom[c]) = Before(s, NearestTo(c))
    BY WalkUpIs DEF idom
<1>3. joins \subseteq DOMAIN cfg
    <2>1. Cardinality(Successors(g, StartBlock)) = 1 /\ Cardinality(Successors(g, ExitBlock)) = 0
        BY FS_Singleton, FS_EmptySet DEF IsViewOfCfg
    <2>2. ~ Cardinality(Successors(g, StartBlock)) > 1 /\ ~ Cardinality(Successors(g, ExitBlock)) > 1
        BY <2>1
    <2>3. \A b \in joins : b # StartBlock /\ b # ExitBlock /\ b \in DOMAIN g
        BY <2>2
    <2>4. DOMAIN g = DOMAIN cfg \cup {StartBlock, ExitBlock}
        BY DEF IsViewOfCfg
    <2> HIDE DEF joins
    <2> QED  BY <2>3, <2>4
<1>8. joins \subseteq Live
    <2> SUFFICES ASSUME NEW c \in joins, c \notin Live PROVE FALSE
        OBVIOUS
    <2>1. c \in DOMAIN cfg /\ Cardinality(Successors(g, c)) > 1
        BY <1>3
    <2>2. Len(RevPreds(c)) < 2 /\ IsSequence(RevPreds(c)) /\ RevPreds(c) # <<>>
        BY <2>1, ChoicesLive, WayOut, BlockEdgesAre
    <2>3. DOMAIN RevPreds(c) = {1}
        <3>1. /\ Len(RevPreds(c)) \in Nat /\ DOMAIN RevPreds(c) = 1 .. Len(RevPreds(c))
              /\ Len(RevPreds(c)) # 0
            BY <2>2, SequenceDomain
        <3> QED  BY <2>2, <3>1
    <2>4. Successors(g, c) = {Named(s) : s \in ToSet(RevPreds(c))}
        BY <2>1 DEF IsViewOfCfg
    <2>5. Successors(g, c) = {Named(RevPreds(c)[1])}
        BY <2>3, <2>4 DEF ToSet
    <2>6. Cardinality(Successors(g, c)) = 1
        BY <2>5, FS_Singleton
    <2> QED  BY <2>1, <2>6
<1>4. ASSUME NEW c \in joins, NEW d \in Successors(g, c), x \in WalkUp(idom, d, idom[c])
      PROVE  Depends(x, c)
    <2>1. c \in DOMAIN cfg /\ c \in Live /\ IsNearest(NearestTo(c), c)
        BY <1>3, <1>8, NearestExists DEF NearestTo
    <2>2. PICK s \in ToSet(RevPreds(c)) : d = Named(s)
        BY <2>1, ViewBlocks
    <2>3. x \in MustPass(s) /\ NearestTo(c) \in MustPass(x) /\ NearestTo(c) # x
        BY <1>2, <1>4, <2>1, <2>2 DEF Before
    <2>4. x = c \/ x \notin MustPass(c)
        <3>1. x \in AllBlocks /\ NearestTo(c) \in AllBlocks
            BY <2>1, ViewBlocks DEF IsNearest
        <3> QED  BY <2>1, <2>3, <3>1, MustPassIs DEF IsNearest
    <2> QED  BY <2>1, <2>3, <2>4, AvoidedIs, ViewBlocks DEF Depends
<1>5. ASSUME NEW c, Depends(x, c)
      PROVE  c \in joins /\ \E d \in Successors(g, c) : x \in WalkUp(idom, d, idom[c])
    <2>1. PICK s \in ToSet(RevPreds(c)) : x \in MustPass(s)
        BY <1>5 DEF Depends
    <2>2. /\ c \in DOMAIN cfg /\ c \in Live /\ s \in Live /\ x \in Live
          /\ x = c \/ x \notin MustPass(c)
        BY <1>5, <2>1, DependsIsLive, AvoidedIs, ViewBlocks DEF Depends
    <2>3. IsNearest(NearestTo(c), c) /\ s \in AllBlocks /\ c \in AllBlocks /\ x \in AllBlocks
        BY <2>2, NearestExists, BlockEdgesAre, ViewBlocks DEF NearestTo
    <2>4. NearestTo(c) \in MustPass(s) /\ NearestTo(c) \in AllBlocks
        BY <2>2, <2>3, MustPassIs DEF IsNearest
    <2>5. x \notin MustPass(NearestTo(c))
        <3> SUFFICES ASSUME x \in MustPass(NearestTo(c)) PROVE FALSE
            OBVIOUS
        <3>1. x \in MustPass(c)
            BY <2>3, <2>4, MustPassIs DEF IsNearest
        <3>2. x = c
            BY <2>2, <3>1
        <3> QED  BY <2>3, <2>4, <3>2, MustPassIs DEF IsNearest
    <2>6. NearestTo(c) \in MustPass(x) /\ NearestTo(c) # x
        BY <2>1, <2>2, <2>3, <2>4, <2>5, MustPassIs
    <2>7. x \in WalkUp(idom, Named(s), idom[c]) /\ Named(s) \in Successors(g, c)
        BY <1>2, <2>1, <2>2, <2>6, ViewBlocks DEF Before
    <2>8. Cardinality(Successors(g, c)) > 1
        <3>1. IsFiniteSet(Successors(g, c))
            <4>1. Successors(g, c) \in SUBSET DOMAIN g
                BY <2>2, ViewBlocks, BlockEdgesAre
            <4> QED  BY <4>1, ViewBlocks, FS_Subset
        <3>2. Cardinality(Successors(g, c)) \in Nat /\ Cardinality(Successors(g, c)) # 0
            BY <2>7, <3>1, FS_CardinalityType, FS_EmptySet
        <3>3. ASSUME Cardinality(Successors(g, c)) = 1 PROVE FALSE
            <4>1. \A d, e \in Successors(g, c) : d = e
                BY <3>1, <3>3, FS_Singleton
            <4>2. \A t \in ToSet(RevPreds(c)) : t = s
                <5>1. \A t \in ToSet(RevPreds(c)) : t \in AllBlocks /\ Named(t) \in Successors(g, c)
                    BY <2>2, ViewBlocks, BlockEdgesAre
                <5> QED  BY <2>1, <4>1, <5>1, ViewBlocks
            <4> QED  BY <1>5, <2>1, <4>2 DEF Depends
        <3> QED  BY <3>2, <3>3
    <2>9. c \in DOMAIN g
        BY <2>2 DEF IsViewOfCfg
    <2> QED  BY <2>7, <2>8, <2>9
<1> HIDE DEF joins
<1>6. \A c \in Frontiers(g)[x] : c \in DOMAIN cfg /\ Depends(x, c)
    BY <1>1, <1>3, <1>4
<1>7. \A c \in DOMAIN cfg : Depends(x, c) => c \in Frontiers(g)[x]
    BY <1>1, <1>5
<1> QED  BY <1>6, <1>7

\* What a round adds is what the instructions kept so far depend on.
LEMMA ImportantCdepsAre ==
    ASSUME Shape, ChoicesExit(cfg), NEW g, IsViewOfCfg(g), NEW S, S \subseteq Positions
    PROVE  ImportantCdeps(g, idToInstr, Frontiers(g), S)
              = (UNION {ControlDependencies(p) : p \in S}) \ S
<1> DEFINE df == Frontiers(g)
           Found(c) == \E p \in S : c \in df[HomeOf(g, p)]
           Ends == {a \in DOMAIN g : /\ g[a].code # <<>>
                                     /\ IsControlInsn(idToInstr[Last(g[a].code)])
                                     /\ Found(a)}
<1>1. ImportantCdeps(g, idToInstr, df, S) = {Last(g[c].code) : c \in Ends} \ S
    BY DEF ImportantCdeps
<1>2. \A p \in Positions : BlockOf(p) \in DOMAIN cfg /\ HomeOf(g, p) = BlockOf(p)
    BY ViewCode DEF Shape, AllPositions, BlockOf
<1>3. \A x \in DOMAIN cfg : df[x] = {c \in DOMAIN cfg : ControlDependsOn(x, c)}
    BY FrontiersAre, DependsIs
<1> HIDE DEF df
<1>4. /\ \A c \in DOMAIN cfg : g[c].code # <<>> /\ Last(g[c].code) = LastOf(c)
      /\ \A c \in DOMAIN g : g[c].code # <<>> => c \in DOMAIN cfg
      /\ DOMAIN cfg \subseteq DOMAIN g
    BY ViewCode DEF IsViewOfCfg
<1>5. \A c \in DOMAIN cfg :
          Found(c) <=> \E p \in S : ControlDependsOn(BlockOf(p), c)
    BY <1>2, <1>3
<1> HIDE DEF Found
<1>6. Ends = {c \in DOMAIN cfg : IsControl(LastOf(c)) /\ Found(c)}
    BY <1>4 DEF IsControl, IsControlInsn
<1>7. {Last(g[c].code) : c \in Ends}
         = {LastOf(c) : c \in {b \in DOMAIN cfg : IsControl(LastOf(b)) /\ Found(b)}}
    <2> HIDE DEF Ends
    <2> QED  BY <1>4, <1>6
<1>8. {LastOf(c) : c \in {b \in DOMAIN cfg : IsControl(LastOf(b)) /\ Found(b)}}
         = UNION {ControlDependencies(p) : p \in S}
    BY <1>5 DEF ControlDependencies
<1> QED  BY <1>1, <1>7, <1>8 DEF df

-----------------------------------------------------------------------------
(* What the rounds of the earlier slicer end with.                         *)

Follows(T, deps) == \A p \in T : deps[p] \subseteq T

\* Marking gives the least set with the addresses that operands do not lead out of.
LEMMA MarkImportantIs ==
    ASSUME NEW U, IsFiniteSet(U), NEW rdefs \in [U -> SUBSET U], NEW A, A \subseteq U
    PROVE  /\ A \subseteq MarkImportant(rdefs, A) /\ MarkImportant(rdefs, A) \subseteq U
           /\ Follows(MarkImportant(rdefs, A), rdefs)
           /\ \A T : A \subseteq T /\ Follows(T, rdefs) => MarkImportant(rdefs, A) \subseteq T
<1> DEFINE V == {S \in SUBSET U : /\ A \subseteq S
                                  /\ \A T : A \subseteq T /\ Follows(T, rdefs) => S \subseteq T}
           m == Cardinality(DOMAIN rdefs)
           Further(S) == S \cup UNION {rdefs[p] : p \in S}
           pass == [S \in V |-> Further(S)]
           passes == [k \in 0 + 1 .. m |-> pass]
           Eq(r) == r = [n \in 0 .. m |-> IF n = 0 THEN A ELSE Further(r[n - 1])]
           w == CHOOSE r : Eq(r)
<1>1. MarkImportant(rdefs, A) = w[m]
    BY DEF MarkImportant
<1>2. DOMAIN rdefs = U /\ m \in Nat /\ m = Cardinality(U)
    BY FS_CardinalityType
<1> HIDE DEF m
<1>3. A \in V
    OBVIOUS
<1>4. \A S \in V : pass[S] = Further(S) /\ S \subseteq pass[S] /\ pass[S] \in V
    BY DEF Follows
<1>5. V \subseteq SUBSET U
    OBVIOUS
<1>6. \A S \in V : A \subseteq S
    OBVIOUS
<1>7. \A S \in V : \A T : A \subseteq T /\ Follows(T, rdefs) => S \subseteq T
    OBVIOUS
<1>8. \A S : Further(S) = S => Follows(S, rdefs)
    BY DEF Follows
<1> HIDE DEF V, pass, Further
<1>9. Eq(w)
    <2>1. PICK r : Recurs(r, 0, m, A, passes) /\ \A k \in 0 .. m : r[k] \in V
        <3>1. \A k \in 0 + 1 .. m : \A S \in V : passes[k][S] \in V
            BY <1>4
        <3>2. 0 \in Int /\ m \in Int /\ 0 <= m
            BY <1>2
        <3> HIDE DEF passes
        <3> QED  BY <1>3, <3>1, <3>2, RecursionExists
    <2>2. \A k \in 0 .. m : k # 0 => passes[k][r[k - 1]] = Further(r[k - 1])
        <3>1. \A k \in 0 .. m : k # 0 => k - 1 \in 0 .. m /\ k \in 0 + 1 .. m
            BY <1>2
        <3> QED  BY <1>4, <2>1, <3>1
    <2>3. [k \in 0 .. m |-> IF k = 0 THEN A ELSE passes[k][r[k - 1]]]
             = [k \in 0 .. m |-> IF k = 0 THEN A ELSE Further(r[k - 1])]
        BY <2>2
    <2>4. Eq(r)
        BY <2>1, <2>3, Zenon DEF Recurs
    <2> HIDE DEF Eq
    <2> QED  BY <2>4
<1> HIDE DEF w
<1>10. Iterates(w, m, A, pass, V)
    <2>1. \A k \in 0 .. m - 1 : k + 1 \in 0 .. m /\ k + 1 # 0 /\ (k + 1) - 1 = k
        BY <1>2
    <2>2. 0 \in 0 .. m
        BY <1>2
    <2>3. \A k \in 0 .. m : w[k] = IF k = 0 THEN A ELSE Further(w[k - 1])
        BY <1>9
    <2> QED  BY <1>4, <2>1, <2>2, <2>3 DEF Iterates
<1>11. RaisesUpTo(pass, m, Sizes(V), V)
    <2>1. Cardinality(U) <= m
        BY <1>2
    <2> QED  BY <1>2, <1>4, <1>5, <2>1, GrowingSets
<1>12. w[m] \in V /\ pass[w[m]] = w[m]
    BY <1>2, <1>3, <1>10, <1>11, Settles
<1> QED  BY <1>1, <1>4, <1>5, <1>6, <1>7, <1>8, <1>12

\* With the dependencies on control found from what is kept so far, deps.
FindsNew(g, instrs, df, deps) ==
    \A S \in SUBSET DOMAIN instrs :
        ImportantCdeps(g, instrs, df, S) = (UNION {deps[p] : p \in S}) \ S

\* The rounds end with the least set that neither operands nor conditions lead out of.
LEMMA SliceRoundsAre ==
    ASSUME NEW instrs, IsSequence(instrs), NEW U, U = DOMAIN instrs,
           NEW rdefs \in [U -> SUBSET U], NEW deps \in [U -> SUBSET U],
           NEW g, NEW df, FindsNew(g, instrs, df, deps),
           NEW A, A \subseteq U
    PROVE  LET F == SliceRounds(g, instrs, rdefs, df, A)
           IN  /\ A \subseteq F /\ F \subseteq U /\ Follows(F, rdefs) /\ Follows(F, deps)
               /\ \A T : A \subseteq T /\ Follows(T, rdefs) /\ Follows(T, deps) => F \subseteq T
<1> DEFINE V == {S \in SUBSET U :
                    /\ A \subseteq S /\ Follows(S, rdefs)
                    /\ \A T : A \subseteq T /\ Follows(T, rdefs) /\ Follows(T, deps) => S \subseteq T}
           m == Len(instrs)
           New(S) == ImportantCdeps(g, instrs, df, S)
           Round(S, N) == S \cup MarkImportant(rdefs, N \cup New(S))
           x0 == Round(A, A)
           pass == [S \in V |-> Round(S, {})]
           passes == [k \in 0 + 1 .. m |-> pass]
           Eq(r) == r = [n \in 0 .. m |-> IF n = 0 THEN x0 ELSE Round(r[n - 1], {})]
           w == CHOOSE r : Eq(r)
<1>1. SliceRounds(g, instrs, rdefs, df, A) = w[m]
    BY DEF SliceRounds
<1>2. U = 1 .. m /\ m \in Nat /\ IsFiniteSet(U) /\ Cardinality(U) <= m
    <2>1. U = 1 .. m /\ m \in Nat
        BY SequenceDomain
    <2>2. IsFiniteSet(1 .. m) /\ Cardinality(1 .. m) = IF 1 > m THEN 0 ELSE m - 1 + 1
        BY <2>1, FS_Interval
    <2> HIDE DEF m
    <2> QED  BY <2>1, <2>2
<1> HIDE DEF m
<1>3. \A S \in SUBSET U : New(S) = (UNION {deps[p] : p \in S}) \ S
    BY DEF FindsNew
<1>4. \A S \in SUBSET U : New(S) \subseteq U
    BY <1>3
<1> HIDE DEF New
<1>5. ASSUME NEW S \in SUBSET U, NEW N \in SUBSET U, A \subseteq S,
             N = S \/ (N = {} /\ Follows(S, rdefs)),
             \A T : A \subseteq T /\ Follows(T, rdefs) /\ Follows(T, deps) => S \subseteq T
      PROVE  Round(S, N) \in V
    <2> DEFINE M == MarkImportant(rdefs, N \cup New(S))
    <2>1. N \cup New(S) \subseteq U
        BY <1>4
    <2>2. /\ N \cup New(S) \subseteq M /\ M \subseteq U /\ Follows(M, rdefs)
          /\ \A T : N \cup New(S) \subseteq T /\ Follows(T, rdefs) => M \subseteq T
        BY <1>2, <2>1, MarkImportantIs
    <2>3. Round(S, N) = S \cup M
        OBVIOUS
    <2> HIDE DEF M, Round
    <2>4. Follows(S \cup M, rdefs)
        BY <1>5, <2>2 DEF Follows
    <2>5. ASSUME NEW T, A \subseteq T, Follows(T, rdefs), Follows(T, deps) PROVE S \cup M \subseteq T
        <3>1. S \subseteq T
            BY <1>5, <2>5
        <3>2. New(S) \subseteq T
            BY <1>3, <2>5, <3>1 DEF Follows
        <3>3. N \subseteq T
            BY <1>5, <3>1
        <3> QED  BY <2>2, <2>5, <3>1, <3>2, <3>3
    <2> QED  BY <1>5, <2>2, <2>3, <2>4, <2>5
<1>6. x0 \in V
    BY <1>5
<1>7. \A S \in V : pass[S] = Round(S, {}) /\ S \subseteq pass[S]
    OBVIOUS
<1>8. ASSUME NEW S \in V PROVE pass[S] \in V
    <2>1. /\ S \in SUBSET U /\ A \subseteq S /\ Follows(S, rdefs)
          /\ \A T : A \subseteq T /\ Follows(T, rdefs) /\ Follows(T, deps) => S \subseteq T
        OBVIOUS
    <2>2. {} \in SUBSET U
        OBVIOUS
    <2> HIDE DEF V, pass, Round
    <2> QED  BY <1>5, <1>7, <2>1, <2>2
<1>9. ASSUME NEW S \in V, Round(S, {}) = S PROVE Follows(S, deps)
    <2>1. S \in SUBSET U /\ New(S) \subseteq U
        BY <1>4
    <2>2. New(S) \subseteq MarkImportant(rdefs, {} \cup New(S))
        BY <1>2, <2>1, MarkImportantIs
    <2>3. New(S) \subseteq S
        BY <1>9, <2>2
    <2> QED  BY <1>3, <2>1, <2>3 DEF Follows
<1>10. V \subseteq SUBSET U
    OBVIOUS
<1>11. \A S \in V :
          /\ A \subseteq S /\ S \subseteq U /\ Follows(S, rdefs)
          /\ \A T : A \subseteq T /\ Follows(T, rdefs) /\ Follows(T, deps) => S \subseteq T
    OBVIOUS
<1> HIDE DEF V, pass, x0, Round
<1>12. Eq(w)
    <2>1. PICK r : Recurs(r, 0, m, x0, passes) /\ \A k \in 0 .. m : r[k] \in V
        <3>1. \A k \in 0 + 1 .. m : \A S \in V : passes[k][S] \in V
            BY <1>8
        <3>2. 0 \in Int /\ m \in Int /\ 0 <= m
            BY <1>2
        <3> HIDE DEF passes
        <3> QED  BY <1>6, <3>1, <3>2, RecursionExists
    <2>2. \A k \in 0 .. m : k # 0 => passes[k][r[k - 1]] = Round(r[k - 1], {})
        <3>1. \A k \in 0 .. m : k # 0 => k - 1 \in 0 .. m /\ k \in 0 + 1 .. m
            BY <1>2
        <3> QED  BY <1>7, <2>1, <3>1
    <2>3. [k \in 0 .. m |-> IF k = 0 THEN x0 ELSE passes[k][r[k - 1]]]
             = [k \in 0 .. m |-> IF k = 0 THEN x0 ELSE Round(r[k - 1], {})]
        BY <2>2
    <2>4. Eq(r)
        BY <2>1, <2>3, Zenon DEF Recurs
    <2> HIDE DEF Eq
    <2> QED  BY <2>4
<1> HIDE DEF w
<1>13. Iterates(w, m, x0, pass, V)
    <2>1. \A k \in 0 .. m - 1 : k + 1 \in 0 .. m /\ k + 1 # 0 /\ (k + 1) - 1 = k
        BY <1>2
    <2>2. 0 \in 0 .. m
        BY <1>2
    <2>3. \A k \in 0 .. m : w[k] = IF k = 0 THEN x0 ELSE Round(w[k - 1], {})
        BY <1>12
    <2> QED  BY <1>7, <2>1, <2>2, <2>3 DEF Iterates
<1>14. RaisesUpTo(pass, m, Sizes(V), V)
    BY <1>2, <1>7, <1>8, <1>10, GrowingSets
<1>15. w[m] \in V /\ pass[w[m]] = w[m]
    BY <1>2, <1>6, <1>13, <1>14, Settles
<1>16. Follows(w[m], deps)
    BY <1>7, <1>9, <1>15
<1> QED  BY <1>1, <1>11, <1>15, <1>16

\* What is asked for stays in the slice, and the instructions stay those of the
\* graph.
Kept ==
    /\ idToInstr = [p \in AllPositions(cfg) |-> InstrAt(cfg, p)]
    /\ SliceSeeds(idToInstr) \subseteq important

LEMMA KeptInitially == Init => Kept
BY DEF Init, Kept

LEMMA KeptInductive == Kept /\ [Next]_vars => Kept'
<1> SUFFICES ASSUME Kept, [Next]_vars PROVE Kept'
    OBVIOUS
<1>1. UNCHANGED <<cfg, idToInstr>>
    BY DEF Next, vars, inputs, ReachInstr, ReachAgain, ReachDone, FollowOperands, DataDone,
           PdomBlock, PdomAgain, PdomDone, FrontierStep, FrontierDone, ControlRound
<1>2. important \subseteq important'
    BY DEF Next, vars, ReachInstr, ReachAgain, ReachDone, FollowOperands, DataDone,
           PdomBlock, PdomAgain, PdomDone, FrontierStep, FrontierDone, ControlRound
<1>3. SliceSeeds(idToInstr)' = SliceSeeds(idToInstr)
    BY <1>1 DEF SliceSeeds
<1> QED  BY <1>1, <1>2, <1>3 DEF Kept

\* Both finished slices are the least set that holds the seeds and what its members
\* depend on.
LEMMA SameSlice ==
    ASSUME ExitsReached, IInv, ReachInv, DomInv, SliceInv, Kept, phase = "done", keepControl,
           NEW f, IsProgram(f), \A n \in DOMAIN f : IsSequence(f[n].regs), cfg = BuildCfg(f),
           Comparable(idToInstr), AllReadAlike,
           \A p \in important : \A d \in rdIn[p] : d[1] \notin UnreadAddresses(idToInstr[p])
    PROVE  important = LegacySlice(idToInstr, SliceSeeds(idToInstr))
<1> DEFINE g == BuildLegacyCfg(idToInstr)
           rdefs == ReadDefinitions(g, idToInstr)
           deps == [p \in Positions |-> ControlDependencies(p)]
           df == Frontiers(g)
           A == SliceSeeds(idToInstr)
           F == SliceRounds(g, idToInstr, rdefs, df, A)
<1>1. f = idToInstr
    BY InstrAtIs DEF Kept
<1>2. IsSequence(idToInstr) /\ OperandsListed
    BY <1>1 DEF IsProgram, OperandsListed, Positions
<1>3. IsViewOfCfg(g)
    BY <1>1, LegacyIsView
<1>4. Shape /\ Maps /\ ChoicesExit(cfg) /\ TypeOK
    BY ExitsOf DEF IInv, ReachInv
<1> HIDE DEF g
<1>5. ASSUME NEW p \in Positions
      PROVE  /\ rdefs[p] \subseteq DataDependencies(p)
             /\ p \in important => rdefs[p] = DataDependencies(p)
    <2>1. rdIn[p] = {d \in AllDefs : p \in Sees(d[2], d[1])}
        BY <1>4, StableIsExact DEF ReachInv, StableBehind
    <2> QED  BY <1>2, <1>3, <1>4, <2>1, SameDefinitionsRead
<1>6. rdefs \in [Positions -> SUBSET Positions] /\ deps \in [Positions -> SUBSET Positions]
    <2>1. rdefs = [p \in Positions |-> rdefs[p]]
        BY DEF ReadDefinitions, Positions
    <2>2. \A p \in Positions : DataDependencies(p) \subseteq Positions
        BY DEF DataDependencies
    <2>3. \A p \in Positions : ControlDependencies(p) \subseteq Positions
        BY <1>4, LastIsPosition DEF ControlDependencies
    <2> HIDE DEF rdefs
    <2> QED  BY <1>5, <2>1, <2>2, <2>3
<1>7. FindsNew(g, idToInstr, df, deps)
    <2> SUFFICES ASSUME NEW S, S \subseteq Positions
                 PROVE  ImportantCdeps(g, idToInstr, df, S) = (UNION {deps[p] : p \in S}) \ S
        BY DEF FindsNew, Positions
    <2>1. UNION {deps[p] : p \in S} = UNION {ControlDependencies(p) : p \in S}
        OBVIOUS
    <2> HIDE DEF deps
    <2> QED  BY <1>3, <1>4, <2>1, ImportantCdepsAre
<1>8. \A p \in Positions : deps[p] = ControlDependencies(p)
    OBVIOUS
<1>9. A \subseteq Positions /\ Positions = DOMAIN idToInstr
    BY DEF SliceSeeds, Positions
<1>10. LegacySlice(idToInstr, A) = F
    BY DEF LegacySlice, g
<1> HIDE DEF rdefs, deps, df, A
<1>11. /\ A \subseteq F /\ F \subseteq Positions /\ Follows(F, rdefs) /\ Follows(F, deps)
       /\ \A T : A \subseteq T /\ Follows(T, rdefs) /\ Follows(T, deps) => F \subseteq T
    BY <1>2, <1>6, <1>7, <1>9, SliceRoundsAre
<1> HIDE DEF F
<1>12. \A p \in Positions : Dependencies(p) = DataDependencies(p) \cup ControlDependencies(p)
    BY DEF Dependencies
<1>13. F \subseteq important
    <2>1. \A p \in important : p \in Positions /\ Dependencies(p) \subseteq important
        BY <1>4, CompleteWhenDone DEF TypeOK
    <2>2. Follows(important, rdefs) /\ Follows(important, deps)
        BY <1>5, <1>8, <1>12, <2>1 DEF Follows
    <2> QED  BY <1>11, <2>2 DEF Kept, A
<1>14. important \subseteq F
    <2>1. \A p \in Positions : p \in F => Dependencies(p) \subseteq F
        BY <1>5, <1>8, <1>11, <1>12, <1>13 DEF Follows
    <2>2. Needed \subseteq F
        BY <1>4, <1>11, <2>1, NeededIs DEF A
    <2> QED  BY <2>2 DEF SliceInv
<1> QED  BY <1>10, <1>13, <1>14 DEF A

\* Both slicers keep the same instructions of every function whose graph the CFG
\* builder made, as long as they see the same of its instructions: slice_cfg, in
\* whatever order its worklist is emptied, and the earlier slicer's rounds.
THEOREM SlicersAgree ==
    ASSUME ExitsReached,
           \A g \in Graphs : \E f : /\ IsProgram(f) /\ g = BuildCfg(f)
                                    /\ \A n \in DOMAIN f : IsSequence(f[n].regs)
    PROVE  Spec => []LegacySliceAgrees
<1>1. IInv /\ ReachInv /\ DomInv /\ SliceInv /\ Kept => LegacySliceAgrees
    <2> SUFFICES ASSUME IInv, ReachInv, DomInv, SliceInv, Kept, phase = "done", keepControl,
                        Comparable(idToInstr), \A p \in Positions : ReadAlike(idToInstr[p]),
                        \A p \in important : \A d \in rdIn[p] :
                            d[1] \notin UnreadAddresses(idToInstr[p])
                 PROVE  important = LegacySlice(idToInstr, SliceSeeds(idToInstr))
        BY DEF LegacySliceAgrees
    <2>1. PICK f : /\ IsProgram(f) /\ cfg = BuildCfg(f)
                   /\ \A n \in DOMAIN f : IsSequence(f[n].regs)
        BY DEF IInv, Shape
    <2>2. AllReadAlike
        BY DEF AllReadAlike
    <2> QED  BY <2>1, <2>2, SameSlice
<1> QED  BY SliceInvHolds, KeptInitially, KeptInductive, <1>1, PTL DEF Spec
=============================================================================
