-------------------------------- MODULE Lemmas --------------------------------
(***************************************************************************)
(* What the proofs share.  First, facts about naturals and sequences:      *)
(* least elements, from which the proofs take their inductions, largest    *)
(* and smallest members, and the items of a sequence that is appended to,  *)
(* joined, taken the head from or flattened; that functions defined by     *)
(* recursion exist, and that a pass that raises a bounded measure or       *)
(* changes nothing has settled after as many rounds as the bound.          *)
(*                                                                         *)
(* Then what BuildCfg returns, for every instruction sequence: blocks that *)
(* partition the function at its leaders and, from each, the edges that    *)
(* its last instruction asks for.  Partition fixes everything of the       *)
(* blocks but their edges, and each step of pass 4 adds the edges of one   *)
(* block.  The graph of the earlier backend is the same with two more.     *)
(***************************************************************************)
EXTENDS LegacyCfg, TLAPS, WellFoundedInduction, SequenceTheorems, FiniteSetTheorems

\* A non-empty set of naturals has a least element.
LEMMA LeastNat ==
    ASSUME NEW T, T \subseteq Nat, T # {}
    PROVE  \E x \in T : \A y \in T : x <= y
<1>1. PICK x \in T : \A y \in T : ~ (<<y, x>> \in OpToRel(<, Nat))
    BY NatLessThanWellFounded, WFMin
<1>2. ASSUME NEW y \in T PROVE x <= y
    <2>1. y \in Nat /\ x \in Nat
        OBVIOUS
    <2>2. ~ (y < x)
        BY <1>1, <2>1 DEF OpToRel
    <2> QED  BY <2>1, <2>2
<1> QED  BY <1>2

LEMMA MinMember ==
    ASSUME NEW S, S \subseteq Nat, S # {}
    PROVE  Min(S) \in S /\ \A y \in S : Min(S) <= y
<1>1. \E x \in S : \A y \in S : x <= y
    BY LeastNat
<1> QED  BY <1>1 DEF Min

\* A non-empty set of naturals with a bound has a largest element.
LEMMA MaxMember ==
    ASSUME NEW n \in Nat, NEW S, S \subseteq 0 .. n, S # {}
    PROVE  Max(S) \in S /\ \A y \in S : y <= Max(S)
<1> DEFINE T == {n - x : x \in S}
<1>1. T \subseteq Nat /\ T # {}
    <2>1. \A x \in S : x \in 0 .. n /\ n - x \in Nat
        OBVIOUS
    <2> QED  BY <2>1
<1>2. PICK m \in T : \A y \in T : m <= y
    <2> HIDE DEF T
    <2> QED  BY <1>1, LeastNat
<1>3. PICK x \in S : m = n - x
    BY <1>2
<1>4. ASSUME NEW y \in S PROVE x >= y
    <2>1. n - y \in T /\ x \in 0 .. n /\ y \in 0 .. n
        OBVIOUS
    <2> QED  BY <1>2, <1>3, <2>1
<1>5. \E z \in S : \A y \in S : z >= y
    BY <1>4
<1>6. Max(S) \in S /\ \A y \in S : Max(S) >= y
    BY <1>5 DEF Max
<1>7. \A y \in S : y \in Nat
    OBVIOUS
<1> HIDE DEF T
<1> QED  BY <1>6, <1>7

-----------------------------------------------------------------------------
(* Recursive functions on an interval, and passes that settle.             *)

LEMMA UpTo ==
    ASSUME NEW lo \in Int, NEW hi \in Int, NEW T,
           lo \in T, \A k \in lo .. hi - 1 : k \in T => k + 1 \in T
    PROVE  lo .. hi \subseteq T
<1> DEFINE Missed == {n \in Nat : lo + n <= hi /\ lo + n \notin T}
<1> SUFFICES ASSUME Missed # {} PROVE FALSE
    <2>1. ASSUME NEW k \in lo .. hi, k \notin T PROVE k - lo \in Missed
        <3>1. k - lo \in Nat /\ lo + (k - lo) = k /\ k <= hi
            OBVIOUS
        <3> QED  BY <2>1, <3>1
    <2> HIDE DEF Missed
    <2> QED  BY <2>1
<1>1. PICK n \in Missed : \A y \in Missed : n <= y
    <2>1. Missed \subseteq Nat
        OBVIOUS
    <2> HIDE DEF Missed
    <2> QED  BY <2>1, LeastNat
<1>2. n \in Nat /\ n # 0 /\ lo + n <= hi /\ lo + n \notin T
    BY <1>1
<1>3. n - 1 \in Nat /\ lo + (n - 1) <= hi /\ n - 1 \notin Missed
    BY <1>1, <1>2
<1>4. lo + (n - 1) \in T /\ lo + (n - 1) \in lo .. hi - 1
    BY <1>2, <1>3
<1>5. (lo + (n - 1)) + 1 = lo + n
    BY <1>2
<1> QED  BY <1>2, <1>4, <1>5

\* A function that is given at lo, and elsewhere by what it is one before.
Recurs(r, lo, hi, x, f) == r = [k \in lo .. hi |-> IF k = lo THEN x ELSE f[k][r[k - 1]]]

LEMMA RecursionExists ==
    ASSUME NEW lo \in Int, NEW hi \in Int, lo <= hi, NEW V, NEW x \in V,
           NEW f, \A k \in lo + 1 .. hi : \A v \in V : f[k][v] \in V
    PROVE  \E r : Recurs(r, lo, hi, x, f) /\ \A k \in lo .. hi : r[k] \in V
<1> DEFINE Good(r, h) == /\ r = [k \in lo .. h |-> IF k = lo THEN x ELSE f[k][r[k - 1]]]
                         /\ \A k \in lo .. h : r[k] \in V
           T == {h \in lo .. hi : \E r : Good(r, h)}
<1>1. lo \in T
    <2> DEFINE r == [k \in lo .. lo |-> x]
    <2>1. \A k \in lo .. lo : k = lo
        OBVIOUS
    <2>2. r = [k \in lo .. lo |-> IF k = lo THEN x ELSE f[k][r[k - 1]]]
        BY <2>1
    <2>3. \A k \in lo .. lo : r[k] \in V
        OBVIOUS
    <2>4. lo \in lo .. hi
        OBVIOUS
    <2> HIDE DEF r
    <2>5. Good(r, lo)
        BY <2>2, <2>3
    <2> HIDE DEF Good
    <2> QED  BY <2>4, <2>5
<1>2. ASSUME NEW h \in lo .. hi - 1, h \in T PROVE h + 1 \in T
    <2>1. PICK s : Good(s, h)
        BY <1>2
    <2> DEFINE r == [k \in lo .. h + 1 |-> IF k = h + 1 THEN f[h + 1][s[h]] ELSE s[k]]
    <2>2. /\ r[h + 1] = f[h + 1][s[h]] /\ h + 1 # lo /\ h + 1 \in lo + 1 .. hi /\ s[h] \in V
          /\ \A k \in lo .. h : r[k] = s[k] /\ k # h + 1
        BY <2>1
    <2>3. \A k \in lo .. h + 1 : r[k] = IF k = lo THEN x ELSE f[k][r[k - 1]]
        <3> SUFFICES ASSUME NEW k \in lo .. h + 1
                     PROVE  r[k] = IF k = lo THEN x ELSE f[k][r[k - 1]]
            OBVIOUS
        <3>1. CASE k = h + 1
            <4>1. k - 1 = h /\ h \in lo .. h
                BY <3>1
            <4>2. r[k - 1] = s[h]
                BY <2>2, <4>1
            <4> QED  BY <2>2, <3>1, <4>2
        <3>2. CASE k # h + 1
            <4>1. k \in lo .. h /\ (k # lo => k - 1 \in lo .. h)
                BY <3>2
            <4>2. s[k] = IF k = lo THEN x ELSE f[k][s[k - 1]]
                BY <2>1, <4>1
            <4> HIDE DEF r
            <4> QED  BY <2>2, <4>1, <4>2
        <3> QED  BY <3>1, <3>2
    <2>4. \A k \in lo .. h + 1 : r[k] \in V
        <3>1. \A k \in lo .. h + 1 : k = h + 1 \/ k \in lo .. h
            OBVIOUS
        <3> HIDE DEF r
        <3> QED  BY <2>1, <2>2, <3>1
    <2>5. r = [k \in lo .. h + 1 |-> r[k]]
        OBVIOUS
    <2> HIDE DEF r
    <2>6. Good(r, h + 1)
        BY <2>3, <2>4, <2>5
    <2> HIDE DEF Good
    <2> QED  BY <2>6
<1>3. hi \in T
    <2> HIDE DEF T
    <2>1. lo .. hi \subseteq T
        BY <1>1, <1>2, UpTo
    <2> QED  BY <2>1
<1> QED  BY <1>3 DEF Recurs

\* Where a pass that changes anything raises a bounded measure, as many passes as
\* the bound end with one that changes nothing.
Iterates(g, m, x, f, V) == g[0] = x /\ \A k \in 0 .. m - 1 : g[k] \in V => g[k + 1] = f[g[k]]

RaisesUpTo(f, m, mu, V) ==
    \A v \in V : f[v] \in V /\ mu[v] \in 0 .. m /\ (f[v] = v \/ mu[v] < mu[f[v]])

LEMMA Settles ==
    ASSUME NEW m \in Nat, NEW V, NEW f, NEW mu, NEW g, NEW x \in V,
           Iterates(g, m, x, f, V), RaisesUpTo(f, m, mu, V)
    PROVE  g[m] \in V /\ f[g[m]] = g[m]
<1> USE DEF Iterates, RaisesUpTo
<1> DEFINE T == {k \in 0 .. m : g[k] \in V /\ (f[g[k]] = g[k] \/ mu[g[k]] >= k)}
<1>1. 0 \in T
    <2>1. mu[g[0]] \in 0 .. m
        OBVIOUS
    <2> QED  BY <2>1
<1>2. ASSUME NEW k \in 0 .. m - 1, k \in T PROVE k + 1 \in T
    <2>1. g[k] \in V /\ g[k + 1] = f[g[k]] /\ g[k + 1] \in V
        BY <1>2
    <2>2. CASE f[g[k]] = g[k]
        <3>1. f[g[k + 1]] = g[k + 1]
            BY <2>1, <2>2
        <3> QED  BY <2>1, <3>1
    <2>3. CASE mu[g[k]] >= k /\ f[g[k]] # g[k]
        <3>1. mu[g[k]] < mu[g[k + 1]] /\ mu[g[k]] \in 0 .. m /\ mu[g[k + 1]] \in 0 .. m
            BY <2>1, <2>3
        <3>2. mu[g[k + 1]] >= k + 1
            BY <2>3, <3>1
        <3> QED  BY <2>1, <3>2
    <2> QED  BY <1>2, <2>2, <2>3
<1>3. m \in T
    <2> HIDE DEF T
    <2>1. 0 .. m \subseteq T
        BY <1>1, <1>2, UpTo
    <2> QED  BY <2>1
<1>4. g[m] \in V /\ mu[g[m]] \in 0 .. m /\ mu[f[g[m]]] \in 0 .. m
    BY <1>3
<1> QED  BY <1>3, <1>4

\* A pass of steps each of which raises a measure or changes nothing does so too,
\* and it changes nothing only if none of its steps does.
Raise(step, lo, hi, mu, V) ==
    \A k \in lo + 1 .. hi : \A v \in V :
        /\ step[k][v] \in V /\ mu[v] \in Nat
        /\ step[k][v] = v \/ mu[v] < mu[step[k][v]]

Passed(s, lo, hi, x, step, V) ==
    s[lo] = x /\ \A k \in lo + 1 .. hi : s[k - 1] \in V => s[k] = step[k][s[k - 1]]

LEMMA PassRaises ==
    ASSUME NEW lo \in Int, NEW hi \in Int, lo <= hi, NEW V, NEW mu, NEW step, NEW s, NEW x \in V,
           Passed(s, lo, hi, x, step, V), Raise(step, lo, hi, mu, V)
    PROVE  /\ s[hi] \in V
           /\ s[hi] = x \/ mu[x] < mu[s[hi]]
           /\ s[hi] = x => \A k \in lo + 1 .. hi : step[k][x] = x
<1> DEFINE Still(k) == \A j \in lo + 1 .. k : step[j][x] = x
           T == {k \in lo .. hi : /\ s[k] \in V
                                  /\ (s[k] = x /\ Still(k)) \/ mu[x] < mu[s[k]]}
<1> USE DEF Passed, Raise
<1>1. lo \in T
    BY lo + 1 .. lo = {}
<1>2. ASSUME NEW k \in lo .. hi - 1, k \in T PROVE k + 1 \in T
    <2>1. k + 1 \in lo + 1 .. hi /\ (k + 1) - 1 = k /\ k + 1 \in lo .. hi
        OBVIOUS
    <2>2. /\ s[k] \in V /\ s[k + 1] = step[k + 1][s[k]] /\ s[k + 1] \in V
          /\ mu[s[k]] \in Nat /\ mu[s[k + 1]] \in Nat /\ mu[x] \in Nat
          /\ s[k + 1] = s[k] \/ mu[s[k]] < mu[s[k + 1]]
        BY <1>2, <2>1
    <2>3. CASE mu[x] < mu[s[k]]
        <3>1. mu[x] < mu[s[k + 1]]
            BY <2>2, <2>3
        <3> QED  BY <2>1, <2>2, <3>1
    <2>4. CASE s[k] = x /\ Still(k)
        <3>1. CASE s[k + 1] = x
            <4>1. \A j \in lo + 1 .. k + 1 : j = k + 1 \/ j \in lo + 1 .. k
                OBVIOUS
            <4>2. Still(k + 1)
                BY <2>2, <2>4, <3>1, <4>1
            <4> HIDE DEF Still
            <4> QED  BY <2>1, <2>2, <3>1, <4>2
        <3>2. CASE s[k + 1] # x
            <4>1. mu[x] < mu[s[k + 1]]
                BY <2>2, <2>4, <3>2
            <4> QED  BY <2>1, <2>2, <4>1
        <3> QED  BY <3>1, <3>2
    <2> QED  BY <1>2, <2>3, <2>4
<1>3. hi \in T
    <2> HIDE DEF T
    <2>1. lo .. hi \subseteq T
        BY <1>1, <1>2, UpTo
    <2> QED  BY <2>1
<1>4. mu[x] \in Nat \/ lo = hi
    <2>1. lo # hi => lo + 1 \in lo + 1 .. hi
        OBVIOUS
    <2> QED  BY <2>1
<1>5. CASE lo = hi
    <2>1. lo + 1 .. hi = {}
        BY <1>5
    <2> QED  BY <1>3, <1>5, <2>1
<1>6. CASE lo # hi
    <2>1. ~ (mu[x] < mu[x])
        BY <1>4, <1>6
    <2> HIDE DEF Still
    <2>2. s[hi] = x => Still(hi)
        BY <1>3, <2>1
    <2> QED  BY <1>3, <2>2 DEF Still
<1> QED  BY <1>5, <1>6

\* Sets that grow settle in as many rounds as there are elements to add.
Sizes(V) == [S \in V |-> Cardinality(S)]

LEMMA GrowingSets ==
    ASSUME NEW U, IsFiniteSet(U), NEW m \in Nat, Cardinality(U) <= m,
           NEW V, V \subseteq SUBSET U, NEW f, \A S \in V : f[S] \in V /\ S \subseteq f[S]
    PROVE  RaisesUpTo(f, m, Sizes(V), V)
<1>1. \A S \in V : IsFiniteSet(S) /\ Cardinality(S) \in Nat /\ Cardinality(S) <= m
    <2> SUFFICES ASSUME NEW S \in V
                 PROVE  IsFiniteSet(S) /\ Cardinality(S) \in Nat /\ Cardinality(S) <= m
        OBVIOUS
    <2>1. S \in SUBSET U
        OBVIOUS
    <2>2. IsFiniteSet(S) /\ Cardinality(S) <= Cardinality(U)
        BY <2>1, FS_Subset
    <2>3. Cardinality(S) \in Nat /\ Cardinality(U) \in Nat
        BY <2>2, FS_CardinalityType
    <2> QED  BY <2>2, <2>3
<1>2. ASSUME NEW S \in V, f[S] # S PROVE Cardinality(S) < Cardinality(f[S])
    <2>1. S \in SUBSET f[S] /\ f[S] \in V
        OBVIOUS
    <2>2. Cardinality(S) <= Cardinality(f[S]) /\ Cardinality(S) # Cardinality(f[S])
        BY <1>1, <1>2, <2>1, FS_Subset
    <2> QED  BY <1>1, <2>1, <2>2
<1>3. \A S \in V : Sizes(V)[S] = Cardinality(S)
    BY DEF Sizes
<1>4. \A S \in V : Cardinality(S) \in 0 .. m
    BY <1>1
<1> QED  BY <1>2, <1>3, <1>4 DEF RaisesUpTo

\* The values of a function on a finite set are few.
LEMMA SetOfFew ==
    ASSUME NEW S, NEW f, IsFiniteSet(S)
    PROVE  IsFiniteSet({f[x] : x \in S})
<1> DEFINE h == [x \in S |-> f[x]]
<1>1. IsFiniteSet({h[x] : x \in S})
    <2>1. h \in Surjection(S, {h[x] : x \in S})
        BY DEF Surjection
    <2> HIDE DEF h
    <2> QED  BY <2>1, FS_Surjection
<1> QED  BY <1>1

-----------------------------------------------------------------------------
(* Sequences of anything.                                                  *)

Items(s)      == {s[k] : k \in DOMAIN s}
IsSequence(s) == s \in Seq(Items(s))

LEMMA SequenceIs ==
    ASSUME NEW S, NEW s \in Seq(S)
    PROVE  IsSequence(s) /\ Items(s) \subseteq S
<1>1. s \in [1 .. Len(s) -> S] /\ Len(s) \in Nat /\ DOMAIN s = 1 .. Len(s)
    BY LenProperties
<1>2. s \in [1 .. Len(s) -> Items(s)] /\ Items(s) \subseteq S
    BY <1>1 DEF Items
<1> QED  BY <1>1, <1>2, SeqDef DEF IsSequence

LEMMA SequenceDomain ==
    ASSUME NEW s, IsSequence(s)
    PROVE  Len(s) \in Nat /\ DOMAIN s = 1 .. Len(s) /\ (s = <<>> <=> Len(s) = 0)
<1>1. s \in Seq(Items(s))
    BY DEF IsSequence
<1> QED  BY <1>1, LenProperties, EmptySeq

LEMMA FunctionIsSequence ==
    ASSUME NEW n \in Nat, NEW f, f = [k \in 1 .. n |-> f[k]]
    PROVE  IsSequence(f) /\ Len(f) = n /\ DOMAIN f = 1 .. n
<1>1. f \in [1 .. n -> Items(f)] /\ DOMAIN f = 1 .. n
    BY DEF Items
<1>2. f \in Seq(Items(f))
    BY <1>1, SeqDef
<1>3. Len(f) \in Nat /\ DOMAIN f = 1 .. Len(f)
    BY <1>2, LenProperties
<1> QED  BY <1>1, <1>2, <1>3 DEF IsSequence

LEMMA EmptyAndSingle ==
    /\ IsSequence(<<>>) /\ Len(<<>>) = 0 /\ DOMAIN <<>> = {} /\ Items(<<>>) = {}
    /\ \A x : /\ IsSequence(<<x>>) /\ Len(<<x>>) = 1 /\ DOMAIN <<x>> = 1 .. 1
              /\ <<x>>[1] = x /\ Items(<<x>>) = {x}
<1>1. <<>> \in Seq({}) /\ Len(<<>>) = 0 /\ DOMAIN <<>> = {}
    BY EmptySeq
<1>2. ASSUME NEW x
      PROVE  <<x>> \in Seq({x}) /\ Len(<<x>>) = 1 /\ DOMAIN <<x>> = 1 .. 1 /\ <<x>>[1] = x
    OBVIOUS
<1>3. \A x : Items(<<x>>) = {x}
    BY <1>2 DEF Items
<1>4. \A x : IsSequence(<<x>>)
    BY <1>2, <1>3 DEF IsSequence
<1>5. IsSequence(<<>>) /\ Items(<<>>) = {}
    BY <1>1, SequenceIs DEF Items
<1> QED  BY <1>1, <1>2, <1>3, <1>4, <1>5

\* What appending an item does to a sequence.
LEMMA AppendItem ==
    ASSUME NEW s, IsSequence(s), NEW x
    PROVE  LET t == Append(s, x)
           IN  /\ IsSequence(t)
               /\ Len(t) = Len(s) + 1 /\ DOMAIN t = 1 .. Len(s) + 1
               /\ DOMAIN s = 1 .. Len(s) /\ Len(s) \in Nat
               /\ \A k \in DOMAIN s : t[k] = s[k]
               /\ t[Len(s) + 1] = x
<1> DEFINE t == Append(s, x)
           S == Items(s) \cup {x}
<1>1. s \in Seq(S)
    BY SeqMonotonic, Items(s) \subseteq S DEF IsSequence
<1>2. /\ Len(s) \in Nat /\ DOMAIN s = 1 .. Len(s)
      /\ t \in Seq(S) /\ Len(t) = Len(s) + 1 /\ DOMAIN t = 1 .. Len(s) + 1
      /\ \A k \in 1 .. Len(s) : t[k] = s[k]
      /\ t[Len(s) + 1] = x
    BY <1>1, LenProperties
<1>3. S = Items(t)
    BY <1>2 DEF Items
<1> QED  BY <1>2, <1>3 DEF IsSequence

\* Two sequences joined.
Joins(u, s, t) ==
    /\ IsSequence(u) /\ Len(u) = Len(s) + Len(t) /\ DOMAIN u = 1 .. Len(s) + Len(t)
    /\ \A k \in 1 .. Len(s) : u[k] = s[k]
    /\ \A k \in 1 .. Len(t) : u[Len(s) + k] = t[k]

LEMMA ConcatItems ==
    ASSUME NEW s, IsSequence(s), NEW t, IsSequence(t)
    PROVE  /\ Joins(s \o t, s, t)
           /\ t = <<>> => s \o t = s
           /\ s = <<>> => s \o t = t
<1> DEFINE S == Items(s) \cup Items(t)
<1>1. s \in Seq(S) /\ t \in Seq(S)
    BY SeqMonotonic, Items(s) \subseteq S, Items(t) \subseteq S DEF IsSequence
<1>2. /\ s \o t \in Seq(S) /\ Len(s \o t) = Len(s) + Len(t)
      /\ Len(s) \in Nat /\ Len(t) \in Nat
      /\ \A i \in 1 .. Len(s) + Len(t) :
            (s \o t)[i] = IF i <= Len(s) THEN s[i] ELSE t[i - Len(s)]
    BY <1>1, ConcatProperties, LenProperties
<1>3. t = <<>> => s \o t = s
    BY <1>1, ConcatEmptySeq
<1>4. s = <<>> => s \o t = t
    BY <1>1, ConcatEmptySeq
<1> DEFINE u == s \o t
<1> HIDE DEF S
<1>5. IsSequence(u) /\ DOMAIN u = 1 .. Len(s) + Len(t)
    BY <1>2, SequenceIs, LenProperties
<1>6. ASSUME NEW k \in 1 .. Len(s) PROVE u[k] = s[k]
    <2>1. k \in 1 .. Len(s) + Len(t) /\ k <= Len(s)
        BY <1>2
    <2> QED  BY <1>2, <2>1
<1>7. ASSUME NEW k \in 1 .. Len(t) PROVE u[Len(s) + k] = t[k]
    <2>1. /\ Len(s) + k \in 1 .. Len(s) + Len(t) /\ ~ (Len(s) + k <= Len(s))
          /\ (Len(s) + k) - Len(s) = k
        BY <1>2
    <2> QED  BY <1>2, <2>1
<1> QED  BY <1>2, <1>3, <1>4, <1>5, <1>6, <1>7 DEF Joins

LEMMA ConcatRange ==
    ASSUME NEW s, IsSequence(s), NEW t, IsSequence(t)
    PROVE  Items(s \o t) = Items(s) \cup Items(t)
<1> DEFINE u == s \o t
<1>1. /\ Joins(u, s, t) /\ Len(s) \in Nat /\ Len(t) \in Nat
      /\ DOMAIN s = 1 .. Len(s) /\ DOMAIN t = 1 .. Len(t)
    BY ConcatItems, SequenceDomain
<1> HIDE DEF u
<1>2. \A k \in DOMAIN u : k \in 1 .. Len(s) \/ \E j \in 1 .. Len(t) : k = Len(s) + j
    <2> SUFFICES ASSUME NEW k \in 1 .. Len(s) + Len(t), k \notin 1 .. Len(s)
                 PROVE  \E j \in 1 .. Len(t) : k = Len(s) + j
        BY <1>1 DEF Joins
    <2>1. k - Len(s) \in 1 .. Len(t) /\ k = Len(s) + (k - Len(s))
        BY <1>1
    <2> QED  BY <2>1
<1>3. Items(u) \subseteq Items(s) \cup Items(t)
    <2> SUFFICES ASSUME NEW k \in DOMAIN u PROVE u[k] \in Items(s) \cup Items(t)
        BY DEF Items
    <2>1. CASE k \in 1 .. Len(s)
        BY <1>1, <2>1 DEF Joins, Items
    <2>2. CASE \E j \in 1 .. Len(t) : k = Len(s) + j
        BY <1>1, <2>2 DEF Joins, Items
    <2> QED  BY <1>2, <2>1, <2>2
<1>4. \A k \in 1 .. Len(s) : k \in 1 .. Len(s) + Len(t)
    BY <1>1
<1>5. \A k \in 1 .. Len(t) : Len(s) + k \in 1 .. Len(s) + Len(t)
    BY <1>1
<1>6. Items(s) \subseteq Items(u)
    BY <1>1, <1>4 DEF Joins, Items
<1>7. Items(t) \subseteq Items(u)
    BY <1>1, <1>5 DEF Joins, Items
<1> QED  BY <1>3, <1>6, <1>7 DEF u

\* A sequence without its head.
LEMMA TailItems ==
    ASSUME NEW s, IsSequence(s), s # <<>>
    PROVE  /\ Head(s) = s[1] /\ Len(s) \in Nat \ {0}
           /\ IsSequence(Tail(s)) /\ Len(Tail(s)) = Len(s) - 1
           /\ DOMAIN Tail(s) = 1 .. Len(s) - 1
           /\ \A k \in 1 .. Len(s) - 1 : Tail(s)[k] = s[k + 1]
<1>1. s \in Seq(Items(s))
    BY DEF IsSequence
<1>2. /\ Tail(s) \in Seq(Items(s)) /\ Len(Tail(s)) = Len(s) - 1
      /\ \A k \in 1 .. Len(Tail(s)) : Tail(s)[k] = s[k + 1]
      /\ Len(s) \in Nat \ {0}
    BY <1>1, HeadTailProperties, EmptySeq
<1>3. Head(s) = s[1]
    BY <1>1
<1> QED  BY <1>2, <1>3, SequenceIs, LenProperties

-----------------------------------------------------------------------------
(* FlattenSeq.                                                             *)

\* The equations of the sequences joined from the left.
AreJoined(g, ss, n) ==
    /\ g = [k \in 1 .. n |-> g[k]]
    /\ \A k \in 1 .. n : g[k] = IF k = 1 THEN ss[1] ELSE g[k - 1] \o ss[k]

\* A shortest prefix without a solution would be one longer than one with one.
LEMMA JoinedExist ==
    ASSUME NEW ss, NEW n \in Nat
    PROVE  \E g : AreJoined(g, ss, n)
<1> DEFINE T == {m \in Nat : ~ \E g : AreJoined(g, ss, m)}
<1> SUFFICES ASSUME T # {} PROVE FALSE
    OBVIOUS
<1>1. PICK m \in T : \A y \in T : m <= y
    <2>1. T \subseteq Nat
        OBVIOUS
    <2> HIDE DEF T
    <2> QED  BY <2>1, LeastNat
<1>2. m # 0
    <2>1. AreJoined([k \in 1 .. 0 |-> ss[1]], ss, 0)
        BY DEF AreJoined
    <2> QED  BY <2>1
<1>3. m \in Nat /\ m - 1 \in Nat /\ m - 1 \notin T
    BY <1>1, <1>2
<1>4. PICK s : AreJoined(s, ss, m - 1)
    BY <1>3
<1> DEFINE r == [k \in 1 .. m |->
                    IF k = m THEN IF m = 1 THEN ss[1] ELSE s[m - 1] \o ss[m] ELSE s[k]]
<1>5. AreJoined(r, ss, m)
    <2>1. r = [k \in 1 .. m |-> r[k]]
        OBVIOUS
    <2>2. ASSUME NEW k \in 1 .. m
          PROVE  r[k] = IF k = 1 THEN ss[1] ELSE r[k - 1] \o ss[k]
        <3>1. CASE k = m
            <4>1. m # 1 => k - 1 \in 1 .. m /\ k - 1 # m
                BY <1>3, <3>1
            <4> QED  BY <3>1, <4>1
        <3>2. CASE k # m
            <4>1. k \in 1 .. m - 1 /\ (k # 1 => k - 1 \in 1 .. m /\ k - 1 # m)
                BY <3>2, <1>3
            <4>2. r[k] = s[k] /\ (k # 1 => r[k - 1] = s[k - 1])
                BY <3>2, <4>1
            <4> QED  BY <4>1, <4>2, <1>4 DEF AreJoined
        <3> QED  BY <3>1, <3>2
    <2> HIDE DEF r
    <2> QED  BY <2>1, <2>2 DEF AreJoined
<1> QED  BY <1>3, <1>1, <1>5

LEMMA FlattenIsJoined ==
    ASSUME NEW ss, IsSequence(ss), ss # <<>>
    PROVE  \E g : AreJoined(g, ss, Len(ss)) /\ FlattenSeq(ss) = g[Len(ss)]
<1> DEFINE n == Len(ss)
           Step(g, k) == IF k = 1 THEN ss[k] ELSE g[k - 1] \o ss[k]
           Eq(g) == g = [k \in 1 .. n |-> Step(g, k)]
<1>1. n \in Nat \ {0}
    BY SequenceDomain
<1>2. PICK s : AreJoined(s, ss, n)
    BY <1>1, JoinedExist
<1>3. FlattenSeq(ss) = (CHOOSE g : Eq(g))[n]
    BY <1>1 DEF FlattenSeq
<1> HIDE DEF n
<1>4. Eq(s)
    <2>1. \A k \in 1 .. n : s[k] = Step(s, k)
        BY <1>2 DEF AreJoined
    <2>2. s = [k \in 1 .. n |-> s[k]]
        BY <1>2 DEF AreJoined
    <2> HIDE DEF Step
    <2> QED  BY <2>1, <2>2
<1>5. PICK g : g = (CHOOSE h : Eq(h)) /\ Eq(g)
    <2> HIDE DEF Eq
    <2> QED  BY <1>4
<1>6. AreJoined(g, ss, n)
    <2>1. g = [k \in 1 .. n |-> g[k]] /\ \A k \in 1 .. n : g[k] = Step(g, k)
        <3> HIDE DEF Step
        <3> QED  BY <1>5
    <2> QED  BY <2>1 DEF AreJoined
<1>7. FlattenSeq(ss) = g[n]
    <2> HIDE DEF Eq
    <2> QED  BY <1>3, <1>5
<1> QED  BY <1>6, <1>7 DEF n

\* The items of the flattened sequence are those of the sequences in it.
LEMMA FlattenItems ==
    ASSUME NEW S, NEW ss \in Seq(Seq(S))
    PROVE  /\ FlattenSeq(ss) \in Seq(S)
           /\ Items(FlattenSeq(ss)) = UNION {Items(ss[k]) : k \in DOMAIN ss}
<1>1. /\ IsSequence(ss) /\ Len(ss) \in Nat /\ DOMAIN ss = 1 .. Len(ss)
      /\ \A k \in DOMAIN ss : ss[k] \in Seq(S)
    BY SequenceIs, LenProperties
<1>2. CASE ss = <<>>
    <2>1. FlattenSeq(ss) = <<>>
        BY <1>2, EmptyAndSingle DEF FlattenSeq
    <2> QED  BY <1>2, <2>1, EmptyAndSingle, EmptySeq
<1>3. CASE ss # <<>>
    <2> DEFINE n == Len(ss)
               Upto(k) == UNION {Items(ss[j]) : j \in 1 .. k}
    <2>1. PICK g : AreJoined(g, ss, n) /\ FlattenSeq(ss) = g[n]
        BY <1>1, <1>3, FlattenIsJoined
    <2> DEFINE T == {k \in 1 .. n : ~ (g[k] \in Seq(S) /\ Items(g[k]) = Upto(k))}
    <2> HIDE DEF n
    <2>2. T = {}
        <3> SUFFICES ASSUME T # {} PROVE FALSE
            OBVIOUS
        <3>1. PICK m \in T : \A y \in T : m <= y
            <4>1. T \subseteq Nat
                OBVIOUS
            <4> HIDE DEF T
            <4> QED  BY <4>1, LeastNat
        <3>2. m \in 1 .. n /\ ss[m] \in Seq(S)
            BY <3>1, <1>1 DEF n
        <3>3. m # 1
            <4>1. \A j : j \in 1 .. 1 <=> j = 1
                OBVIOUS
            <4>2. Upto(1) = Items(ss[1])
                BY <4>1
            <4>3. m = 1 => g[1] = ss[1]
                BY <2>1, <3>2 DEF AreJoined
            <4> HIDE DEF Upto
            <4> QED  BY <3>1, <3>2, <4>2, <4>3
        <3>4. m - 1 \in 1 .. n /\ m - 1 \notin T
            <4>1. m - 1 \in 1 .. n /\ m \in Nat /\ ~ (m <= m - 1)
                BY <1>1, <3>2, <3>3 DEF n
            <4> HIDE DEF T
            <4> QED  BY <3>1, <4>1
        <3>5. g[m - 1] \in Seq(S) /\ Items(g[m - 1]) = Upto(m - 1)
            BY <3>4
        <3>6. g[m] = g[m - 1] \o ss[m]
            BY <2>1, <3>2, <3>3 DEF AreJoined
        <3>7. g[m] \in Seq(S)
            BY <3>2, <3>5, <3>6, ConcatProperties
        <3>8. Items(g[m]) = Items(g[m - 1]) \cup Items(ss[m])
            BY <3>2, <3>5, <3>6, SequenceIs, ConcatRange
        <3>9. Upto(m) = Upto(m - 1) \cup Items(ss[m])
            <4>1. \A j : j \in 1 .. m <=> j \in 1 .. m - 1 \/ j = m
                BY <3>2
            <4> QED  BY <4>1
        <3> HIDE DEF Upto
        <3> QED  BY <3>5, <3>7, <3>8, <3>9
    <2>3. n \in 1 .. n
        BY <1>1, <1>3, SequenceDomain DEF n
    <2>4. g[n] \in Seq(S) /\ Items(g[n]) = Upto(n)
        BY <2>2, <2>3
    <2> QED  BY <1>1, <2>1, <2>4 DEF n
<1> QED  BY <1>2, <1>3

-----------------------------------------------------------------------------
(* sorted()                                                                *)

\* The equations of the sequences of members up to a number.
AreSorted(g, S, n) ==
    /\ g = [p \in 0 .. n |-> g[p]]
    /\ \A p \in 0 .. n :
          g[p] = IF p = 0 THEN <<>> ELSE IF p \in S THEN Append(g[p - 1], p) ELSE g[p - 1]

LEMMA SortedExist ==
    ASSUME NEW S, NEW n \in Nat
    PROVE  \E g : AreSorted(g, S, n)
<1> DEFINE T == {m \in Nat : ~ \E g : AreSorted(g, S, m)}
<1> SUFFICES ASSUME T # {} PROVE FALSE
    OBVIOUS
<1>1. PICK m \in T : \A y \in T : m <= y
    <2>1. T \subseteq Nat
        OBVIOUS
    <2> HIDE DEF T
    <2> QED  BY <2>1, LeastNat
<1>2. m # 0
    <2>1. AreSorted([p \in 0 .. 0 |-> <<>>], S, 0)
        BY DEF AreSorted
    <2> QED  BY <2>1
<1>3. m \in Nat /\ m - 1 \in Nat /\ m - 1 \notin T
    BY <1>1, <1>2
<1>4. PICK s : AreSorted(s, S, m - 1)
    BY <1>3
<1> DEFINE r == [p \in 0 .. m |-> IF p = m THEN IF p \in S THEN Append(s[m - 1], p)
                                                ELSE s[m - 1]
                                  ELSE s[p]]
<1>5. AreSorted(r, S, m)
    <2>1. r = [p \in 0 .. m |-> r[p]]
        OBVIOUS
    <2>2. ASSUME NEW p \in 0 .. m
          PROVE  r[p] = IF p = 0 THEN <<>>
                        ELSE IF p \in S THEN Append(r[p - 1], p) ELSE r[p - 1]
        <3>1. CASE p = m
            <4>1. p - 1 \in 0 .. m /\ p - 1 # m /\ p # 0
                BY <1>2, <1>3, <3>1
            <4> QED  BY <3>1, <4>1
        <3>2. CASE p # m
            <4>1. p \in 0 .. m - 1 /\ (p # 0 => p - 1 \in 0 .. m /\ p - 1 # m)
                BY <1>3, <3>2
            <4>2. r[p] = s[p] /\ (p # 0 => r[p - 1] = s[p - 1])
                BY <3>2, <4>1
            <4> QED  BY <1>4, <4>1, <4>2 DEF AreSorted
        <3> QED  BY <3>1, <3>2
    <2> HIDE DEF r
    <2> QED  BY <2>1, <2>2 DEF AreSorted
<1> QED  BY <1>1, <1>3, <1>5

LEMMA SortedIs ==
    ASSUME NEW S, NEW n \in Nat
    PROVE  \E g : AreSorted(g, S, n) /\ Sorted(S, n) = g[n]
<1> DEFINE Step(g, p) == IF p = 0 THEN <<>>
                         ELSE IF p \in S THEN Append(g[p - 1], p) ELSE g[p - 1]
           Eq(g) == g = [p \in 0 .. n |-> Step(g, p)]
<1>1. PICK s : AreSorted(s, S, n)
    BY SortedExist
<1>2. Sorted(S, n) = (CHOOSE g : Eq(g))[n]
    BY DEF Sorted
<1>3. Eq(s)
    <2>1. \A p \in 0 .. n : s[p] = Step(s, p)
        BY <1>1 DEF AreSorted
    <2>2. s = [p \in 0 .. n |-> s[p]]
        BY <1>1 DEF AreSorted
    <2> HIDE DEF Step
    <2> QED  BY <2>1, <2>2
<1>4. PICK g : g = (CHOOSE h : Eq(h)) /\ Eq(g)
    <2> HIDE DEF Eq
    <2> QED  BY <1>3
<1>5. AreSorted(g, S, n)
    <2>1. g = [p \in 0 .. n |-> g[p]] /\ \A p \in 0 .. n : g[p] = Step(g, p)
        <3> HIDE DEF Step
        <3> QED  BY <1>4
    <2> QED  BY <2>1 DEF AreSorted
<1>6. Sorted(S, n) = g[n]
    <2> HIDE DEF Eq
    <2> QED  BY <1>2, <1>4
<1> QED  BY <1>5, <1>6

\* In order, and all of them.
Ascends(s, T) ==
    /\ IsSequence(s) /\ Items(s) = T
    /\ \A i, j \in 1 .. Len(s) : i < j => s[i] < s[j]

LEMMA SortedMembers ==
    ASSUME NEW n \in Nat, NEW S, S \subseteq 1 .. n
    PROVE  Ascends(Sorted(S, n), S)
<1>1. PICK g : AreSorted(g, S, n) /\ Sorted(S, n) = g[n]
    BY SortedIs
<1> DEFINE T == {m \in 0 .. n : ~ Ascends(g[m], S \cap 1 .. m)}
<1>2. T = {}
    <2> SUFFICES ASSUME T # {} PROVE FALSE
        OBVIOUS
    <2>1. PICK m \in T : \A y \in T : m <= y
        <3>1. T \subseteq Nat
            OBVIOUS
        <3> HIDE DEF T
        <3> QED  BY <3>1, LeastNat
    <2>2. m # 0
        <3>1. g[0] = <<>> /\ S \cap 1 .. 0 = {}
            BY <1>1 DEF AreSorted
        <3>2. Ascends(<<>>, {})
            BY EmptyAndSingle DEF Ascends
        <3>3. Ascends(g[0], S \cap 1 .. 0)
            BY <3>1, <3>2
        <3> QED  BY <3>3
    <2>3. m \in 0 .. n /\ m - 1 \in 0 .. n /\ m \in 1 .. n /\ m - 1 \notin T
        BY <2>1, <2>2
    <2> DEFINE s == g[m - 1]
               B == S \cap 1 .. m - 1
    <2>4. Ascends(s, B)
        BY <2>3
    <2>5. g[m] = IF m \in S THEN Append(s, m) ELSE s
        BY <1>1, <2>2, <2>3 DEF AreSorted
    <2>6. \A x : x \in 1 .. m <=> x \in 1 .. m - 1 \/ x = m
        BY <2>3
    <2> HIDE DEF s
    <2>7. CASE m \notin S
        <3>1. S \cap 1 .. m = B
            BY <2>6, <2>7
        <3> QED  BY <2>1, <2>4, <2>5, <2>7, <3>1
    <2>8. CASE m \in S
        <3> DEFINE t == Append(s, m)
        <3>1. S \cap 1 .. m = B \cup {m}
            BY <2>6, <2>8
        <3>2. /\ IsSequence(s) /\ Items(s) = B
              /\ \A i, j \in 1 .. Len(s) : i < j => s[i] < s[j]
            BY <2>4 DEF Ascends
        <3>3. /\ IsSequence(t) /\ Len(t) = Len(s) + 1 /\ DOMAIN t = 1 .. Len(s) + 1
              /\ DOMAIN s = 1 .. Len(s) /\ Len(s) \in Nat
              /\ \A k \in DOMAIN s : t[k] = s[k]
              /\ t[Len(s) + 1] = m
            BY <3>2, AppendItem
        <3> HIDE DEF t
        <3>4. \A k : k \in 1 .. Len(s) + 1 <=> k \in 1 .. Len(s) \/ k = Len(s) + 1
            BY <3>3
        <3>5. Items(t) = B \cup {m}
            <4>1. \A k \in 1 .. Len(s) : t[k] \in B
                BY <3>2, <3>3 DEF Items
            <4>2. Items(t) \subseteq B \cup {m}
                BY <3>3, <3>4, <4>1 DEF Items
            <4>3. B \cup {m} \subseteq Items(t)
                BY <3>2, <3>3, <3>4 DEF Items
            <4> QED  BY <4>2, <4>3
        <3>6. \A i, j \in 1 .. Len(t) : i < j => t[i] < t[j]
            <4> SUFFICES ASSUME NEW i \in 1 .. Len(t), NEW j \in 1 .. Len(t), i < j
                         PROVE  t[i] < t[j]
                OBVIOUS
            <4>1. i \in 1 .. Len(s)
                BY <3>3
            <4>2. t[i] = s[i] /\ s[i] \in B
                BY <3>2, <3>3, <4>1 DEF Items
            <4>3. CASE j \in 1 .. Len(s)
                BY <3>2, <3>3, <4>1, <4>2, <4>3
            <4>4. CASE j = Len(s) + 1
                <5>1. s[i] \in 1 .. m - 1
                    BY <4>2
                <5> QED  BY <2>3, <3>3, <4>2, <4>4, <5>1
            <4> QED  BY <3>3, <3>4, <4>3, <4>4
        <3>7. Ascends(t, S \cap 1 .. m)
            BY <3>1, <3>3, <3>5, <3>6 DEF Ascends
        <3> QED  BY <2>1, <2>5, <2>8, <3>7 DEF t
    <2> QED  BY <2>7, <2>8
<1>3. n \in 0 .. n
    OBVIOUS
<1>5. S \cap 1 .. n = S
    OBVIOUS
<1>4. Ascends(g[n], S \cap 1 .. n)
    BY <1>2, <1>3
<1> QED  BY <1>1, <1>4, <1>5

\* Taking items at some positions keeps their order.
Selects(t, s, S) ==
    /\ IsSequence(t) /\ Items(t) = {s[n] : n \in S}
    /\ \E order : /\ Ascends(order, S) /\ Len(t) = Len(order)
                  /\ DOMAIN t = 1 .. Len(order) /\ DOMAIN order = 1 .. Len(order)
                  /\ \A n \in DOMAIN t : t[n] = s[order[n]]

LEMMA SelectedItems ==
    ASSUME NEW s, IsSequence(s), NEW S, S \subseteq DOMAIN s
    PROVE  Selects(Selected(s, S), s, S)
<1> DEFINE order == Sorted(S, Len(s))
           t == Selected(s, S)
<1>1. Len(s) \in Nat /\ DOMAIN s = 1 .. Len(s)
    BY SequenceDomain
<1>2. Ascends(order, S)
    BY <1>1, SortedMembers
<1>3. t = [n \in DOMAIN order |-> s[order[n]]]
    BY DEF Selected
<1> HIDE DEF order
<1>4. Len(order) \in Nat /\ DOMAIN order = 1 .. Len(order) /\ Items(order) = S
    BY <1>2, SequenceDomain DEF Ascends
<1>5. IsSequence(t) /\ DOMAIN t = 1 .. Len(order) /\ Len(t) = Len(order)
    <2>1. t = [n \in 1 .. Len(order) |-> t[n]]
        BY <1>3, <1>4
    <2> HIDE DEF t
    <2> QED  BY <1>4, <2>1, FunctionIsSequence
<1>6. \A n \in DOMAIN t : t[n] = s[order[n]]
    BY <1>3, <1>4, <1>5
<1> HIDE DEF t
<1>7. Items(t) = {s[n] : n \in S}
    BY <1>4, <1>5, <1>6 DEF Items
<1>8. Selects(t, s, S)
    BY <1>2, <1>4, <1>5, <1>6, <1>7 DEF Selects
<1> QED  BY <1>8 DEF t

LEMMA SelectedAll ==
    ASSUME NEW s, IsSequence(s)
    PROVE  Selected(s, DOMAIN s) = s
<1> DEFINE n == Len(s)
           upto(p) == [i \in 1 .. p |-> i]
<1>1. n \in Nat /\ DOMAIN s = 1 .. n
    BY SequenceDomain
<1> HIDE DEF n
<1>2. PICK g : AreSorted(g, 1 .. n, n) /\ Sorted(1 .. n, n) = g[n]
    BY <1>1, SortedIs
<1> DEFINE T == {m \in 0 .. n : g[m] # upto(m)}
<1>3. T = {}
    <2> SUFFICES ASSUME T # {} PROVE FALSE
        OBVIOUS
    <2>1. PICK m \in T : \A y \in T : m <= y
        <3>1. T \subseteq Nat
            OBVIOUS
        <3> HIDE DEF T
        <3> QED  BY <3>1, LeastNat
    <2>2. m # 0
        <3>1. g[0] = <<>>
            BY <1>1, <1>2 DEF AreSorted
        <3>2. upto(0) = <<>>
            <4>1. IsSequence(upto(0)) /\ Len(upto(0)) = 0
                BY FunctionIsSequence
            <4> QED  BY <4>1, SequenceDomain
        <3> QED  BY <3>1, <3>2
    <2>3. m \in 1 .. n /\ m - 1 \in 0 .. n /\ m - 1 \notin T /\ m \in 0 .. n
        BY <1>1, <2>1, <2>2
    <2>4. g[m] = Append(upto(m - 1), m)
        BY <1>2, <2>2, <2>3 DEF AreSorted
    <2>5. Append(upto(m - 1), m) = upto(m)
        <3> DEFINE a == upto(m - 1)
                   t == Append(a, m)
        <3>1. m - 1 \in Nat /\ (m - 1) + 1 = m
            BY <1>1, <2>3
        <3>2. IsSequence(a) /\ Len(a) = m - 1 /\ DOMAIN a = 1 .. m - 1
            <4>1. a = [i \in 1 .. m - 1 |-> a[i]]
                OBVIOUS
            <4> HIDE DEF a
            <4> QED  BY <3>1, <4>1, FunctionIsSequence
        <3>3. \A i \in 1 .. m - 1 : a[i] = i
            OBVIOUS
        <3> HIDE DEF a
        <3>4. /\ IsSequence(t) /\ Len(t) = m /\ DOMAIN t = 1 .. m
              /\ \A i \in 1 .. m - 1 : t[i] = i
              /\ t[m] = m
            BY <3>1, <3>2, <3>3, AppendItem
        <3> HIDE DEF t
        <3>5. \A i \in 1 .. m : t[i] = i
            <4>1. \A i \in 1 .. m : i \in 1 .. m - 1 \/ i = m
                BY <3>1
            <4> QED  BY <3>4, <4>1
        <3>6. t = [i \in DOMAIN t |-> t[i]]
            <4>1. t \in [1 .. Len(t) -> Items(t)]
                BY <3>4, LenProperties DEF IsSequence
            <4> QED  BY <3>4, <4>1
        <3>7. t = upto(m)
            BY <3>4, <3>5, <3>6
        <3> QED  BY <3>7 DEF t, a
    <2> QED  BY <2>1, <2>4, <2>5
<1>4. Sorted(1 .. n, n) = upto(n)
    <2>1. n \in 0 .. n
        BY <1>1
    <2> QED  BY <1>2, <1>3, <2>1
<1>5. Selected(s, 1 .. n) = [i \in 1 .. n |-> s[i]]
    <2>1. DOMAIN upto(n) = 1 .. n /\ \A i \in 1 .. n : upto(n)[i] = i
        OBVIOUS
    <2> HIDE DEF upto
    <2> QED  BY <1>4, <2>1 DEF Selected, n
<1>6. s = [i \in 1 .. n |-> s[i]]
    <2>1. s \in [1 .. n -> Items(s)]
        BY LenProperties DEF IsSequence, n
    <2> QED  BY <2>1
<1> QED  BY <1>1, <1>5, <1>6

\* No item stands twice.
Differ(s) == \A i, j \in DOMAIN s : s[i] = s[j] => i = j

LEMMA FewItems ==
    ASSUME NEW s, IsSequence(s), Differ(s)
    PROVE  /\ Items(s) = {} => s = <<>>
           /\ \A x : Items(s) = {x} => s = <<x>>
<1>1. Len(s) \in Nat /\ DOMAIN s = 1 .. Len(s) /\ (s = <<>> <=> Len(s) = 0)
    BY SequenceDomain
<1>2. \A i \in 1 .. Len(s) : s[i] \in Items(s)
    BY <1>1 DEF Items
<1>3. Items(s) = {} => s = <<>>
    <2>1. Len(s) # 0 => 1 \in 1 .. Len(s)
        BY <1>1
    <2> QED  BY <1>1, <1>2, <2>1
<1>4. s = [i \in 1 .. Len(s) |-> s[i]]
    <2>1. s \in [1 .. Len(s) -> Items(s)]
        BY LenProperties DEF IsSequence
    <2> QED  BY <2>1
<1>5. ASSUME NEW x, Items(s) = {x} PROVE s = <<x>>
    <2>1. PICK i \in 1 .. Len(s) : s[i] = x
        BY <1>1, <1>5 DEF Items
    <2>2. \A j \in 1 .. Len(s) : s[j] = x /\ j = i
        BY <1>1, <1>2, <1>5, <2>1 DEF Differ
    <2>3. Len(s) = 1
        <3>1. 1 \in 1 .. Len(s) /\ Len(s) \in 1 .. Len(s)
            BY <1>1, <2>1
        <3> QED  BY <2>2, <3>1
    <2>4. s[1] = x
        BY <2>2, <2>3
    <2> QED  BY <1>1, <1>4, <2>3, <2>4
<1> QED  BY <1>3, <1>5

LEMMA TwoItems ==
    ASSUME NEW s, IsSequence(s), Differ(s), NEW x, NEW y, x # y, Items(s) = {x, y}
    PROVE  Len(s) = 2 /\ (s[1] = x => s = <<x, y>>)
<1>1. Len(s) \in Nat /\ DOMAIN s = 1 .. Len(s)
    BY SequenceDomain
<1>2. \A i \in 1 .. Len(s) : s[i] \in Items(s)
    BY <1>1 DEF Items
<1>3. s = [i \in 1 .. Len(s) |-> s[i]]
    <2>1. s \in [1 .. Len(s) -> Items(s)]
        BY LenProperties DEF IsSequence
    <2> QED  BY <2>1
<1>4. PICK i \in 1 .. Len(s) : s[i] = x
    BY <1>1 DEF Items
<1>5. PICK j \in 1 .. Len(s) : s[j] = y
    BY <1>1 DEF Items
<1>6. i # j /\ \A k \in 1 .. Len(s) : k = i \/ k = j
    BY <1>1, <1>2, <1>4, <1>5 DEF Differ
<1>7. Len(s) = 2
    <2>1. CASE Len(s) <= 1
        BY <1>1, <1>6, <2>1
    <2>2. CASE Len(s) >= 3
        <3>1. 1 \in 1 .. Len(s) /\ 2 \in 1 .. Len(s) /\ 3 \in 1 .. Len(s)
            BY <1>1, <2>2
        <3> QED  BY <1>6, <3>1
    <2> QED  BY <1>1, <2>1, <2>2
<1>8. s[1] = x => s[2] = y
    <2>1. i \in {1, 2} /\ j \in {1, 2}
        BY <1>7
    <2> QED  BY <1>4, <1>5, <1>6, <2>1
<1>9. s[1] = x => s = <<x, y>>
    BY <1>3, <1>7, <1>8
<1> QED  BY <1>7, <1>9

LEMMA SelectedFew ==
    ASSUME NEW s, IsSequence(s)
    PROVE  /\ Selected(s, {}) = <<>>
           /\ \A n \in DOMAIN s : Selected(s, {n}) = <<s[n]>>
<1>1. Selected(s, {}) = <<>>
    <2> DEFINE t == Selected(s, {})
    <2>1. Selects(t, s, {})
        BY SelectedItems
    <2> HIDE DEF t
    <2>2. Items(t) = {} /\ IsSequence(t)
        BY <2>1 DEF Selects
    <2>3. Differ(t)
        BY <2>2 DEF Differ, Items
    <2>4. t = <<>>
        BY <2>2, <2>3, FewItems
    <2> QED  BY <2>4 DEF t
<1>2. ASSUME NEW n \in DOMAIN s PROVE Selected(s, {n}) = <<s[n]>>
    <2> DEFINE t == Selected(s, {n})
    <2>1. Selects(t, s, {n})
        BY SelectedItems
    <2> HIDE DEF t
    <2>2. Items(t) = {s[n]} /\ IsSequence(t)
        BY <2>1 DEF Selects
    <2>3. PICK order : /\ Ascends(order, {n}) /\ DOMAIN t = 1 .. Len(order)
                       /\ DOMAIN order = 1 .. Len(order)
        BY <2>1 DEF Selects
    <2>4. \A i \in DOMAIN order : order[i] = n
        BY <2>3 DEF Ascends, Items
    <2>5. n \in Nat /\ Len(order) \in Nat
        BY <2>3, SequenceDomain DEF Ascends
    <2>6. \A i, j \in 1 .. Len(order) : ~ (i < j)
        BY <2>3, <2>4, <2>5 DEF Ascends
    <2>7. Differ(t)
        BY <2>3, <2>5, <2>6 DEF Differ
    <2>8. t = <<s[n]>>
        BY <2>2, <2>7, FewItems
    <2> QED  BY <2>8 DEF t
<1> QED  BY <1>1, <1>2

-----------------------------------------------------------------------------
(* Pass 3.                                                                 *)

EndOf(b, k) == b[k].first + Len(b[k].instructions) - 1

\* Blocks of the instructions f, one from each leader in L up to the next.
AreBlocks(b, f, L) ==
    /\ \E m \in Nat \ {0} : DOMAIN b = 0 .. m - 1
    /\ \A k \in DOMAIN b :
          /\ b[k].id = k /\ b[k].first \in L /\ EndOf(b, k) \in b[k].first .. Len(f)
          /\ IsSequence(b[k].instructions)
          /\ b[k].instructions # <<>> /\ Last(b[k].instructions) = f[EndOf(b, k)]
          /\ b[k].term = ClassifyTerminator(f[EndOf(b, k)])
          /\ k + 1 \in DOMAIN b => b[k + 1].first = EndOf(b, k) + 1
          /\ k + 1 \notin DOMAIN b => EndOf(b, k) = Len(f)
          /\ \A p \in b[k].first + 1 .. EndOf(b, k) : p \notin L
    /\ \A p \in L : \E k \in DOMAIN b : b[k].first = p
    /\ \A j, k \in DOMAIN b : b[j].first = b[k].first => j = k

IsBlock(r) ==
    r = [id |-> r.id, first |-> r.first, instructions |-> r.instructions, term |-> r.term,
         succs |-> r.succs, preds |-> r.preds]

\* Blocks with edges between them.
AreWired(b) ==
    /\ b = [k \in DOMAIN b |-> b[k]]
    /\ \A k \in DOMAIN b :
          /\ IsBlock(b[k]) /\ IsSequence(b[k].succs) /\ Items(b[k].succs) \subseteq DOMAIN b
          /\ b[k].preds = {j \in DOMAIN b : k \in Items(b[j].succs)}

LEMMA PartitionIs ==
    ASSUME NEW f, IsSequence(f), f # <<>>,
           NEW L, L \subseteq 1 .. Len(f), 1 \in L
    PROVE  LET b == Partition(f, L)
           IN  /\ AreBlocks(b, f, L) /\ AreWired(b)
               /\ \A k \in DOMAIN b : b[k].succs = <<>>
<1> DEFINE n == Len(f)
           s == Sorted(L, n)
           m == Len(s)
           start == Append(s, n + 1)
           b == Partition(f, L)
<1>1. n \in Nat \ {0} /\ DOMAIN f = 1 .. n
    BY SequenceDomain
<1>2. /\ IsSequence(s) /\ Items(s) = L
      /\ \A i, j \in 1 .. m : i < j => s[i] < s[j]
    BY <1>1, SortedMembers DEF Ascends
<1>3. m \in Nat /\ DOMAIN s = 1 .. m
    BY <1>2, SequenceDomain
<1>4. Len(start) = m + 1 /\ start[m + 1] = n + 1 /\ \A k \in 1 .. m : start[k] = s[k]
    <2> HIDE DEF s, n
    <2> QED  BY <1>2, <1>3, AppendItem
<1>5. b = [k \in 0 .. Len(start) - 2 |->
              [id |-> k,
               first |-> start[k + 1],
               instructions |-> SubSeq(f, start[k + 1], start[k + 2] - 1),
               term |-> ClassifyTerminator(f[start[k + 2] - 1]),
               succs |-> <<>>,
               preds |-> {}]]
    BY DEF Partition
<1> HIDE DEF b, s, start, n
<1>6. \A k \in 1 .. m : s[k] \in L /\ s[k] \in 1 .. n
    BY <1>2, <1>3 DEF Items, n
<1>7. \A p \in L : \E k \in 1 .. m : s[k] = p
    BY <1>2, <1>3 DEF Items
<1> HIDE DEF m
<1>8. m # 0 /\ s[1] = 1
    <2>1. PICK k \in 1 .. m : s[k] = 1
        BY <1>7
    <2>2. CASE k = 1
        BY <1>3, <2>1, <2>2
    <2>3. CASE k # 1
        <3>1. 1 \in 1 .. m /\ 1 < k
            BY <1>3, <2>3
        <3>2. s[1] < 1 /\ s[1] \in 1 .. n
            BY <1>2, <1>6, <2>1, <3>1
        <3> QED  BY <1>1, <3>2
    <2> QED  BY <2>2, <2>3
<1>9. DOMAIN b = 0 .. m - 1 /\ m \in Nat \ {0}
    <2>1. Len(start) - 2 = m - 1
        BY <1>3, <1>4
    <2> QED  BY <1>3, <1>5, <1>8, <2>1
\* A block ends where the next begins.
<1>10. ASSUME NEW k \in 0 .. m - 1
       PROVE  /\ b[k].id = k /\ b[k].first = s[k + 1]
              /\ b[k].first \in L /\ EndOf(b, k) \in b[k].first .. n
              /\ EndOf(b, k) = start[k + 2] - 1
              /\ IsSequence(b[k].instructions)
              /\ b[k].instructions # <<>> /\ Last(b[k].instructions) = f[EndOf(b, k)]
              /\ b[k].term = ClassifyTerminator(f[EndOf(b, k)])
              /\ k + 1 \in 0 .. m - 1 => EndOf(b, k) + 1 = s[k + 2]
              /\ k + 1 \notin 0 .. m - 1 => EndOf(b, k) = n
    <2> DEFINE lo == start[k + 1]
               hi == start[k + 2] - 1
               is == SubSeq(f, lo, hi)
    <2>1. k + 1 \in 1 .. m /\ k \in Nat
        BY <1>9
    <2>2. lo = s[k + 1] /\ lo \in L /\ lo \in 1 .. n
        BY <1>4, <1>6, <2>1
    <2>3. /\ hi \in lo .. n /\ hi + 1 = start[k + 2]
          /\ k + 1 \in 0 .. m - 1 => hi + 1 = s[k + 2]
          /\ k + 1 \notin 0 .. m - 1 => hi = n
        <3>1. CASE k + 1 \in 0 .. m - 1
            <4>1. k + 2 \in 1 .. m /\ k + 1 < k + 2
                BY <1>9, <2>1, <3>1
            <4>2. start[k + 2] = s[k + 2] /\ s[k + 1] < s[k + 2] /\ s[k + 2] \in 1 .. n
                BY <1>2, <1>4, <1>6, <2>1, <4>1
            <4> QED  BY <1>1, <2>2, <3>1, <4>2
        <3>2. CASE k + 1 \notin 0 .. m - 1
            <4>1. k + 2 = m + 1
                BY <1>9, <2>1, <3>2
            <4>2. start[k + 2] = n + 1
                BY <1>4, <4>1
            <4> QED  BY <1>1, <2>2, <3>2, <4>2
        <3> QED  BY <3>1, <3>2
    <2>4. k \in 0 .. Len(start) - 2
        BY <1>4, <1>9
    <2>5. /\ b[k].id = k /\ b[k].first = lo /\ b[k].instructions = is
          /\ b[k].term = ClassifyTerminator(f[hi])
        BY <1>5, <2>4
    <2> HIDE DEF lo, hi
    <2>6. \A i \in lo .. hi : f[i] \in Items(f)
        <3>1. \A i \in lo .. hi : i \in 1 .. n
            BY <1>1, <2>2, <2>3
        <3> QED  BY <1>1, <3>1 DEF Items
    <2>7. lo \in Int /\ hi \in Int /\ lo <= hi /\ hi - lo + 1 \in 1 .. hi - lo + 1
          /\ lo + (hi - lo + 1) - 1 = hi
        BY <1>1, <2>2, <2>3
    <2>8. /\ is \in Seq(Items(f)) /\ Len(is) = hi - lo + 1
          /\ \A i \in 1 .. hi - lo + 1 : is[i] = f[lo + i - 1]
        BY <2>6, <2>7, SubSeqProperties
    <2>12. IsSequence(is)
        BY <2>8, SequenceIs
    <2> HIDE DEF is
    <2>9. Len(is) # 0 /\ is[Len(is)] = f[hi]
        BY <2>7, <2>8
    <2>10. is # <<>> /\ Last(is) = f[hi]
        BY <2>9, EmptyAndSingle DEF Last
    <2>11. EndOf(b, k) = hi
        BY <2>5, <2>7, <2>8 DEF EndOf
    <2> QED  BY <2>2, <2>3, <2>5, <2>10, <2>11, <2>12, <1>1
<1>11. ASSUME NEW k \in 0 .. m - 1, NEW p \in b[k].first + 1 .. EndOf(b, k)
       PROVE  p \notin L
    <2> SUFFICES ASSUME p \in L PROVE FALSE
        OBVIOUS
    <2>1. PICK j \in 1 .. m : s[j] = p
        BY <1>7
    <2>2. /\ k \in Nat /\ k + 1 \in 1 .. m /\ b[k].first = s[k + 1]
          /\ s[k + 1] \in 1 .. n /\ EndOf(b, k) \in 1 .. n
          /\ s[k + 1] < s[j] /\ s[j] <= EndOf(b, k) /\ s[j] \in 1 .. n
        BY <1>1, <1>6, <1>9, <1>10, <2>1
    <2>3. k + 1 < j
        <3>1. j = k + 1 => s[j] = s[k + 1]
            OBVIOUS
        <3>2. j < k + 1 => s[j] < s[k + 1]
            BY <1>2, <2>2
        <3>3. \A a, c \in Int : a < c => ~ (c < a) /\ a # c
            OBVIOUS
        <3>4. s[j] \in Int /\ s[k + 1] \in Int
            BY <1>1, <2>2
        <3>5. j # k + 1 /\ ~ (j < k + 1)
            BY <2>2, <3>1, <3>2, <3>3, <3>4
        <3> QED  BY <1>3, <2>2, <3>5
    <2>4. k + 1 \in 0 .. m - 1 /\ k + 2 \in 1 .. m /\ (j = k + 2 \/ k + 2 < j)
        BY <1>3, <2>2, <2>3
    <2>5. s[k + 2] <= s[j]
        <3>1. s[k + 2] \in 1 .. n
            BY <1>6, <2>4
        <3>2. CASE j = k + 2
            BY <1>1, <2>2, <3>1, <3>2
        <3>3. CASE k + 2 < j
            <4>1. s[k + 2] < s[j]
                BY <1>2, <2>4, <3>3
            <4> QED  BY <1>1, <2>2, <3>1, <4>1
        <3> QED  BY <2>4, <3>2, <3>3
    <2>6. EndOf(b, k) + 1 = s[k + 2]
        BY <1>10, <2>4
    <2> QED  BY <1>1, <2>2, <2>5, <2>6
<1>12. \A p \in L : \E k \in 0 .. m - 1 : b[k].first = p
    <2> SUFFICES ASSUME NEW p \in L PROVE \E k \in 0 .. m - 1 : b[k].first = p
        OBVIOUS
    <2>1. PICK j \in 1 .. m : s[j] = p
        BY <1>7
    <2>2. j - 1 \in 0 .. m - 1 /\ (j - 1) + 1 = j
        BY <1>3
    <2>3. b[j - 1].first = s[j]
        BY <1>10, <2>2
    <2> QED  BY <2>1, <2>2, <2>3
<1>13. ASSUME NEW j \in 0 .. m - 1, NEW k \in 0 .. m - 1, b[j].first = b[k].first
       PROVE  j = k
    <2>1. /\ j + 1 \in 1 .. m /\ k + 1 \in 1 .. m
          /\ s[j + 1] = s[k + 1] /\ s[j + 1] \in Int
        BY <1>1, <1>6, <1>9, <1>10, <1>13
    <2>2. ~ (s[j + 1] < s[k + 1]) /\ ~ (s[k + 1] < s[j + 1])
        BY <2>1
    <2>3. ~ (j + 1 < k + 1) /\ ~ (k + 1 < j + 1)
        BY <1>2, <2>1, <2>2
    <2> QED  BY <1>9, <2>3
<1>14. AreBlocks(b, f, L)
    <2>1. ASSUME NEW k \in DOMAIN b
          PROVE  /\ b[k].id = k /\ b[k].first \in L /\ EndOf(b, k) \in b[k].first .. Len(f)
                 /\ IsSequence(b[k].instructions)
                 /\ b[k].instructions # <<>> /\ Last(b[k].instructions) = f[EndOf(b, k)]
                 /\ b[k].term = ClassifyTerminator(f[EndOf(b, k)])
                 /\ k + 1 \in DOMAIN b => b[k + 1].first = EndOf(b, k) + 1
                 /\ k + 1 \notin DOMAIN b => EndOf(b, k) = Len(f)
                 /\ \A p \in b[k].first + 1 .. EndOf(b, k) : p \notin L
        <3>1. k \in 0 .. m - 1
            BY <1>9
        <3>2. k + 1 \in 0 .. m - 1 => b[k + 1].first = s[k + 2]
            <4>1. (k + 1) + 1 = k + 2
                BY <1>9, <3>1
            <4> QED  BY <1>10, <4>1
        <3> QED  BY <1>9, <1>10, <1>11, <3>1, <3>2 DEF n
    <2>2. \A p \in L : \E k \in DOMAIN b : b[k].first = p
        BY <1>9, <1>12
    <2>3. \A j, k \in DOMAIN b : b[j].first = b[k].first => j = k
        BY <1>9, <1>13
    <2>4. \E q \in Nat \ {0} : DOMAIN b = 0 .. q - 1
        BY <1>9
    <2> QED  BY <2>1, <2>2, <2>3, <2>4 DEF AreBlocks
<1>15. AreWired(b) /\ \A k \in DOMAIN b : b[k].succs = <<>>
    <2>1. b = [k \in DOMAIN b |-> b[k]]
        BY <1>5
    <2>2. ASSUME NEW k \in DOMAIN b
          PROVE  IsBlock(b[k]) /\ b[k].succs = <<>> /\ b[k].preds = {}
        BY <1>5 DEF IsBlock
    <2> QED  BY <2>1, <2>2, EmptyAndSingle DEF AreWired
<1> QED  BY <1>14, <1>15 DEF b

-----------------------------------------------------------------------------
(* Pass 4.                                                                 *)

\* c is b with edges from k to the blocks in D.
EdgesAdded(b, c, k, D) ==
    /\ AreWired(c) /\ DOMAIN c = DOMAIN b
    /\ \A j \in DOMAIN b :
          /\ c[j].id = b[j].id /\ c[j].first = b[j].first
          /\ c[j].instructions = b[j].instructions /\ c[j].term = b[j].term
          /\ j # k => c[j].succs = b[j].succs
    /\ Items(c[k].succs) = Items(b[k].succs) \cup D
    /\ Differ(b[k].succs) => Differ(c[k].succs)

LEMMA NoEdgesAdded ==
    ASSUME NEW b, AreWired(b), NEW k
    PROVE  EdgesAdded(b, b, k, {})
BY DEF EdgesAdded

LEMMA MoreEdgesAdded ==
    ASSUME NEW b, NEW c, NEW d, NEW k, NEW D, NEW E,
           EdgesAdded(b, c, k, D), EdgesAdded(c, d, k, E)
    PROVE  EdgesAdded(b, d, k, D \cup E)
<1>1. Items(d[k].succs) = Items(b[k].succs) \cup (D \cup E)
    BY DEF EdgesAdded
<1> QED  BY <1>1 DEF EdgesAdded

LEMMA BlocksStay ==
    ASSUME NEW b, NEW c, NEW k, NEW D, EdgesAdded(b, c, k, D),
           NEW f, NEW L, AreBlocks(b, f, L)
    PROVE  AreBlocks(c, f, L)
<1>1. /\ DOMAIN c = DOMAIN b
      /\ \A j \in DOMAIN b :
            /\ c[j].id = b[j].id /\ c[j].first = b[j].first
            /\ c[j].instructions = b[j].instructions /\ c[j].term = b[j].term
    BY DEF EdgesAdded
<1>2. \A j \in DOMAIN b : EndOf(c, j) = EndOf(b, j)
    BY <1>1 DEF EndOf
<1>3. \E m \in Nat \ {0} : DOMAIN c = 0 .. m - 1
    BY <1>1 DEF AreBlocks
<1>4. ASSUME NEW i \in DOMAIN c
      PROVE  /\ c[i].id = i /\ c[i].first \in L
             /\ EndOf(c, i) \in c[i].first .. Len(f)
             /\ IsSequence(c[i].instructions)
             /\ c[i].instructions # <<>> /\ Last(c[i].instructions) = f[EndOf(c, i)]
             /\ c[i].term = ClassifyTerminator(f[EndOf(c, i)])
             /\ i + 1 \in DOMAIN c => c[i + 1].first = EndOf(c, i) + 1
             /\ i + 1 \notin DOMAIN c => EndOf(c, i) = Len(f)
             /\ \A p \in c[i].first + 1 .. EndOf(c, i) : p \notin L
    BY <1>1, <1>2, <1>4 DEF AreBlocks
<1>5. \A p \in L : \E j \in DOMAIN c : c[j].first = p
    BY <1>1 DEF AreBlocks
<1>6. \A i, j \in DOMAIN c : c[i].first = c[j].first => i = j
    BY <1>1 DEF AreBlocks
<1> QED  BY <1>3, <1>4, <1>5, <1>6 DEF AreBlocks

\* The edge is the last one from k, or it was there.
LastEdge(b, c, k, d) ==
    c[k].succs = IF d \in Items(b[k].succs) THEN b[k].succs ELSE Append(b[k].succs, d)

LEMMA EdgeAdded ==
    ASSUME NEW b, AreWired(b), NEW k \in DOMAIN b, NEW d \in DOMAIN b
    PROVE  /\ EdgesAdded(b, AddEdge(b, k, d), k, {d})
           /\ LastEdge(b, AddEdge(b, k, d), k, d)
<1> DEFINE c == AddEdge(b, k, d)
           u == [b EXCEPT ![k] = [b[k] EXCEPT !.succs = Append(b[k].succs, d)]]
           v == [u EXCEPT ![d] = [u[d] EXCEPT !.preds = u[d].preds \cup {k}]]
<1>1. /\ b = [j \in DOMAIN b |-> b[j]]
      /\ \A j \in DOMAIN b : /\ IsBlock(b[j]) /\ IsSequence(b[j].succs)
                             /\ Items(b[j].succs) \subseteq DOMAIN b
                             /\ b[j].preds = {i \in DOMAIN b : j \in Items(b[i].succs)}
    BY DEF AreWired
<1>2. Contains(b[k].succs, d) <=> d \in Items(b[k].succs)
    <2>1. DOMAIN b[k].succs = 1 .. Len(b[k].succs)
        BY <1>1, SequenceDomain
    <2> QED  BY <2>1 DEF Contains, Items
<1>3. CASE d \in Items(b[k].succs)
    <2>1. c = b
        BY <1>2, <1>3 DEF AddEdge
    <2>2. Items(b[k].succs) = Items(b[k].succs) \cup {d}
        BY <1>3
    <2> HIDE DEF c
    <2>3. EdgesAdded(b, c, k, {d})
        BY <2>1, <2>2 DEF EdgesAdded
    <2> QED  BY <1>3, <2>1, <2>3 DEF c, LastEdge
<1>4. CASE d \notin Items(b[k].succs)
    <2> DEFINE ss == Append(b[k].succs, d)
    <2>1. c = v
        BY <1>2, <1>4 DEF AddEdge
    <2>2. IsSequence(ss) /\ Items(ss) = Items(b[k].succs) \cup {d}
        <3>1. /\ IsSequence(ss) /\ DOMAIN ss = 1 .. Len(b[k].succs) + 1
              /\ DOMAIN b[k].succs = 1 .. Len(b[k].succs) /\ Len(b[k].succs) \in Nat
              /\ \A j \in DOMAIN b[k].succs : ss[j] = b[k].succs[j]
              /\ ss[Len(b[k].succs) + 1] = d
            BY <1>1, AppendItem
        <3> HIDE DEF ss
        <3>2. \A j : j \in DOMAIN ss <=> j \in DOMAIN b[k].succs \/ j = Len(b[k].succs) + 1
            BY <3>1
        <3>3. Items(ss) \subseteq Items(b[k].succs) \cup {d}
            BY <3>1, <3>2 DEF Items
        <3>4. Items(b[k].succs) \cup {d} \subseteq Items(ss)
            BY <3>1, <3>2 DEF Items
        <3> QED  BY <3>1, <3>3, <3>4
    <2> HIDE DEF ss
    <2>3. /\ DOMAIN u = DOMAIN b /\ u = [j \in DOMAIN b |-> u[j]]
          /\ u[k] = [id |-> b[k].id, first |-> b[k].first,
                     instructions |-> b[k].instructions, term |-> b[k].term,
                     succs |-> ss, preds |-> b[k].preds]
          /\ \A j \in DOMAIN b : j # k => u[j] = b[j]
        <3>1. [b[k] EXCEPT !.succs = ss] =
                  [id |-> b[k].id, first |-> b[k].first,
                   instructions |-> b[k].instructions, term |-> b[k].term,
                   succs |-> ss, preds |-> b[k].preds]
            BY <1>1 DEF IsBlock
        <3>2. u = [b EXCEPT ![k] = [b[k] EXCEPT !.succs = ss]]
            BY DEF ss
        <3> HIDE DEF u
        <3> QED  BY <1>1, <3>1, <3>2
    <2> HIDE DEF u
    <2>4. \A j \in DOMAIN b :
             /\ u[j].id = b[j].id /\ u[j].first = b[j].first
             /\ u[j].instructions = b[j].instructions /\ u[j].term = b[j].term
             /\ u[j].preds = b[j].preds
             /\ u[j].succs = IF j = k THEN ss ELSE b[j].succs
             /\ IsBlock(u[j])
        <3> SUFFICES ASSUME NEW j \in DOMAIN b
                     PROVE  /\ u[j].id = b[j].id /\ u[j].first = b[j].first
                            /\ u[j].instructions = b[j].instructions
                            /\ u[j].term = b[j].term /\ u[j].preds = b[j].preds
                            /\ u[j].succs = IF j = k THEN ss ELSE b[j].succs
                            /\ IsBlock(u[j])
            OBVIOUS
        <3>1. CASE j = k   BY <2>3, <3>1 DEF IsBlock
        <3>2. CASE j # k   BY <1>1, <2>3, <3>2
        <3> QED  BY <3>1, <3>2
    <2>5. /\ DOMAIN v = DOMAIN b /\ v = [j \in DOMAIN b |-> v[j]]
          /\ v[d] = [id |-> u[d].id, first |-> u[d].first,
                     instructions |-> u[d].instructions, term |-> u[d].term,
                     succs |-> u[d].succs, preds |-> u[d].preds \cup {k}]
          /\ \A j \in DOMAIN b : j # d => v[j] = u[j]
        <3>0. IsBlock(u[d])
            BY <2>4
        <3>1. [u[d] EXCEPT !.preds = u[d].preds \cup {k}] =
                  [id |-> u[d].id, first |-> u[d].first,
                   instructions |-> u[d].instructions, term |-> u[d].term,
                   succs |-> u[d].succs, preds |-> u[d].preds \cup {k}]
            <4>1. \A r, x : IsBlock(r) =>
                     [r EXCEPT !.preds = x] =
                         [id |-> r.id, first |-> r.first, instructions |-> r.instructions,
                          term |-> r.term, succs |-> r.succs, preds |-> x]
                BY DEF IsBlock
            <4> QED  BY <3>0, <4>1
        <3> QED  BY <2>3, <3>1
    <2> HIDE DEF v, c
    <2>6. \A j \in DOMAIN b :
             /\ v[j].id = b[j].id /\ v[j].first = b[j].first
             /\ v[j].instructions = b[j].instructions /\ v[j].term = b[j].term
             /\ v[j].preds = b[j].preds \cup IF j = d THEN {k} ELSE {}
             /\ v[j].succs = IF j = k THEN ss ELSE b[j].succs
             /\ IsBlock(v[j])
        <3> SUFFICES ASSUME NEW j \in DOMAIN b
                     PROVE  /\ v[j].id = b[j].id /\ v[j].first = b[j].first
                            /\ v[j].instructions = b[j].instructions
                            /\ v[j].term = b[j].term
                            /\ v[j].preds = b[j].preds \cup IF j = d THEN {k} ELSE {}
                            /\ v[j].succs = IF j = k THEN ss ELSE b[j].succs
                            /\ IsBlock(v[j])
            OBVIOUS
        <3>1. CASE j = d
            <4>1. /\ v[j].id = u[j].id /\ v[j].first = u[j].first
                  /\ v[j].instructions = u[j].instructions /\ v[j].term = u[j].term
                  /\ v[j].succs = u[j].succs /\ v[j].preds = u[j].preds \cup {k}
                BY <2>5, <3>1
            <4>2. IsBlock(v[j])
                BY <2>5, <3>1 DEF IsBlock
            <4> QED  BY <2>4, <3>1, <4>1, <4>2
        <3>2. CASE j # d
            <4>1. v[j] = u[j]
                BY <2>5, <3>2
            <4> QED  BY <2>4, <3>2, <4>1
        <3> QED  BY <3>1, <3>2
    <2>7. AreWired(v)
        <3>1. \A j \in DOMAIN b : IsSequence(v[j].succs) /\ Items(v[j].succs) \subseteq DOMAIN b
            BY <1>1, <2>2, <2>6
        <3>2. ASSUME NEW j \in DOMAIN b
              PROVE  v[j].preds = {i \in DOMAIN b : j \in Items(v[i].succs)}
            <4>1. \A i \in DOMAIN b : Items(v[i].succs) =
                     Items(b[i].succs) \cup IF i = k THEN {d} ELSE {}
                BY <2>2, <2>6
            <4>2. \A i \in DOMAIN b : j \in Items(v[i].succs)
                     <=> j \in Items(b[i].succs) \/ (i = k /\ j = d)
                BY <4>1
            <4>3. \A i : i \in v[j].preds
                     <=> i \in DOMAIN b /\ (j \in Items(b[i].succs) \/ (i = k /\ j = d))
                BY <1>1, <2>6
            <4>4. \A i \in v[j].preds : i \in DOMAIN b
                BY <4>3
            <4> QED  BY <4>2, <4>3, <4>4
        <3> QED  BY <2>5, <2>6, <3>1, <3>2 DEF AreWired
    <2>9. Differ(b[k].succs) => Differ(v[k].succs)
        <3>1. v[k].succs = Append(b[k].succs, d)
            BY <2>6 DEF ss
        <3>2. /\ DOMAIN v[k].succs = 1 .. Len(b[k].succs) + 1 /\ Len(b[k].succs) \in Nat
              /\ DOMAIN b[k].succs = 1 .. Len(b[k].succs)
              /\ \A j \in DOMAIN b[k].succs : v[k].succs[j] = b[k].succs[j]
              /\ v[k].succs[Len(b[k].succs) + 1] = d
            BY <1>1, <3>1, AppendItem
        <3>3. \A j : j \in DOMAIN v[k].succs <=>
                        j \in DOMAIN b[k].succs \/ j = Len(b[k].succs) + 1
            BY <3>2
        <3>4. \A j \in DOMAIN b[k].succs : v[k].succs[j] # d
            BY <1>4, <3>2 DEF Items
        <3> QED  BY <3>2, <3>3, <3>4 DEF Differ
    <2>8. EdgesAdded(b, v, k, {d})
        BY <2>2, <2>5, <2>6, <2>7, <2>9 DEF EdgesAdded
    <2> QED  BY <1>4, <2>1, <2>6, <2>8 DEF c, ss, LastEdge
<1> QED  BY <1>3, <1>4

LEMMA EdgeToAdded ==
    ASSUME NEW b, AreWired(b), NEW k \in DOMAIN b, NEW p,
           \A i, j \in DOMAIN b : b[i].first = b[j].first => i = j
    PROVE  /\ EdgesAdded(b, AddEdgeTo(b, k, p), k, BlockAt(b, p))
           /\ AddEdgeTo(b, k, p) = b \/ \E d \in BlockAt(b, p) : AddEdgeTo(b, k, p) = AddEdge(b, k, d)
<1>1. CASE BlockAt(b, p) = {}
    <2>1. AddEdgeTo(b, k, p) = b
        BY <1>1 DEF AddEdgeTo
    <2> QED  BY <1>1, <2>1, NoEdgesAdded
<1>2. CASE BlockAt(b, p) # {}
    <2> DEFINE d == CHOOSE x \in BlockAt(b, p) : TRUE
    <2>1. d \in BlockAt(b, p)
        BY <1>2
    <2>2. AddEdgeTo(b, k, p) = AddEdge(b, k, d)
        BY <1>2 DEF AddEdgeTo
    <2> HIDE DEF d
    <2>3. BlockAt(b, p) = {d} /\ d \in DOMAIN b
        BY <2>1 DEF BlockAt
    <2>4. EdgesAdded(b, AddEdge(b, k, d), k, {d})
        BY <2>3, EdgeAdded
    <2> QED  BY <2>1, <2>2, <2>3, <2>4
<1> QED  BY <1>1, <1>2

LEMMA FallThroughAdded ==
    ASSUME NEW b, AreWired(b), NEW k \in DOMAIN b
    PROVE  EdgesAdded(b, AddFallThrough(b, k), k, {k + 1} \cap DOMAIN b)
<1>1. CASE k + 1 \in DOMAIN b
    <2>1. {k + 1} \cap DOMAIN b = {k + 1}
        BY <1>1
    <2> QED  BY <1>1, <2>1, EdgeAdded DEF AddFallThrough
<1>2. CASE k + 1 \notin DOMAIN b
    <2>1. {k + 1} \cap DOMAIN b = {}
        BY <1>2
    <2> QED  BY <1>2, <2>1, NoEdgesAdded DEF AddFallThrough
<1> QED  BY <1>1, <1>2

\* The equations of the graphs that AddTargets goes through.
AreAdded(g, b, k, targets, n) ==
    /\ g = [j \in 0 .. n |-> g[j]]
    /\ \A j \in 0 .. n : g[j] = IF j = 0 THEN b ELSE AddEdgeTo(g[j - 1], k, targets[j])

LEMMA AddedExist ==
    ASSUME NEW b, NEW k, NEW targets, NEW n \in Nat
    PROVE  \E g : AreAdded(g, b, k, targets, n)
<1> DEFINE T == {m \in Nat : ~ \E g : AreAdded(g, b, k, targets, m)}
<1> SUFFICES ASSUME T # {} PROVE FALSE
    OBVIOUS
<1>1. PICK m \in T : \A y \in T : m <= y
    <2>1. T \subseteq Nat
        OBVIOUS
    <2> HIDE DEF T
    <2> QED  BY <2>1, LeastNat
<1>2. m # 0
    <2>1. AreAdded([j \in 0 .. 0 |-> b], b, k, targets, 0)
        BY DEF AreAdded
    <2> QED  BY <2>1
<1>3. m \in Nat /\ m - 1 \in Nat /\ m - 1 \notin T
    BY <1>1, <1>2
<1>4. PICK s : AreAdded(s, b, k, targets, m - 1)
    BY <1>3
<1> DEFINE r == [j \in 0 .. m |-> IF j = m THEN AddEdgeTo(s[m - 1], k, targets[m]) ELSE s[j]]
<1>5. AreAdded(r, b, k, targets, m)
    <2>1. r = [j \in 0 .. m |-> r[j]]
        OBVIOUS
    <2>2. ASSUME NEW j \in 0 .. m
          PROVE  r[j] = IF j = 0 THEN b ELSE AddEdgeTo(r[j - 1], k, targets[j])
        <3>1. CASE j = m
            <4>1. j - 1 \in 0 .. m /\ j - 1 # m /\ j # 0
                BY <1>2, <1>3, <3>1
            <4> QED  BY <3>1, <4>1
        <3>2. CASE j # m
            <4>1. j \in 0 .. m - 1 /\ (j # 0 => j - 1 \in 0 .. m /\ j - 1 # m)
                BY <1>3, <3>2
            <4>2. r[j] = s[j] /\ (j # 0 => r[j - 1] = s[j - 1])
                BY <3>2, <4>1
            <4> QED  BY <1>4, <4>1, <4>2 DEF AreAdded
        <3> QED  BY <3>1, <3>2
    <2> HIDE DEF r
    <2> QED  BY <2>1, <2>2 DEF AreAdded
<1> QED  BY <1>1, <1>3, <1>5

LEMMA AddTargetsIs ==
    ASSUME NEW b, NEW k, NEW targets, targets = Last(b[k].instructions).targets,
           Len(targets) \in Nat
    PROVE  \E g : AreAdded(g, b, k, targets, Len(targets)) /\ AddTargets(b, k) = g[Len(targets)]
<1> DEFINE n == Len(targets)
           Step(g, j) == IF j = 0 THEN b ELSE AddEdgeTo(g[j - 1], k, targets[j])
           Eq(g) == g = [j \in 0 .. n |-> Step(g, j)]
<1>1. PICK s : AreAdded(s, b, k, targets, n)
    BY AddedExist
<1>2. AddTargets(b, k) = (CHOOSE g : Eq(g))[n]
    BY DEF AddTargets
<1> HIDE DEF n
<1>3. Eq(s)
    <2>1. \A j \in 0 .. n : s[j] = Step(s, j)
        BY <1>1 DEF AreAdded
    <2>2. s = [j \in 0 .. n |-> s[j]]
        BY <1>1 DEF AreAdded
    <2> HIDE DEF Step
    <2> QED  BY <2>1, <2>2
<1>4. PICK g : g = (CHOOSE h : Eq(h)) /\ Eq(g)
    <2> HIDE DEF Eq
    <2> QED  BY <1>3
<1>5. AreAdded(g, b, k, targets, n)
    <2>1. g = [j \in 0 .. n |-> g[j]] /\ \A j \in 0 .. n : g[j] = Step(g, j)
        <3> HIDE DEF Step
        <3> QED  BY <1>4
    <2> QED  BY <2>1 DEF AreAdded
<1>6. AddTargets(b, k) = g[n]
    <2> HIDE DEF Eq
    <2> QED  BY <1>2, <1>4
<1> QED  BY <1>5, <1>6 DEF n

\* Blocks that start at one of some positions.
BlocksAt(b, P) == {d \in DOMAIN b : b[d].first \in P}

LEMMA TargetsAdded ==
    ASSUME NEW b, AreWired(b), NEW k \in DOMAIN b,
           \A i, j \in DOMAIN b : b[i].first = b[j].first => i = j,
           NEW targets, targets = Last(b[k].instructions).targets, IsSequence(targets)
    PROVE  /\ EdgesAdded(b, AddTargets(b, k), k, BlocksAt(b, Items(targets)))
           /\ Len(targets) <= 1 =>
                 AddTargets(b, k) = IF targets = <<>> THEN b ELSE AddEdgeTo(b, k, targets[1])
<1> DEFINE n == Len(targets)
           Upto(j) == {targets[i] : i \in 1 .. j}
<1>1. n \in Nat /\ DOMAIN targets = 1 .. n /\ (targets = <<>> <=> n = 0)
    BY SequenceDomain
<1>2. PICK g : AreAdded(g, b, k, targets, n) /\ AddTargets(b, k) = g[n]
    BY <1>1, AddTargetsIs
<1> DEFINE T == {m \in 0 .. n : ~ EdgesAdded(b, g[m], k, BlocksAt(b, Upto(m)))}
<1> HIDE DEF n
<1>3. g[0] = b /\ \A j \in 0 .. n : j # 0 => g[j] = AddEdgeTo(g[j - 1], k, targets[j])
    <2>1. \A j \in 0 .. n : g[j] = IF j = 0 THEN b ELSE AddEdgeTo(g[j - 1], k, targets[j])
        BY <1>2 DEF AreAdded
    <2>2. 0 \in 0 .. n
        BY <1>1
    <2> QED  BY <2>1, <2>2
<1>4. T = {}
    <2> SUFFICES ASSUME T # {} PROVE FALSE
        OBVIOUS
    <2>1. PICK m \in T : \A y \in T : m <= y
        <3>1. T \subseteq Nat
            OBVIOUS
        <3> HIDE DEF T
        <3> QED  BY <3>1, LeastNat
    <2>2. m # 0
        <3>1. Upto(0) = {}
            OBVIOUS
        <3>2. BlocksAt(b, Upto(0)) = {}
            BY <3>1 DEF BlocksAt
        <3>3. EdgesAdded(b, g[0], k, BlocksAt(b, Upto(0)))
            BY <1>3, <3>2, NoEdgesAdded
        <3> QED  BY <3>3
    <2>3. m \in 0 .. n /\ m - 1 \in 0 .. n /\ m \in 1 .. n /\ m - 1 \notin T
        BY <1>1, <2>1, <2>2
    <2> DEFINE c == g[m - 1]
               p == targets[m]
    <2>4. EdgesAdded(b, c, k, BlocksAt(b, Upto(m - 1)))
        BY <2>3
    <2>5. g[m] = AddEdgeTo(c, k, p)
        BY <1>3, <2>2, <2>3
    <2> HIDE DEF c
    <2>6. /\ AreWired(c) /\ k \in DOMAIN c /\ BlockAt(c, p) = BlockAt(b, p)
          /\ \A i, j \in DOMAIN c : c[i].first = c[j].first => i = j
        BY <2>4 DEF EdgesAdded, BlockAt
    <2>7. EdgesAdded(c, g[m], k, BlockAt(b, p))
        BY <2>5, <2>6, EdgeToAdded
    <2>8. EdgesAdded(b, g[m], k, BlocksAt(b, Upto(m - 1)) \cup BlockAt(b, p))
        BY <2>4, <2>7, MoreEdgesAdded
    <2>9. Upto(m) = Upto(m - 1) \cup {p}
        <3>1. \A i : i \in 1 .. m <=> i \in 1 .. m - 1 \/ i = m
            BY <2>3
        <3> QED  BY <3>1
    <2> HIDE DEF Upto
    <2>10. BlocksAt(b, Upto(m - 1)) \cup BlockAt(b, p) = BlocksAt(b, Upto(m))
        BY <2>9 DEF BlocksAt, BlockAt
    <2> QED  BY <2>1, <2>8, <2>10
<1>5. EdgesAdded(b, g[n], k, BlocksAt(b, Upto(n)))
    <2>1. n \in 0 .. n
        BY <1>1
    <2> QED  BY <1>4, <2>1
<1>6. Upto(n) = Items(targets)
    BY <1>1 DEF Items
<1>7. ASSUME n <= 1
      PROVE  AddTargets(b, k) = IF targets = <<>> THEN b ELSE AddEdgeTo(b, k, targets[1])
    <2>1. CASE n = 0
        BY <1>1, <1>2, <1>3, <2>1
    <2>2. CASE n # 0
        <3>1. n = 1 /\ 1 \in 0 .. n /\ 1 - 1 = 0
            BY <1>1, <1>7, <2>2
        <3> QED  BY <1>1, <1>2, <1>3, <3>1
    <2> QED  BY <2>1, <2>2
<1> QED  BY <1>2, <1>5, <1>6, <1>7 DEF n

\* Whether control may fall through, as the builder sees it.
FallsInGraph(i) ==
    \/ ~ IsExit(i) /\ ~ IsBranch(i)
    \/ IsExit(i) /\ IsPredicated(i)
    \/ ~ IsExit(i) /\ IsBranch(i) /\ ~ IsUnconditional(i)

\* The blocks that the last instruction of a block leads to.
LeadsTo(b, k) ==
    LET last == Last(b[k].instructions)
    IN  (IF IsBranch(last) THEN BlocksAt(b, ToSet(last.targets)) ELSE {})
            \cup (IF FallsInGraph(last) THEN {k + 1} \cap DOMAIN b ELSE {})

\* A conditional block leads to two blocks at most, the target before the next one.
TakenFirst(b, k) ==
    b[k].term = "CONDITIONAL" =>
        /\ Len(b[k].succs) <= 2
        /\ Len(b[k].succs) = 2 =>
              /\ b[b[k].succs[1]].first = Last(b[k].instructions).targets[1]
              /\ b[k].succs[2] = k + 1

LEMMA BlockWired ==
    ASSUME NEW b, AreWired(b), NEW k \in DOMAIN b, b[k].succs = <<>>,
           \A i, j \in DOMAIN b : b[i].first = b[j].first => i = j,
           NEW last, last = Last(b[k].instructions), b[k].term = ClassifyTerminator(last),
           IsSequence(last.targets), IsIndirect(last) \/ Len(last.targets) <= 1
    PROVE  /\ EdgesAdded(b, WireBlock(b, k), k, LeadsTo(b, k))
           /\ TakenFirst(WireBlock(b, k), k)
<1> DEFINE t == AddTargets(b, k)
           T == BlocksAt(b, Items(last.targets))
           F == {k + 1} \cap DOMAIN b
<1>1. /\ EdgesAdded(b, t, k, T)
      /\ Len(last.targets) <= 1 =>
            t = IF last.targets = <<>> THEN b ELSE AddEdgeTo(b, k, last.targets[1])
    BY TargetsAdded
<1>2. LeadsTo(b, k) = (IF IsBranch(last) THEN T ELSE {})
                          \cup (IF FallsInGraph(last) THEN F ELSE {})
    BY DEF LeadsTo, Items, ToSet
<1>3. EdgesAdded(b, AddFallThrough(b, k), k, F)
    BY FallThroughAdded
<1>4. EdgesAdded(b, AddFallThrough(t, k), k, T \cup F)
    <2>1. AreWired(t) /\ k \in DOMAIN t /\ {k + 1} \cap DOMAIN t = F
        BY <1>1 DEF EdgesAdded
    <2>2. EdgesAdded(t, AddFallThrough(t, k), k, F)
        BY <2>1, FallThroughAdded
    <2> HIDE DEF t, T, F
    <2> QED  BY <1>1, <2>2, MoreEdgesAdded
<1> HIDE DEF T, F
<1>5. /\ IsExit(last) => ~ IsBranch(last)
      /\ b[k].term = IF IsExit(last)
                      THEN IF IsPredicated(last) THEN "CONDITIONAL" ELSE "EXIT"
                      ELSE IF ~ IsBranch(last) THEN "FALL_THROUGH"
                      ELSE IF IsIndirect(last) THEN "INDIRECT"
                      ELSE IF IsUnconditional(last) THEN "UNCONDITIONAL" ELSE "CONDITIONAL"
    <2>1. (IsExit(last) => ~ IsBranch(last)) /\ (IsIndirect(last) => IsBranch(last))
        BY DEF IsExit, IsBranch, IsIndirect
    <2> QED  BY <2>1 DEF ClassifyTerminator
<1>6. ASSUME NEW x, NEW D, EdgesAdded(b, x, k, D) PROVE x[k].term = b[k].term
    BY <1>6 DEF EdgesAdded
<1>7. CASE b[k].term = "EXIT"
    <2>1. WireBlock(b, k) = b
        BY <1>7 DEF WireBlock
    <2>2. IsExit(last) /\ ~ IsPredicated(last)
        BY <1>7 DEF ClassifyTerminator
    <2>3. ~ IsBranch(last) /\ ~ FallsInGraph(last)
        BY <2>2 DEF FallsInGraph, IsExit, IsBranch
    <2>4. LeadsTo(b, k) = {}
        BY <1>2, <2>3
    <2>5. TakenFirst(b, k)
        BY <1>7 DEF TakenFirst
    <2> QED  BY <2>1, <2>4, <2>5, NoEdgesAdded
<1>8. CASE b[k].term = "INDIRECT"
    <2>1. WireBlock(b, k) = IF IsUnconditional(last) THEN t ELSE AddFallThrough(t, k)
        BY <1>8 DEF WireBlock
    <2>2. IsIndirect(last)
        BY <1>8 DEF ClassifyTerminator
    <2>3. IsBranch(last) /\ ~ IsExit(last)
        BY <2>2 DEF IsIndirect, IsBranch, IsExit
    <2>4. LeadsTo(b, k) = T \cup IF IsUnconditional(last) THEN {} ELSE F
        BY <1>2, <2>3 DEF FallsInGraph
    <2> HIDE DEF t
    <2>5. EdgesAdded(b, WireBlock(b, k), k, LeadsTo(b, k))
        <3>1. CASE IsUnconditional(last)
            <4>1. LeadsTo(b, k) = T
                BY <2>4, <3>1
            <4> QED  BY <1>1, <2>1, <3>1, <4>1
        <3>2. CASE ~ IsUnconditional(last)
            BY <1>4, <2>1, <2>4, <3>2
        <3> QED  BY <3>1, <3>2
    <2>6. TakenFirst(WireBlock(b, k), k)
        BY <1>6, <1>8, <2>5 DEF TakenFirst
    <2> QED  BY <2>5, <2>6
<1>9. CASE b[k].term = "UNCONDITIONAL"
    <2>1. WireBlock(b, k) = t
        BY <1>9 DEF WireBlock
    <2>2. IsBranch(last) /\ ~ IsExit(last) /\ IsUnconditional(last)
        BY <1>5, <1>9
    <2>3. LeadsTo(b, k) = T
        BY <1>2, <2>2 DEF FallsInGraph
    <2> HIDE DEF t
    <2>4. EdgesAdded(b, WireBlock(b, k), k, LeadsTo(b, k))
        BY <1>1, <2>1, <2>3
    <2>5. TakenFirst(WireBlock(b, k), k)
        BY <1>6, <1>9, <2>4 DEF TakenFirst
    <2> QED  BY <2>4, <2>5
<1>10. CASE b[k].term = "FALL_THROUGH"
    <2>1. WireBlock(b, k) = AddFallThrough(b, k)
        BY <1>10 DEF WireBlock
    <2>2. ~ IsExit(last) /\ ~ IsBranch(last)
        BY <1>10 DEF ClassifyTerminator
    <2>3. LeadsTo(b, k) = F
        BY <1>2, <2>2 DEF FallsInGraph
    <2>4. EdgesAdded(b, WireBlock(b, k), k, LeadsTo(b, k))
        BY <1>3, <2>1, <2>3
    <2>5. TakenFirst(WireBlock(b, k), k)
        BY <1>6, <1>10, <2>4 DEF TakenFirst
    <2> QED  BY <2>4, <2>5
<1>11. CASE b[k].term = "CONDITIONAL" /\ IsExit(last)
    <2>1. WireBlock(b, k) = AddFallThrough(b, k)
        BY <1>11 DEF WireBlock
    <2>2. IsPredicated(last) /\ ~ IsBranch(last)
        BY <1>11 DEF ClassifyTerminator, IsExit, IsBranch
    <2>3. LeadsTo(b, k) = F
        BY <1>2, <1>11, <2>2 DEF FallsInGraph
    <2>4. EdgesAdded(b, WireBlock(b, k), k, LeadsTo(b, k))
        BY <1>3, <2>1, <2>3
    <2>5. Len(AddFallThrough(b, k)[k].succs) \in {0, 1}
        <3>1. CASE k + 1 \in DOMAIN b
            <4>1. AddFallThrough(b, k)[k].succs = Append(<<>>, k + 1)
                <5>1. Items(<<>>) = {}
                    BY EmptyAndSingle
                <5>2. LastEdge(b, AddEdge(b, k, k + 1), k, k + 1)
                    BY <3>1, EdgeAdded
                <5> QED  BY <3>1, <5>1, <5>2 DEF AddFallThrough, LastEdge
            <4>2. Len(Append(<<>>, k + 1)) = 0 + 1
                BY EmptyAndSingle, AppendItem
            <4>3. 0 + 1 \in {0, 1}
                OBVIOUS
            <4> QED  BY <4>1, <4>2, <4>3
        <3>2. CASE k + 1 \notin DOMAIN b
            BY <3>2, EmptyAndSingle DEF AddFallThrough
        <3> QED  BY <3>1, <3>2
    <2>6. TakenFirst(WireBlock(b, k), k)
        <3>1. \A n \in {0, 1} : n # 2 /\ n <= 2
            OBVIOUS
        <3> QED  BY <2>1, <2>5, <3>1 DEF TakenFirst
    <2> QED  BY <2>4, <2>6
<1>12. CASE b[k].term = "CONDITIONAL" /\ ~ IsExit(last)
    <2>1. WireBlock(b, k) = AddFallThrough(t, k)
        BY <1>12 DEF WireBlock
    <2>2. IsBranch(last) /\ ~ IsIndirect(last) /\ ~ IsUnconditional(last)
        BY <1>12 DEF ClassifyTerminator
    <2>3. LeadsTo(b, k) = T \cup F
        BY <1>2, <1>12, <2>2 DEF FallsInGraph
    <2>4. t = IF last.targets = <<>> THEN b ELSE AddEdgeTo(b, k, last.targets[1])
        BY <1>1, <2>2
    <2>5. /\ DOMAIN t = DOMAIN b /\ AreWired(t)
          /\ t[k].instructions = b[k].instructions
          /\ \A d \in DOMAIN b : t[d].first = b[d].first
        BY <1>1 DEF EdgesAdded
    \* The edge to the target is there before the fall-through.
    <2>6. \/ t[k].succs = <<>>
          \/ \E d \in DOMAIN b : t[k].succs = <<d>> /\ b[d].first = last.targets[1]
        <3>1. CASE t = b
            BY <3>1
        <3>2. CASE t # b
            <4>1. PICK d \in BlockAt(b, last.targets[1]) : t = AddEdge(b, k, d)
                BY <2>4, <3>2, EdgeToAdded
            <4>2. d \in DOMAIN b /\ b[d].first = last.targets[1]
                BY DEF BlockAt
            <4>3. t[k].succs = Append(<<>>, d)
                <5>1. d \notin Items(<<>>)
                    BY EmptyAndSingle
                <5>2. LastEdge(b, AddEdge(b, k, d), k, d)
                    BY <4>2, EdgeAdded
                <5> HIDE DEF t
                <5> QED  BY <4>1, <5>1, <5>2 DEF LastEdge
            <4>4. Append(<<>>, d) = <<d>>
                OBVIOUS
            <4> QED  BY <4>2, <4>3, <4>4
        <3> QED  BY <3>1, <3>2
    <2>7. AddFallThrough(t, k)[k].succs =
              IF k + 1 \in DOMAIN b /\ k + 1 \notin Items(t[k].succs)
              THEN Append(t[k].succs, k + 1) ELSE t[k].succs
        <3> HIDE DEF t
        <3>1. CASE k + 1 \in DOMAIN b
            <4>1. LastEdge(t, AddEdge(t, k, k + 1), k, k + 1)
                BY <2>5, <3>1, EdgeAdded
            <4> QED  BY <2>5, <3>1, <4>1 DEF AddFallThrough, LastEdge
        <3>2. CASE k + 1 \notin DOMAIN b
            BY <2>5, <3>2 DEF AddFallThrough
        <3> QED  BY <3>1, <3>2
    <2> DEFINE c == AddFallThrough(t, k)
    <2>8. EdgesAdded(b, c, k, LeadsTo(b, k))
        BY <1>4, <2>3
    <2>9. /\ c[k].instructions = b[k].instructions
          /\ \A d \in DOMAIN b : c[d].first = b[d].first
        BY <2>8 DEF EdgesAdded
    <2> HIDE DEF c, t
    <2>10. ASSUME Len(c[k].succs) = 2
           PROVE  b[c[k].succs[1]].first = last.targets[1] /\ c[k].succs[1] \in DOMAIN b
                  /\ c[k].succs[2] = k + 1
        <3>1. Len(<<>>) = 0 /\ Len(Append(<<>>, k + 1)) = 0 + 1 /\ IsSequence(<<>>)
            BY EmptyAndSingle, AppendItem
        <3>2. PICK d \in DOMAIN b : t[k].succs = <<d>> /\ b[d].first = last.targets[1]
            <4>1. t[k].succs # <<>>
                BY <2>7, <2>10, <3>1 DEF c
            <4> QED  BY <2>6, <4>1
        <3>3. Len(<<d>>) = 1 /\ IsSequence(<<d>>) /\ <<d>>[1] = d /\ DOMAIN <<d>> = 1 .. 1
            BY EmptyAndSingle
        <3>4. c[k].succs = Append(<<d>>, k + 1)
            BY <2>7, <2>10, <3>2, <3>3 DEF c
        <3>5. /\ \A j \in DOMAIN <<d>> : Append(<<d>>, k + 1)[j] = <<d>>[j]
              /\ Append(<<d>>, k + 1)[Len(<<d>>) + 1] = k + 1
            BY <3>3, AppendItem
        <3>6. 1 \in 1 .. 1 /\ 1 + 1 = 2
            OBVIOUS
        <3>7. c[k].succs[1] = d /\ c[k].succs[2] = k + 1
            BY <3>3, <3>4, <3>5, <3>6
        <3> QED  BY <3>2, <3>7
    <2>11. Len(c[k].succs) <= 2
        <3>1. PICK d \in DOMAIN b \cup {k} : t[k].succs \in {<<>>, <<d>>}
            BY <2>6
        <3>2. /\ Len(<<>>) = 0 /\ Len(Append(<<>>, k + 1)) = 0 + 1
              /\ Len(<<d>>) = 1 /\ Len(Append(<<d>>, k + 1)) = 1 + 1
            BY EmptyAndSingle, AppendItem
        <3>3. c[k].succs \in {<<>>, Append(<<>>, k + 1), <<d>>, Append(<<d>>, k + 1)}
            BY <2>7, <3>1 DEF c
        <3>4. Len(c[k].succs) \in {0, 1, 2}
            BY <3>2, <3>3
        <3>5. \A n \in {0, 1, 2} : n <= 2
            OBVIOUS
        <3> QED  BY <3>4, <3>5
    <2>12. TakenFirst(c, k)
        BY <2>9, <2>10, <2>11 DEF TakenFirst
    <2> QED  BY <2>1, <2>8, <2>12 DEF c
<1>13. b[k].term \in {"EXIT", "INDIRECT", "UNCONDITIONAL", "FALL_THROUGH", "CONDITIONAL"}
    BY DEF ClassifyTerminator
<1> QED  BY <1>7, <1>8, <1>9, <1>10, <1>11, <1>12, <1>13

-----------------------------------------------------------------------------
(* The passes together.                                                    *)

\* What an instruction sequence is.
IsProgram(f) ==
    /\ IsSequence(f) /\ f # <<>>
    /\ \A i \in DOMAIN f :
          /\ IsSequence(f[i].targets) /\ Items(f[i].targets) \subseteq 0 .. Len(f)
          /\ IsIndirect(f[i]) \/ Len(f[i].targets) <= 1

\* The first position, every target and every position after a terminator.
LEMMA LeadersAre ==
    ASSUME NEW f, IsProgram(f)
    PROVE  /\ Leaders(f) \subseteq 1 .. Len(f) /\ 1 \in Leaders(f)
           /\ \A i \in DOMAIN f : IsBranch(f[i]) =>
                 Items(f[i].targets) \cap DOMAIN f \subseteq Leaders(f)
           /\ \A i \in DOMAIN f :
                 i + 1 \in DOMAIN f /\ i + 1 \notin Leaders(f) =>
                     ClassifyTerminator(f[i]) = "FALL_THROUGH"
<1>1. Len(f) \in Nat \ {0} /\ DOMAIN f = 1 .. Len(f)
    BY SequenceDomain DEF IsProgram
<1>2. \A i \in DOMAIN f : Items(f[i].targets) \subseteq 0 .. Len(f)
    BY DEF IsProgram
<1>3. \A q : q \in BranchTargets(f) <=>
                q # 0 /\ \E i \in DOMAIN f : IsBranch(f[i]) /\ q \in Items(f[i].targets)
    <2> DEFINE B == {j \in DOMAIN f : IsBranch(f[j])}
               To == {Items(f[i].targets) : i \in B}
    <2>1. \A i : ToSet(f[i].targets) = Items(f[i].targets)
        BY DEF ToSet, Items
    <2>2. {ToSet(f[i].targets) : i \in B} = To
        BY <2>1
    <2>3. BranchTargets(f) = (UNION To) \ {0}
        BY <2>2 DEF BranchTargets, Nowhere
    <2>4. \A q : q \in UNION To <=> \E i \in B : q \in Items(f[i].targets)
        OBVIOUS
    <2>5. \A i : i \in B <=> i \in DOMAIN f /\ IsBranch(f[i])
        OBVIOUS
    <2>6. \A q : q \in BranchTargets(f) <=> q \in UNION To /\ q # 0
        <3> HIDE DEF To
        <3> QED  BY <2>3
    <2> HIDE DEF To, B
    <2> QED  BY <2>4, <2>5, <2>6
<1>4. BranchTargets(f) \subseteq 1 .. Len(f)
    BY <1>1, <1>2, <1>3
<1>5. Leaders(f) \subseteq 1 .. Len(f) /\ 1 \in Leaders(f)
    <2>1. 2 .. Len(f) \subseteq 1 .. Len(f) /\ 1 \in 1 .. Len(f)
        BY <1>1
    <2> QED  BY <1>4, <2>1 DEF Leaders
<1>6. ASSUME NEW i \in DOMAIN f, IsBranch(f[i])
      PROVE  Items(f[i].targets) \cap DOMAIN f \subseteq Leaders(f)
    <2>1. 0 \notin DOMAIN f
        BY <1>1
    <2>2. Items(f[i].targets) \cap DOMAIN f \subseteq BranchTargets(f)
        BY <1>3, <1>6, <2>1
    <2> QED  BY <2>2 DEF Leaders
<1>7. ASSUME NEW i \in DOMAIN f, i + 1 \in DOMAIN f, i + 1 \notin Leaders(f)
      PROVE  ClassifyTerminator(f[i]) = "FALL_THROUGH"
    <2>1. i + 1 \in 2 .. Len(f) /\ (i + 1) - 1 = i
        BY <1>1, <1>7
    <2>2. i + 1 \notin {j \in 2 .. Len(f) : ClassifyTerminator(f[j - 1]) # "FALL_THROUGH"}
        BY <1>7 DEF Leaders
    <2> QED  BY <2>1, <2>2
<1> QED  BY <1>5, <1>6, <1>7

\* The blocks of b are those of p, apart from their edges.
SameBlocks(b, p) ==
    /\ DOMAIN b = DOMAIN p
    /\ \A k \in DOMAIN p : /\ b[k].first = p[k].first
                           /\ b[k].instructions = p[k].instructions

\* The blocks before n have their edges, the others have none.
WiredUpTo(b, f, n) ==
    /\ AreBlocks(b, f, Leaders(f)) /\ AreWired(b)
    /\ SameBlocks(b, Partition(f, Leaders(f)))
    /\ \A k \in DOMAIN b : Differ(b[k].succs)
    /\ \A k \in DOMAIN b :
          IF k < n THEN Items(b[k].succs) = LeadsTo(b, k) /\ TakenFirst(b, k)
          ELSE b[k].succs = <<>>

LEMMA PartitionWired ==
    ASSUME NEW f, IsProgram(f)
    PROVE  WiredUpTo(Partition(f, Leaders(f)), f, 0)
<1> DEFINE b == Partition(f, Leaders(f))
<1>1. AreBlocks(b, f, Leaders(f)) /\ AreWired(b) /\ \A k \in DOMAIN b : b[k].succs = <<>>
    BY LeadersAre, PartitionIs DEF IsProgram
<1>2. \A k \in DOMAIN b : ~ (k < 0)
    <2>1. PICK m \in Nat \ {0} : DOMAIN b = 0 .. m - 1
        BY <1>1 DEF AreBlocks
    <2> QED  BY <2>1
<1>4. SameBlocks(b, Partition(f, Leaders(f)))
    BY DEF SameBlocks
<1>5. Differ(<<>>)
    BY EmptyAndSingle DEF Differ
<1> HIDE DEF b
<1>6. \A k \in DOMAIN b : Differ(b[k].succs)
    BY <1>1, <1>5
<1>3. WiredUpTo(b, f, 0)
    BY <1>1, <1>2, <1>4, <1>6 DEF WiredUpTo
<1> QED  BY <1>3 DEF b

LEMMA NextBlockWired ==
    ASSUME NEW f, IsProgram(f), NEW n \in Nat, NEW b, WiredUpTo(b, f, n), n \in DOMAIN b
    PROVE  WiredUpTo(WireBlock(b, n), f, n + 1) /\ DOMAIN WireBlock(b, n) = DOMAIN b
<1>1. /\ AreBlocks(b, f, Leaders(f)) /\ AreWired(b)
      /\ \A k \in DOMAIN b :
            IF k < n THEN Items(b[k].succs) = LeadsTo(b, k) /\ TakenFirst(b, k)
            ELSE b[k].succs = <<>>
    BY DEF WiredUpTo
<1>2. PICK m \in Nat \ {0} : DOMAIN b = 0 .. m - 1
    BY <1>1 DEF AreBlocks
<1> DEFINE last == Last(b[n].instructions)
<1>3. /\ last = f[EndOf(b, n)] /\ EndOf(b, n) \in DOMAIN f
      /\ b[n].term = ClassifyTerminator(last)
    <2>1. /\ EndOf(b, n) \in b[n].first .. Len(f) /\ b[n].first \in Leaders(f)
          /\ last = f[EndOf(b, n)] /\ b[n].term = ClassifyTerminator(last)
        BY <1>1 DEF AreBlocks
    <2>2. DOMAIN f = 1 .. Len(f) /\ Len(f) \in Nat
        BY SequenceDomain DEF IsProgram
    <2>3. b[n].first \in 1 .. Len(f)
        BY <2>1, LeadersAre
    <2>4. EndOf(b, n) \in 1 .. Len(f)
        BY <2>1, <2>2, <2>3
    <2> QED  BY <2>1, <2>2, <2>4
<1>4. IsSequence(last.targets) /\ (IsIndirect(last) \/ Len(last.targets) <= 1)
    BY <1>3 DEF IsProgram
<1>5. b[n].succs = <<>>
    <2>1. ~ (n < n)
        OBVIOUS
    <2> QED  BY <1>1, <2>1
<1>6. \A i, j \in DOMAIN b : b[i].first = b[j].first => i = j
    BY <1>1 DEF AreBlocks
<1> DEFINE c == WireBlock(b, n)
<1>7. EdgesAdded(b, c, n, LeadsTo(b, n)) /\ TakenFirst(c, n)
    <2> HIDE DEF last
    <2>1. \A l : /\ l = Last(b[n].instructions) /\ b[n].term = ClassifyTerminator(l)
                 /\ IsSequence(l.targets) /\ (IsIndirect(l) \/ Len(l.targets) <= 1)
                 => /\ EdgesAdded(b, WireBlock(b, n), n, LeadsTo(b, n))
                    /\ TakenFirst(WireBlock(b, n), n)
        BY <1>1, <1>5, <1>6, BlockWired
    <2> QED  BY <1>3, <1>4, <2>1 DEF last
<1> HIDE DEF c, last
<1>8. /\ AreBlocks(c, f, Leaders(f)) /\ AreWired(c) /\ DOMAIN c = DOMAIN b
      /\ \A j \in DOMAIN b :
            /\ c[j].first = b[j].first /\ c[j].instructions = b[j].instructions
            /\ c[j].term = b[j].term
            /\ j # n => c[j].succs = b[j].succs
    <2>1. AreBlocks(c, f, Leaders(f))
        BY <1>1, <1>7, BlocksStay
    <2> QED  BY <1>7, <2>1 DEF EdgesAdded
<1>9. \A j \in DOMAIN b : LeadsTo(c, j) = LeadsTo(b, j)
    BY <1>8 DEF LeadsTo, BlocksAt
<1>10. Items(c[n].succs) = LeadsTo(c, n)
    <2>1. Items(c[n].succs) = Items(b[n].succs) \cup LeadsTo(b, n)
        BY <1>7 DEF EdgesAdded
    <2>2. Items(<<>>) = {}
        BY EmptyAndSingle
    <2> QED  BY <1>5, <1>9, <2>1, <2>2
<1>11. ASSUME NEW k \in DOMAIN c
       PROVE  IF k < n + 1 THEN Items(c[k].succs) = LeadsTo(c, k) /\ TakenFirst(c, k)
              ELSE c[k].succs = <<>>
    <2>1. k \in 0 .. m - 1 /\ k \in DOMAIN b
        BY <1>2, <1>8
    <2>2. CASE k = n
        <3>1. k < n + 1
            BY <2>2
        <3> QED  BY <1>7, <1>10, <2>2, <3>1
    <2>3. CASE k # n
        <3>1. k < n + 1 <=> k < n
            BY <2>1, <2>3
        <3>2. c[k].succs = b[k].succs
            BY <1>8, <2>1, <2>3
        <3>3. CASE k < n
            <4>1. Items(b[k].succs) = LeadsTo(b, k) /\ TakenFirst(b, k)
                BY <1>1, <2>1, <3>3
            <4>2. TakenFirst(c, k)
                <5>0. c[k].term = "CONDITIONAL" => Len(c[k].succs) <= 2
                    BY <1>8, <2>1, <3>2, <4>1 DEF TakenFirst
                <5> SUFFICES ASSUME c[k].term = "CONDITIONAL", Len(c[k].succs) = 2
                             PROVE  /\ c[c[k].succs[1]].first =
                                          Last(c[k].instructions).targets[1]
                                    /\ c[k].succs[2] = k + 1
                    BY <5>0 DEF TakenFirst
                <5>1. /\ b[b[k].succs[1]].first = Last(b[k].instructions).targets[1]
                      /\ b[k].succs[2] = k + 1
                    BY <1>8, <2>1, <3>2, <4>1 DEF TakenFirst
                <5>2. b[k].succs[1] \in DOMAIN b
                    <6>1. /\ IsSequence(b[k].succs) /\ Items(b[k].succs) \subseteq DOMAIN b
                        BY <1>1, <2>1 DEF AreWired
                    <6>2. DOMAIN b[k].succs = 1 .. 2
                        BY <3>2, <6>1, SequenceDomain
                    <6>3. 1 \in 1 .. 2
                        OBVIOUS
                    <6> QED  BY <6>1, <6>2, <6>3 DEF Items
                <5> QED  BY <1>8, <2>1, <3>2, <5>1, <5>2
            <4> QED  BY <1>9, <2>1, <3>1, <3>2, <3>3, <4>1, <4>2
        <3>4. CASE ~ (k < n)
            BY <1>1, <2>1, <3>1, <3>2, <3>4
        <3> QED  BY <3>3, <3>4
    <2> QED  BY <2>2, <2>3
<1>13. SameBlocks(c, Partition(f, Leaders(f)))
    <2>1. SameBlocks(b, Partition(f, Leaders(f)))
        BY DEF WiredUpTo
    <2> QED  BY <1>8, <2>1 DEF SameBlocks
<1>14. \A k \in DOMAIN c : Differ(c[k].succs)
    <2>1. \A k \in DOMAIN b : Differ(b[k].succs)
        BY DEF WiredUpTo
    <2>2. Differ(c[n].succs)
        BY <1>7, <2>1 DEF EdgesAdded
    <2> QED  BY <1>8, <2>1, <2>2
<1>12. WiredUpTo(c, f, n + 1)
    BY <1>8, <1>11, <1>13, <1>14 DEF WiredUpTo
<1> QED  BY <1>8, <1>12 DEF c

\* The equations of the graphs that BuildCfg goes through, one block after another.
AreWirings(g, f, n) ==
    /\ g = [k \in 0 .. n |-> g[k]]
    /\ \A k \in 0 .. n :
          g[k] = IF k = 0 THEN Partition(f, Leaders(f)) ELSE WireBlock(g[k - 1], k - 1)

LEMMA WiringsExist ==
    ASSUME NEW f, NEW n \in Nat
    PROVE  \E g : AreWirings(g, f, n)
<1> DEFINE T == {m \in Nat : ~ \E g : AreWirings(g, f, m)}
<1> SUFFICES ASSUME T # {} PROVE FALSE
    OBVIOUS
<1>1. PICK m \in T : \A y \in T : m <= y
    <2>1. T \subseteq Nat
        OBVIOUS
    <2> HIDE DEF T
    <2> QED  BY <2>1, LeastNat
<1>2. m # 0
    <2>1. AreWirings([k \in 0 .. 0 |-> Partition(f, Leaders(f))], f, 0)
        BY DEF AreWirings
    <2> QED  BY <2>1
<1>3. m \in Nat /\ m - 1 \in Nat /\ m - 1 \notin T
    BY <1>1, <1>2
<1>4. PICK s : AreWirings(s, f, m - 1)
    BY <1>3
<1> DEFINE r == [k \in 0 .. m |-> IF k = m THEN WireBlock(s[m - 1], m - 1) ELSE s[k]]
<1>5. AreWirings(r, f, m)
    <2>1. r = [k \in 0 .. m |-> r[k]]
        OBVIOUS
    <2>2. ASSUME NEW k \in 0 .. m
          PROVE  r[k] = IF k = 0 THEN Partition(f, Leaders(f)) ELSE WireBlock(r[k - 1], k - 1)
        <3>1. CASE k = m
            <4>1. k - 1 \in 0 .. m /\ k - 1 # m /\ k # 0
                BY <1>2, <1>3, <3>1
            <4> QED  BY <3>1, <4>1
        <3>2. CASE k # m
            <4>1. k \in 0 .. m - 1 /\ (k # 0 => k - 1 \in 0 .. m /\ k - 1 # m)
                BY <1>3, <3>2
            <4>2. r[k] = s[k] /\ (k # 0 => r[k - 1] = s[k - 1])
                BY <3>2, <4>1
            <4> QED  BY <1>4, <4>1, <4>2 DEF AreWirings
        <3> QED  BY <3>1, <3>2
    <2> HIDE DEF r
    <2> QED  BY <2>1, <2>2 DEF AreWirings
<1> QED  BY <1>1, <1>3, <1>5

LEMMA WiringsUnique ==
    ASSUME NEW f, NEW n \in Nat, NEW g, NEW h, AreWirings(g, f, n), AreWirings(h, f, n)
    PROVE  g = h
<1> DEFINE T == {k \in 0 .. n : g[k] # h[k]}
<1>1. T = {}
    <2> SUFFICES ASSUME T # {} PROVE FALSE
        OBVIOUS
    <2>1. PICK m \in T : \A y \in T : m <= y
        <3>1. T \subseteq Nat
            OBVIOUS
        <3> HIDE DEF T
        <3> QED  BY <3>1, LeastNat
    <2>2. m # 0
        BY <2>1 DEF AreWirings
    <2>3. m \in 0 .. n /\ m - 1 \in 0 .. n /\ m - 1 \notin T
        BY <2>1, <2>2
    <2>4. g[m - 1] = h[m - 1]
        BY <2>3
    <2>5. g[m] = h[m]
        BY <2>2, <2>3, <2>4 DEF AreWirings
    <2> QED  BY <2>1, <2>5
<1>2. \A k \in 0 .. n : g[k] = h[k]
    BY <1>1
<1> QED  BY <1>2 DEF AreWirings

LEMMA BuildCfgIs ==
    ASSUME NEW f, NEW n, n = Cardinality(DOMAIN Partition(f, Leaders(f))), n \in Nat
    PROVE  \A g : AreWirings(g, f, n) => BuildCfg(f) = g[n]
<1> DEFINE Step(g, k) == IF k = 0 THEN Partition(f, Leaders(f)) ELSE WireBlock(g[k - 1], k - 1)
           Eq(g) == g = [k \in 0 .. n |-> Step(g, k)]
<1> SUFFICES ASSUME NEW s, AreWirings(s, f, n) PROVE BuildCfg(f) = s[n]
    OBVIOUS
<1>2. BuildCfg(f) = (CHOOSE g : Eq(g))[n]
    BY DEF BuildCfg
<1>3. Eq(s)
    <2>1. \A k \in 0 .. n : s[k] = Step(s, k)
        BY DEF AreWirings
    <2>2. s = [k \in 0 .. n |-> s[k]]
        BY DEF AreWirings
    <2> HIDE DEF Step
    <2> QED  BY <2>1, <2>2
<1>4. PICK g : g = (CHOOSE h : Eq(h)) /\ Eq(g)
    <2> HIDE DEF Eq
    <2> QED  BY <1>3
<1>5. AreWirings(g, f, n)
    <2>1. g = [k \in 0 .. n |-> g[k]] /\ \A k \in 0 .. n : g[k] = Step(g, k)
        <3> HIDE DEF Step
        <3> QED  BY <1>4
    <2> QED  BY <2>1 DEF AreWirings
<1>6. g = s
    BY <1>5, WiringsUnique
<1> QED
    <2> HIDE DEF Eq
    <2> QED  BY <1>2, <1>4, <1>6

\* The blocks of a function are numbered from 0.
LEMMA BlockCount ==
    ASSUME NEW b, NEW f, NEW L, AreBlocks(b, f, L)
    PROVE  /\ IsFiniteSet(DOMAIN b) /\ Cardinality(DOMAIN b) \in Nat \ {0}
           /\ DOMAIN b = 0 .. Cardinality(DOMAIN b) - 1
<1>1. PICK m \in Nat \ {0} : DOMAIN b = 0 .. m - 1
    BY DEF AreBlocks
<1>2. IsFiniteSet(0 .. m - 1) /\ Cardinality(0 .. m - 1) = m
    <2>1. Cardinality(0 .. m - 1) = IF 0 > m - 1 THEN 0 ELSE (m - 1) - 0 + 1
        BY FS_Interval
    <2>2. IsFiniteSet(0 .. m - 1)
        BY FS_Interval
    <2> QED  BY <2>1, <2>2
<1> QED  BY <1>1, <1>2

\* Every block of the result has its edges.
LEMMA BuildCfgWired ==
    ASSUME NEW f, IsProgram(f)
    PROVE  LET b == BuildCfg(f)
           IN  WiredUpTo(b, f, Cardinality(DOMAIN b))
<1> DEFINE p == Partition(f, Leaders(f))
           n == Cardinality(DOMAIN p)
<1>1. WiredUpTo(p, f, 0)
    BY PartitionWired
<1>2. n \in Nat /\ DOMAIN p = 0 .. n - 1
    <2>1. AreBlocks(p, f, Leaders(f))
        BY <1>1 DEF WiredUpTo
    <2> QED  BY <2>1, BlockCount
<1>3. PICK g : AreWirings(g, f, n)
    BY <1>2, WiringsExist
<1>4. BuildCfg(f) = g[n]
    BY <1>2, <1>3, BuildCfgIs
<1> DEFINE T == {k \in 0 .. n : ~ (WiredUpTo(g[k], f, k) /\ DOMAIN g[k] = DOMAIN p)}
<1> HIDE DEF n
<1>5. g[0] = p /\ \A k \in 0 .. n : k # 0 => g[k] = WireBlock(g[k - 1], k - 1)
    <2>1. \A k \in 0 .. n : g[k] = IF k = 0 THEN p ELSE WireBlock(g[k - 1], k - 1)
        BY <1>3 DEF AreWirings
    <2>2. 0 \in 0 .. n
        BY <1>2
    <2> QED  BY <2>1, <2>2
<1> HIDE DEF p
<1>6. T = {}
    <2> SUFFICES ASSUME T # {} PROVE FALSE
        OBVIOUS
    <2>1. PICK m \in T : \A y \in T : m <= y
        <3>1. T \subseteq Nat
            OBVIOUS
        <3> HIDE DEF T
        <3> QED  BY <3>1, LeastNat
    <2>2. m # 0
        BY <1>1, <1>5, <2>1
    <2>3. m \in 0 .. n /\ m - 1 \in 0 .. n /\ m - 1 \notin T /\ m - 1 \in Nat
          /\ m - 1 \in 0 .. n - 1 /\ (m - 1) + 1 = m
        BY <1>2, <2>1, <2>2
    <2>4. WiredUpTo(g[m - 1], f, m - 1) /\ DOMAIN g[m - 1] = DOMAIN p
        BY <2>3
    <2>5. g[m] = WireBlock(g[m - 1], m - 1)
        BY <1>5, <2>2, <2>3
    <2>6. m - 1 \in DOMAIN g[m - 1]
        BY <1>2, <2>3, <2>4
    <2>7. WiredUpTo(g[m], f, m) /\ DOMAIN g[m] = DOMAIN p
        BY <2>3, <2>4, <2>5, <2>6, NextBlockWired
    <2> QED  BY <2>1, <2>7
<1>7. WiredUpTo(g[n], f, n) /\ DOMAIN g[n] = DOMAIN p
    <2>1. n \in 0 .. n
        BY <1>2
    <2> QED  BY <1>6, <2>1
<1> QED  BY <1>4, <1>7 DEF n

-----------------------------------------------------------------------------
(* What the later passes make of a graph.                                  *)

\* Numbered blocks with edges between them, a conditional block with two at most.
AreLinked(b, m) ==
    /\ DOMAIN b = 0 .. m - 1
    /\ b = [k \in DOMAIN b |-> b[k]]
    /\ \A k \in DOMAIN b :
          /\ IsBlock(b[k]) /\ b[k].id = k /\ b[k].term \in TerminatorKind
          /\ IsSequence(b[k].instructions)
          /\ IsSequence(b[k].succs) /\ Items(b[k].succs) \subseteq DOMAIN b
          /\ b[k].term = "CONDITIONAL" => Len(b[k].succs) <= 2

LEMMA BuildCfgLinked ==
    ASSUME NEW f, IsProgram(f)
    PROVE  \E m \in Nat : AreLinked(BuildCfg(f), m)
<1> DEFINE b == BuildCfg(f)
<1>1. WiredUpTo(b, f, Cardinality(DOMAIN b))
    BY BuildCfgWired
<1> HIDE DEF b
<1>2. AreBlocks(b, f, Leaders(f)) /\ AreWired(b)
    BY <1>1 DEF WiredUpTo
<1>3. DOMAIN b = 0 .. Cardinality(DOMAIN b) - 1 /\ Cardinality(DOMAIN b) \in Nat
    BY <1>2, BlockCount
<1>4. ASSUME NEW k \in DOMAIN b
      PROVE  /\ b[k].term \in TerminatorKind
             /\ b[k].term = "CONDITIONAL" => Len(b[k].succs) <= 2
    <2>1. k < Cardinality(DOMAIN b)
        BY <1>3
    <2>2. TakenFirst(b, k)
        BY <1>1, <2>1 DEF WiredUpTo
    <2>3. b[k].term \in TerminatorKind
        BY <1>2 DEF AreBlocks, ClassifyTerminator, TerminatorKind
    <2> QED  BY <2>2, <2>3 DEF TakenFirst
<1>5. AreLinked(b, Cardinality(DOMAIN b))
    BY <1>2, <1>3, <1>4 DEF AreLinked, AreBlocks, AreWired
<1> QED  BY <1>3, <1>5 DEF b

LEMMA SliceLinked ==
    ASSUME NEW m, NEW b, AreLinked(b, m), NEW S
    PROVE  AreLinked(RebuildSlice(b, S), m)
<1> DEFINE c == RebuildSlice(b, S)
<1>1. c = [k \in DOMAIN b |-> c[k]] /\ DOMAIN c = DOMAIN b
    BY DEF RebuildSlice
<1>2. ASSUME NEW k \in DOMAIN b
      PROVE  /\ IsBlock(c[k]) /\ c[k].id = b[k].id /\ c[k].term = b[k].term
             /\ c[k].succs = b[k].succs /\ IsSequence(c[k].instructions)
    <2> DEFINE kept == {i \in DOMAIN b[k].instructions : b[k].first + i - 1 \in S}
               order == Sorted(kept, Len(b[k].instructions))
               is == [i \in DOMAIN order |-> b[k].instructions[order[i]]]
    <2>1. c[k] = [b[k] EXCEPT !.instructions = is]
        BY DEF RebuildSlice, Selected
    <2>2. DOMAIN b[k].instructions = 1 .. Len(b[k].instructions) /\ Len(b[k].instructions) \in Nat
        BY SequenceDomain DEF AreLinked
    <2>3. Ascends(order, kept)
        BY <2>2, SortedMembers
    <2>4. DOMAIN order = 1 .. Len(order) /\ Len(order) \in Nat
        <3> HIDE DEF order
        <3> QED  BY <2>3, SequenceDomain DEF Ascends
    <2>5. IsSequence(is)
        <3>1. is = [i \in 1 .. Len(order) |-> is[i]]
            BY <2>4
        <3> HIDE DEF is, order
        <3> QED  BY <2>4, <3>1, FunctionIsSequence
    <2> HIDE DEF is
    <2>6. c[k] = [id |-> b[k].id, first |-> b[k].first, instructions |-> is,
                  term |-> b[k].term, succs |-> b[k].succs, preds |-> b[k].preds]
        BY <2>1 DEF AreLinked, IsBlock
    <2> HIDE DEF c
    <2> QED  BY <2>5, <2>6 DEF IsBlock
<1> HIDE DEF c
<1>3. AreLinked(c, m)
    BY <1>1, <1>2 DEF AreLinked
<1> QED  BY <1>3 DEF c

LEMMA FirstOfIs ==
    ASSUME NEW n \in Nat, NEW S, S \subseteq 1 .. n, S # {}
    PROVE  FirstOf(S) \in S
<1>1. S \subseteq Nat
    OBVIOUS
<1>2. \E i \in S : \A j \in S : i <= j
    BY <1>1, LeastNat
<1> QED  BY <1>2 DEF FirstOf

BlockOfFields(a, b, c, d, e, f) ==
    [id |-> a, first |-> b, instructions |-> c, term |-> d, succs |-> e, preds |-> f]

LEMMA BlockFields ==
    ASSUME NEW r, IsBlock(r), NEW x, NEW y, NEW z
    PROVE  /\ [r EXCEPT !.instructions = x, !.term = y, !.succs = z] =
                  BlockOfFields(r.id, r.first, x, y, z, r.preds)
           /\ [r EXCEPT !.preds = x] =
                  BlockOfFields(r.id, r.first, r.instructions, r.term, r.succs, x)
<1> DEFINE r1 == [r EXCEPT !.instructions = x]
           r2 == [r1 EXCEPT !.term = y]
<1>1. [r EXCEPT !.instructions = x, !.term = y, !.succs = z] = [r2 EXCEPT !.succs = z]
    OBVIOUS
<1>2. PICK a, b, c, d, e, f : /\ r = BlockOfFields(a, b, c, d, e, f)
                              /\ a = r.id /\ b = r.first /\ c = r.instructions /\ d = r.term
                              /\ e = r.succs /\ f = r.preds
    BY DEF IsBlock, BlockOfFields
<1>3. [r EXCEPT !.preds = x] = BlockOfFields(a, b, c, d, e, x)
    BY <1>2 DEF BlockOfFields
<1>4. r1 = BlockOfFields(a, b, x, d, e, f)
    BY <1>2 DEF BlockOfFields
<1> HIDE DEF r1
<1>5. r2 = BlockOfFields(a, b, x, y, e, f)
    BY <1>4 DEF BlockOfFields
<1> HIDE DEF r2
<1>6. [r2 EXCEPT !.succs = z] = BlockOfFields(a, b, x, y, z, f)
    BY <1>5 DEF BlockOfFields
<1> QED  BY <1>1, <1>2, <1>3, <1>6

LEMMA BlockCollapsed ==
    ASSUME NEW m, NEW b, AreLinked(b, m), NEW k \in DOMAIN b
    PROVE  AreLinked(CollapseBlock(b, k), m)
<1> DEFINE c == CollapseBlock(b, k)
           bb == b[k]
           back == SelectInSeq(bb.succs, LAMBDA s : s <= k)
           retry == bb.succs[back]
           other == SelectInSeq(bb.succs, LAMBDA s : s # retry)
           is == SubSeq(bb.instructions, 1, FirstOf(TryAllocAt(bb)))
           new == [bb EXCEPT !.instructions = is, !.term = "FALL_THROUGH",
                             !.succs = <<bb.succs[other]>>]
           u == [b EXCEPT ![k] = new]
           v == [u EXCEPT ![retry] = [u[retry] EXCEPT !.preds = u[retry].preds \ {k}]]
<1>1. /\ b = [j \in DOMAIN b |-> b[j]]
      /\ \A j \in DOMAIN b : IsBlock(b[j])
      /\ IsSequence(bb.instructions) /\ IsSequence(bb.succs) /\ Items(bb.succs) \subseteq DOMAIN b
    BY DEF AreLinked
<1>2. DOMAIN bb.succs = 1 .. Len(bb.succs) /\ Len(bb.succs) \in Nat
    BY <1>1, SequenceDomain
<1>3. CASE bb.term # "CONDITIONAL" \/ TryAllocAt(bb) = {} \/ back = 0 \/ other = 0
    <2>1. c = b
        BY <1>3, Zenon DEF CollapseBlock
    <2> QED  BY <2>1
<1>4. CASE ~ (bb.term # "CONDITIONAL" \/ TryAllocAt(bb) = {} \/ back = 0 \/ other = 0)
    <2>1. c = v
        BY <1>4 DEF CollapseBlock
    <2>2. back \in DOMAIN bb.succs
        <3> DEFINE I == {i \in 1 .. Len(bb.succs) : bb.succs[i] <= k}
        <3>1. back = IF I # {} THEN Min(I) ELSE 0
            BY DEF SelectInSeq
        <3>2. I \subseteq Nat /\ I \subseteq 1 .. Len(bb.succs)
            BY <1>2
        <3> HIDE DEF I
        <3> QED  BY <1>2, <1>4, <3>1, <3>2, MinMember
    <2>3. other \in DOMAIN bb.succs
        <3> DEFINE I == {i \in 1 .. Len(bb.succs) : bb.succs[i] # retry}
        <3>1. other = IF I # {} THEN Min(I) ELSE 0
            BY DEF SelectInSeq
        <3> HIDE DEF retry
        <3>2. I \subseteq Nat /\ I \subseteq 1 .. Len(bb.succs)
            BY <1>2
        <3> HIDE DEF I
        <3> QED  BY <1>2, <1>4, <3>1, <3>2, MinMember
    <2>4. retry \in DOMAIN b /\ bb.succs[other] \in DOMAIN b
        <3> HIDE DEF back, other
        <3> QED  BY <1>1, <2>2, <2>3 DEF Items
    <2>5. IsSequence(is)
        <3>1. DOMAIN bb.instructions = 1 .. Len(bb.instructions) /\ Len(bb.instructions) \in Nat
            BY <1>1, SequenceDomain
        <3>2. FirstOf(TryAllocAt(bb)) \in 1 .. Len(bb.instructions)
            BY <1>4, <3>1, FirstOfIs DEF TryAllocAt
        <3>3. bb.instructions \in Seq(Items(bb.instructions))
            BY <1>1 DEF IsSequence
        <3>4. \A i \in 1 .. FirstOf(TryAllocAt(bb)) : i \in 1 .. Len(bb.instructions)
            BY <3>1, <3>2
        <3>5. is \in Seq(Items(bb.instructions))
            BY <3>1, <3>2, <3>3, SubSeqProperties
        <3> QED  BY <3>5, SequenceIs
    <2> HIDE DEF is, back, other, retry
    <2> DEFINE d == bb.succs[other]
    <2>6. new = [id |-> bb.id, first |-> bb.first, instructions |-> is,
                 term |-> "FALL_THROUGH", succs |-> <<d>>, preds |-> bb.preds]
        <3>1. IsBlock(bb)
            BY <1>1
        <3> HIDE DEF d, bb
        <3>2. [bb EXCEPT !.instructions = is, !.term = "FALL_THROUGH", !.succs = <<d>>]
                  = BlockOfFields(bb.id, bb.first, is, "FALL_THROUGH", <<d>>, bb.preds)
            BY <3>1, BlockFields, Zenon
        <3> QED  BY <3>2 DEF BlockOfFields, d
    <2> HIDE DEF d
    <2>7. /\ IsBlock(new) /\ new.id = bb.id /\ new.term = "FALL_THROUGH"
          /\ IsSequence(new.instructions) /\ new.succs = <<d>>
        <3> HIDE DEF new
        <3> QED  BY <2>5, <2>6 DEF IsBlock
    <2> HIDE DEF new
    <2>8. IsSequence(<<d>>) /\ Items(<<d>>) = {d} /\ d \in DOMAIN b
        BY <2>4, EmptyAndSingle DEF d
    <2>9. AreLinked(u, m)
        <3>1. DOMAIN u = DOMAIN b /\ u = [j \in DOMAIN u |-> u[j]]
              /\ \A j \in DOMAIN b : u[j] = IF j = k THEN new ELSE b[j]
            OBVIOUS
        <3> HIDE DEF u
        <3>2. ASSUME NEW j \in DOMAIN b
              PROVE  /\ IsBlock(u[j]) /\ u[j].id = j /\ u[j].term \in TerminatorKind
                     /\ IsSequence(u[j].instructions)
                     /\ IsSequence(u[j].succs) /\ Items(u[j].succs) \subseteq DOMAIN b
                     /\ u[j].term = "CONDITIONAL" => Len(u[j].succs) <= 2
            <4>1. CASE j = k
                BY <2>7, <2>8, <3>1, <4>1 DEF AreLinked, TerminatorKind
            <4>2. CASE j # k
                BY <3>1, <4>2 DEF AreLinked
            <4> QED  BY <4>1, <4>2
        <3> QED  BY <3>1, <3>2 DEF AreLinked
    <2> HIDE DEF u
    <2>10. AreLinked(v, m)
        <3> DEFINE r == [u[retry] EXCEPT !.preds = u[retry].preds \ {k}]
                   ps == u[retry].preds \ {k}
        <3>1. retry \in DOMAIN u
            BY <2>4, <2>9 DEF AreLinked
        <3>2. r = [id |-> u[retry].id, first |-> u[retry].first,
                   instructions |-> u[retry].instructions, term |-> u[retry].term,
                   succs |-> u[retry].succs, preds |-> ps]
            <4>1. IsBlock(u[retry])
                BY <2>9, <3>1 DEF AreLinked
            <4> QED  BY <4>1, BlockFields DEF BlockOfFields
        <3> HIDE DEF ps
        <3>3. /\ IsBlock(r) /\ r.id = u[retry].id /\ r.term = u[retry].term
              /\ r.instructions = u[retry].instructions /\ r.succs = u[retry].succs
            <4> HIDE DEF r
            <4> QED  BY <3>2 DEF IsBlock
        <3>4. v = [u EXCEPT ![retry] = r]
            OBVIOUS
        <3> HIDE DEF v, r
        <3>5. DOMAIN v = DOMAIN u /\ v = [j \in DOMAIN v |-> v[j]]
              /\ \A j \in DOMAIN u : v[j] = IF j = retry THEN r ELSE u[j]
            BY <3>4
        <3> QED  BY <2>9, <3>1, <3>3, <3>5 DEF AreLinked
    <2> QED  BY <2>1, <2>10
<1> QED  BY <1>3, <1>4

\* The equations of the graphs that collapse_try_alloc_retry goes through.
AreCollapsed(g, b, n) ==
    /\ g = [k \in 0 .. n |-> g[k]]
    /\ \A k \in 0 .. n : g[k] = IF k = 0 THEN b ELSE CollapseBlock(g[k - 1], k - 1)

LEMMA CollapsedExist ==
    ASSUME NEW b, NEW n \in Nat
    PROVE  \E g : AreCollapsed(g, b, n)
<1> DEFINE T == {m \in Nat : ~ \E g : AreCollapsed(g, b, m)}
<1> SUFFICES ASSUME T # {} PROVE FALSE
    OBVIOUS
<1>1. PICK m \in T : \A y \in T : m <= y
    <2>1. T \subseteq Nat
        OBVIOUS
    <2> HIDE DEF T
    <2> QED  BY <2>1, LeastNat
<1>2. m # 0
    <2>1. AreCollapsed([k \in 0 .. 0 |-> b], b, 0)
        BY DEF AreCollapsed
    <2> QED  BY <2>1
<1>3. m \in Nat /\ m - 1 \in Nat /\ m - 1 \notin T
    BY <1>1, <1>2
<1>4. PICK s : AreCollapsed(s, b, m - 1)
    BY <1>3
<1> DEFINE r == [k \in 0 .. m |-> IF k = m THEN CollapseBlock(s[m - 1], m - 1) ELSE s[k]]
<1>5. AreCollapsed(r, b, m)
    <2>1. r = [k \in 0 .. m |-> r[k]]
        OBVIOUS
    <2>2. ASSUME NEW k \in 0 .. m
          PROVE  r[k] = IF k = 0 THEN b ELSE CollapseBlock(r[k - 1], k - 1)
        <3>1. CASE k = m
            <4>1. k - 1 \in 0 .. m /\ k - 1 # m /\ k # 0
                BY <1>2, <1>3, <3>1
            <4> QED  BY <3>1, <4>1
        <3>2. CASE k # m
            <4>1. k \in 0 .. m - 1 /\ (k # 0 => k - 1 \in 0 .. m /\ k - 1 # m)
                BY <1>3, <3>2
            <4>2. r[k] = s[k] /\ (k # 0 => r[k - 1] = s[k - 1])
                BY <3>2, <4>1
            <4> QED  BY <1>4, <4>1, <4>2 DEF AreCollapsed
        <3> QED  BY <3>1, <3>2
    <2> HIDE DEF r
    <2> QED  BY <2>1, <2>2 DEF AreCollapsed
<1> QED  BY <1>1, <1>3, <1>5

LEMMA CollapseIs ==
    ASSUME NEW b, NEW n, n = Cardinality(DOMAIN b), n \in Nat
    PROVE  \E g : AreCollapsed(g, b, n) /\ CollapseTryAllocRetry(b) = g[n]
<1> DEFINE Step(g, k) == IF k = 0 THEN b ELSE CollapseBlock(g[k - 1], k - 1)
           Eq(g) == g = [k \in 0 .. n |-> Step(g, k)]
<1>1. PICK s : AreCollapsed(s, b, n)
    BY CollapsedExist
<1>2. CollapseTryAllocRetry(b) = (CHOOSE g : Eq(g))[n]
    BY DEF CollapseTryAllocRetry
<1>3. Eq(s)
    <2>1. \A k \in 0 .. n : s[k] = Step(s, k)
        BY <1>1 DEF AreCollapsed
    <2>2. s = [k \in 0 .. n |-> s[k]]
        BY <1>1 DEF AreCollapsed
    <2> HIDE DEF Step
    <2> QED  BY <2>1, <2>2
<1>4. PICK g : g = (CHOOSE h : Eq(h)) /\ Eq(g)
    <2> HIDE DEF Eq
    <2> QED  BY <1>3
<1>5. AreCollapsed(g, b, n)
    <2>1. g = [k \in 0 .. n |-> g[k]] /\ \A k \in 0 .. n : g[k] = Step(g, k)
        <3> HIDE DEF Step
        <3> QED  BY <1>4
    <2> QED  BY <2>1 DEF AreCollapsed
<1> QED  BY <1>2, <1>4, <1>5

LEMMA CollapseLinked ==
    ASSUME NEW m \in Nat, NEW b, AreLinked(b, m)
    PROVE  AreLinked(CollapseTryAllocRetry(b), m)
<1> DEFINE n == Cardinality(DOMAIN b)
<1>1. n = m
    BY FS_Interval DEF AreLinked
<1>2. PICK g : AreCollapsed(g, b, n) /\ CollapseTryAllocRetry(b) = g[n]
    BY <1>1, CollapseIs
<1> HIDE DEF n
<1>3. /\ g[0] = b
      /\ \A k \in 0 .. m : k # 0 => g[k] = CollapseBlock(g[k - 1], k - 1)
    <2>1. \A k \in 0 .. m : g[k] = IF k = 0 THEN b ELSE CollapseBlock(g[k - 1], k - 1)
        BY <1>1, <1>2 DEF AreCollapsed
    <2>2. 0 \in 0 .. m
        OBVIOUS
    <2>3. g[0] = b
        BY <2>1, <2>2, Zenon
    <2>4. ASSUME NEW k \in 0 .. m, k # 0
          PROVE  g[k] = CollapseBlock(g[k - 1], k - 1)
        BY <2>1, <2>4, Zenon
    <2> QED  BY <2>3, <2>4
<1> DEFINE T == {k \in 0 .. m : ~ AreLinked(g[k], m)}
<1>4. T = {}
    <2> SUFFICES ASSUME T # {} PROVE FALSE
        OBVIOUS
    <2>1. PICK j \in T : \A y \in T : j <= y
        <3>1. T \subseteq Nat
            OBVIOUS
        <3> HIDE DEF T
        <3> QED  BY <3>1, LeastNat
    <2>2. j # 0
        BY <1>3, <2>1
    <2>3. j \in 0 .. m /\ j - 1 \in 0 .. m /\ j - 1 \in 0 .. m - 1 /\ j - 1 \notin T
        BY <2>1, <2>2
    <2>4. AreLinked(g[j - 1], m)
        BY <2>3
    <2>5. j - 1 \in DOMAIN g[j - 1]
        BY <2>3, <2>4 DEF AreLinked
    <2>6. AreLinked(g[j], m)
        BY <1>3, <2>2, <2>3, <2>4, <2>5, BlockCollapsed
    <2> QED  BY <2>1, <2>6
<1>5. m \in 0 .. m
    OBVIOUS
<1> QED  BY <1>1, <1>2, <1>4, <1>5

-----------------------------------------------------------------------------
(* The graph of the earlier backend.                                       *)

\* Both take the same positions for the first of a block.
LEMMA StartsAreLeaders ==
    ASSUME NEW f, IsProgram(f)
    PROVE  BlockStarts(f) = Leaders(f)
<1>1. DOMAIN f = 1 .. Len(f) /\ Len(f) \in Nat \ {0}
    BY SequenceDomain DEF IsProgram
<1>2. \A s : ToSet(s) = Items(s)
    BY DEF ToSet, Items
<1>3. \A i \in DOMAIN f : ClassifyTerminator(f[i]) # "FALL_THROUGH" <=> IsControlInsn(f[i])
    BY DEF ClassifyTerminator, IsControlInsn, IsExit, IsIndirect, IsBranch
<1>4. \A i \in DOMAIN f : Items(f[i].targets) \subseteq 0 .. Len(f)
    BY DEF IsProgram
<1>5. \A i \in DOMAIN f : IsExit(f[i]) => Items(InsnTargets(f[i])) = {-1}
    BY EmptyAndSingle DEF InsnTargets, ExitBlock
<1>6. \A i \in DOMAIN f : IsBranch(f[i]) => InsnTargets(f[i]) = f[i].targets /\ ~ IsExit(f[i])
    BY DEF InsnTargets, IsExit, IsBranch
<1>7. ASSUME NEW p \in DOMAIN f
      PROVE  p \in Starts(f) <=> p \in BranchTargets(f) \/ p \in {i \in 2 .. Len(f) :
                                     ClassifyTerminator(f[i - 1]) # "FALL_THROUGH"}
    <2>1. p \in Starts(f) <=> \/ \E i \in Controls(f) : p = i + 1
                              \/ \E i \in Controls(f) : p \in Items(InsnTargets(f[i]))
        BY <1>2 DEF Starts
    <2>2. p \in BranchTargets(f) <=> \E i \in DOMAIN f : IsBranch(f[i]) /\ p \in Items(f[i].targets)
        <3>1. p # Nowhere
            BY <1>1 DEF Nowhere
        <3> QED  BY <1>2, <3>1 DEF BranchTargets
    <2>3. (\E i \in Controls(f) : p = i + 1)
            <=> p \in {i \in 2 .. Len(f) : ClassifyTerminator(f[i - 1]) # "FALL_THROUGH"}
        <3>1. p \in 2 .. Len(f) => p - 1 \in DOMAIN f /\ p = (p - 1) + 1
            BY <1>1
        <3>2. \A i \in DOMAIN f : p = i + 1 => p \in 2 .. Len(f) /\ p - 1 = i
            BY <1>1
        <3> QED  BY <1>3, <3>1, <3>2 DEF Controls
    <2>4. (\E i \in Controls(f) : p \in Items(InsnTargets(f[i])))
            <=> \E i \in DOMAIN f : IsBranch(f[i]) /\ p \in Items(f[i].targets)
        <3>1. p # -1
            BY <1>1
        <3>2. ASSUME NEW i \in Controls(f), p \in Items(InsnTargets(f[i]))
              PROVE  i \in DOMAIN f /\ IsBranch(f[i]) /\ p \in Items(f[i].targets)
            BY <1>5, <1>6, <3>1, <3>2 DEF Controls, IsControlInsn
        <3>3. ASSUME NEW i \in DOMAIN f, IsBranch(f[i]), p \in Items(f[i].targets)
              PROVE  i \in Controls(f) /\ p \in Items(InsnTargets(f[i]))
            BY <1>6, <3>3 DEF Controls, IsControlInsn
        <3> QED  BY <3>2, <3>3
    <2> QED  BY <2>1, <2>2, <2>3, <2>4
<1>8. Leaders(f) \subseteq DOMAIN f
    BY <1>1, LeadersAre
<1>9. 1 \in DOMAIN f
    BY <1>1
<1> QED  BY <1>7, <1>8, <1>9 DEF Leaders, BlockStarts

\* Where a label leads: the block it begins, or out.
LeadsBy(at, b, f) ==
    /\ at[ExitBlock] = ExitBlock
    /\ \A p \in Leaders(f) : at[p] \in DOMAIN b /\ b[at[p]].first = p

EdgesOf(b, k, at) ==
    LET last == Last(b[k].instructions)
    IN  (IF k + 1 \in DOMAIN b THEN FallEdge(last, k + 1) ELSE <<>>)
            \o (IF IsControlInsn(last) THEN TargetEdges(last, at) ELSE <<>>)

\* g is a graph of the earlier backend with the blocks of b.
IsLegacyOf(g, b, f) ==
    /\ DOMAIN g = DOMAIN b \cup {StartBlock, ExitBlock}
    /\ g[StartBlock] = [code |-> <<>>, succs |-> <<Edge("next", 0, 0)>>]
    /\ g[ExitBlock] = [code |-> <<>>, succs |-> <<>>]
    /\ \E at : /\ LeadsBy(at, b, f)
               /\ \A k \in DOMAIN b : g[k].succs = EdgesOf(b, k, at)
    /\ \A k \in DOMAIN b :
          /\ g[k].code = [i \in 1 .. Len(b[k].instructions) |-> b[k].first + i - 1]
          /\ EndOf(b, k) \in b[k].first .. Len(f) /\ b[k].first \in 1 .. Len(f)
          /\ IsSequence(b[k].instructions)
          /\ b[k].instructions = SubSeq(f, b[k].first, EndOf(b, k))

\* The graph of the earlier backend has the blocks of a finished graph.
LEMMA LegacyBlocks ==
    ASSUME NEW f, IsProgram(f), NEW b, NEW n, WiredUpTo(b, f, n)
    PROVE  IsLegacyOf(BuildLegacyCfg(f), b, f)
<1> DEFINE start == Append(Sorted(BlockStarts(f), Len(f)), Len(f) + 1)
           ids == 0 .. Len(start) - 2
           at == [l \in BlockStarts(f) \cup {ExitBlock} |->
                     IF l = ExitBlock THEN l ELSE CHOOSE k \in ids : start[k + 1] = l]
           last(k) == f[start[k + 2] - 1]
           falls(k) == IF k + 1 \in ids THEN FallEdge(last(k), k + 1) ELSE <<>>
           jumps(k) == IF IsControlInsn(last(k)) THEN TargetEdges(last(k), at) ELSE <<>>
           g == BuildLegacyCfg(f)
           p == Partition(f, Leaders(f))
<1>1. start = Append(Sorted(Leaders(f), Len(f)), Len(f) + 1)
    BY StartsAreLeaders
<1>2. g = [k \in ids \cup {StartBlock, ExitBlock} |->
            CASE k = StartBlock -> [code |-> <<>>, succs |-> <<Edge("next", 0, 0)>>]
              [] k = ExitBlock  -> [code |-> <<>>, succs |-> <<>>]
              [] OTHER -> [code  |-> [i \in 1 .. start[k + 2] - start[k + 1] |->
                                         start[k + 1] + i - 1],
                           succs |-> falls(k) \o jumps(k)]]
    BY DEF BuildLegacyCfg
<1>3. /\ DOMAIN p = ids
      /\ \A k \in ids : /\ p[k].first = start[k + 1]
                        /\ p[k].instructions = SubSeq(f, start[k + 1], start[k + 2] - 1)
    BY <1>1 DEF Partition
<1>4. /\ Len(start) - 1 \in Nat /\ start[Len(start)] = Len(f) + 1
    <2> DEFINE s == Sorted(Leaders(f), Len(f))
    <2>1. Len(f) \in Nat /\ Leaders(f) \subseteq 1 .. Len(f)
        BY SequenceDomain, LeadersAre DEF IsProgram
    <2>2. IsSequence(s)
        BY <2>1, SortedMembers DEF Ascends
    <2>3. start = Append(s, Len(f) + 1)
        BY <1>1
    <2> HIDE DEF s, start
    <2>4. /\ Len(start) = Len(s) + 1 /\ Len(s) \in Nat /\ start[Len(s) + 1] = Len(f) + 1
        BY <2>2, <2>3, AppendItem
    <2> QED  BY <2>4
<1> HIDE DEF start, g, p
<1>5. /\ DOMAIN b = ids /\ \E m \in Nat \ {0} : ids = 0 .. m - 1
      /\ \A k \in ids : /\ b[k].first = start[k + 1]
                        /\ b[k].instructions = SubSeq(f, start[k + 1], start[k + 2] - 1)
    BY <1>3 DEF WiredUpTo, SameBlocks, AreBlocks, p
<1>6. \A k \in ids :
         /\ b[k].first \in Leaders(f) /\ EndOf(b, k) \in b[k].first .. Len(f)
         /\ IsSequence(b[k].instructions) /\ Last(b[k].instructions) = f[EndOf(b, k)]
         /\ k + 1 \in ids => b[k + 1].first = EndOf(b, k) + 1
         /\ k + 1 \notin ids => EndOf(b, k) = Len(f)
    BY <1>5 DEF WiredUpTo, AreBlocks
<1>7. Leaders(f) \subseteq 1 .. Len(f) /\ Len(f) \in Nat
    BY LeadersAre, SequenceDomain DEF IsProgram
<1>8. ASSUME NEW k \in ids
      PROVE  /\ start[k + 2] = EndOf(b, k) + 1
             /\ start[k + 2] - 1 = EndOf(b, k)
             /\ start[k + 2] - start[k + 1] = Len(b[k].instructions)
             /\ k # StartBlock /\ k # ExitBlock
    <2>1. /\ b[k].first \in 1 .. Len(f) /\ Len(b[k].instructions) \in Nat /\ k \in Nat
          /\ b[k].first = start[k + 1]
        BY <1>5, <1>6, <1>7, SequenceDomain
    <2>4. EndOf(b, k) = start[k + 1] + Len(b[k].instructions) - 1 /\ start[k + 1] \in Int
        BY <1>7, <2>1 DEF EndOf
    <2>5. k # StartBlock /\ k # ExitBlock
        BY <2>1 DEF StartBlock, ExitBlock
    <2>2. CASE k + 1 \in ids
        <3>1. start[(k + 1) + 1] = EndOf(b, k) + 1
            BY <1>5, <1>6, <2>2
        <3>2. (k + 1) + 1 = k + 2
            OBVIOUS
        <3>3. start[k + 2] = EndOf(b, k) + 1
            BY <3>1, <3>2
        <3> QED  BY <2>1, <2>4, <2>5, <3>3
    <2>3. CASE k + 1 \notin ids
        <3>1. k + 2 = Len(start)
            BY <1>4, <2>3
        <3>2. start[k + 2] = EndOf(b, k) + 1
            BY <1>4, <1>6, <2>3, <3>1
        <3> QED  BY <2>1, <2>4, <2>5, <3>2
    <2> QED  BY <2>2, <2>3
<1>9. LeadsBy(at, b, f)
    <2>1. BlockStarts(f) = Leaders(f)
        BY StartsAreLeaders
    <2>2. ASSUME NEW l \in Leaders(f) PROVE at[l] \in DOMAIN b /\ b[at[l]].first = l
        <3>1. \E k \in DOMAIN b : b[k].first = l
            BY DEF WiredUpTo, AreBlocks
        <3>2. \E k \in ids : start[k + 1] = l
            BY <1>5, <3>1
        <3>3. l # ExitBlock
            BY <1>7 DEF ExitBlock
        <3>4. at[l] = CHOOSE k \in ids : start[k + 1] = l
            BY <2>1, <3>3
        <3>5. at[l] \in ids /\ start[at[l] + 1] = l
            BY <3>2, <3>4
        <3> QED  BY <1>5, <3>5
    <2>3. at[ExitBlock] = ExitBlock
        OBVIOUS
    <2> QED  BY <2>2, <2>3 DEF LeadsBy
<1> HIDE DEF at
<1>10. \A k \in ids : last(k) = Last(b[k].instructions)
    BY <1>6, <1>8
<1>11. \A k \in ids : falls(k) \o jumps(k) = EdgesOf(b, k, at)
    BY <1>5, <1>10 DEF EdgesOf
<1>12. \A k \in ids : g[k] = [code  |-> [i \in 1 .. start[k + 2] - start[k + 1] |->
                                            start[k + 1] + i - 1],
                              succs |-> falls(k) \o jumps(k)]
    BY <1>2, <1>8
<1> HIDE DEF last, falls, jumps, ids
<1>13. \A k \in ids : /\ g[k].succs = EdgesOf(b, k, at)
                      /\ g[k].code = [i \in 1 .. Len(b[k].instructions) |-> b[k].first + i - 1]
    <2> SUFFICES ASSUME NEW k \in ids
                 PROVE  /\ g[k].succs = EdgesOf(b, k, at)
                        /\ g[k].code = [i \in 1 .. Len(b[k].instructions) |-> b[k].first + i - 1]
        OBVIOUS
    <2>1. /\ g[k].succs = falls(k) \o jumps(k)
          /\ g[k].code = [i \in 1 .. start[k + 2] - start[k + 1] |-> start[k + 1] + i - 1]
        <3> DEFINE c == [i \in 1 .. start[k + 2] - start[k + 1] |-> start[k + 1] + i - 1]
        <3>1. g[k] = [code |-> c, succs |-> falls(k) \o jumps(k)]
            BY <1>12
        <3> HIDE DEF c
        <3>2. g[k].succs = falls(k) \o jumps(k) /\ g[k].code = c
            BY <3>1
        <3> QED  BY <3>2 DEF c
    <2>2. start[k + 2] - start[k + 1] = Len(b[k].instructions) /\ start[k + 1] = b[k].first
        BY <1>5, <1>8
    <2>3. g[k].succs = EdgesOf(b, k, at)
        BY <1>11, <2>1
    <2> QED  BY <2>1, <2>2, <2>3
<1>14. DOMAIN g = DOMAIN b \cup {StartBlock, ExitBlock}
    BY <1>2, <1>5
<1>15. \A k \in ids : /\ b[k].instructions = SubSeq(f, b[k].first, EndOf(b, k))
                      /\ b[k].first \in 1 .. Len(f)
    BY <1>5, <1>6, <1>7, <1>8
<1>16. /\ g[StartBlock] = [code |-> <<>>, succs |-> <<Edge("next", 0, 0)>>]
       /\ g[ExitBlock] = [code |-> <<>>, succs |-> <<>>]
    <2>1. StartBlock # ExitBlock
        BY DEF StartBlock, ExitBlock
    <2> QED  BY <1>2, <2>1
<1> QED  BY <1>5, <1>6, <1>9, <1>13, <1>14, <1>15, <1>16 DEF g, IsLegacyOf

\* Where both backends see the same conditions, they let the same instructions
\* fall through.
LEMMA SameConditions ==
    ASSUME NEW i, ~ SeenOtherwise(i)
    PROVE  /\ FallsInGraph(i) <=> ~ IsControlInsn(i) \/ IsConditional(i)
           /\ IsBranch(i) => (IsConditional(i) <=> ~ IsUnconditional(i))
<1>1. IsBranch(i) => (IsConditional(i) <=> ~ IsUnconditional(i)) /\ ~ IsExit(i)
    BY DEF SeenOtherwise, IsBranch, IsConditional, IsUnconditional, IsBraU, IsExit, PredRegisters
<1>2. IsExit(i) => (IsConditional(i) <=> IsPredicated(i))
    BY DEF SeenOtherwise, IsExit, IsConditional, IsPredicated, IsBraU, AlwaysTruePreds
<1> QED  BY <1>1, <1>2 DEF FallsInGraph, IsControlInsn

LEMMA PairJoined == ASSUME NEW x, NEW y PROVE <<x>> \o <<y>> = <<x, y>>
<1> DEFINE u == <<x>> \o <<y>>
<1>1. Joins(u, <<x>>, <<y>>)
    BY EmptyAndSingle, ConcatItems
<1> HIDE DEF u
<1>2. IsSequence(u) /\ Len(u) = 2 /\ u[1] = x /\ u[2] = y
    <2>1. Len(<<x>>) = 1 /\ <<x>>[1] = x /\ Len(<<y>>) = 1 /\ <<y>>[1] = y
        BY EmptyAndSingle
    <2>2. 1 \in 1 .. 1 /\ 1 + 1 = 2
        OBVIOUS
    <2> QED  BY <1>1, <2>1, <2>2 DEF Joins
<1>3. u = [i \in 1 .. 2 |-> u[i]]
    <2>1. u \in [1 .. Len(u) -> Items(u)]
        BY <1>2, LenProperties DEF IsSequence
    <2> QED  BY <1>2, <2>1
<1>4. u = <<x, y>>
    BY <1>2, <1>3
<1> QED  BY <1>4 DEF u

\* The edges of a block of the earlier graph, in the order of its dictionary.
LEMMA LegacyEdges ==
    ASSUME NEW f, IsProgram(f), NEW b, NEW n, WiredUpTo(b, f, n), NEW at, LeadsBy(at, b, f),
           NEW k \in DOMAIN b, NEW last, last = Last(b[k].instructions), last \in Items(f),
           Comparable(f)
    PROVE  LET edges == EdgesOf(b, k, at)
           IN  /\ IsSequence(edges)
               /\ {e.to : e \in Items(edges)} =
                     LeadsTo(b, k) \cup (IF IsExit(last) THEN {ExitBlock} ELSE {})
               /\ IsBranch(last) /\ ~ IsIndirect(last) /\ IsConditional(last)
                  /\ k + 1 \in DOMAIN b
                  => edges = <<Edge("false", 0, k + 1), Edge("true", 0, at[last.targets[1]])>>
               /\ IsBranch(last) /\ ~ IsIndirect(last) =>
                     /\ Items(last.targets) = {last.targets[1]}
                     /\ BlocksAt(b, ToSet(last.targets)) = {at[last.targets[1]]}
<1> DEFINE edges == EdgesOf(b, k, at)
           falls == IF k + 1 \in DOMAIN b THEN FallEdge(last, k + 1) ELSE <<>>
           targets == InsnTargets(last)
           jumps == IF IsControlInsn(last) THEN TargetEdges(last, at) ELSE <<>>
           name == IF IsConditional(last) THEN "true" ELSE "next"
<1>1. edges = falls \o jumps
    BY DEF EdgesOf
<1>2. PICK i \in DOMAIN f : last = f[i]
    BY DEF Items
<1>3. /\ ~ SeenOtherwise(last)
      /\ IsControlInsn(last) => targets # <<>> /\ Items(targets) \subseteq DOMAIN f \cup {ExitBlock}
      /\ IsSequence(last.targets) /\ (IsIndirect(last) \/ Len(last.targets) <= 1)
    <2>1. IsControlInsn(last) => i \in Controls(f)
        BY <1>2 DEF Controls
    <2> QED  BY <1>2, <2>1 DEF Comparable, Buildable, IsProgram, ToSet, Items
<1>4. /\ FallsInGraph(last) <=> ~ IsControlInsn(last) \/ IsConditional(last)
      /\ IsBranch(last) => (IsConditional(last) <=> ~ IsUnconditional(last))
    BY <1>3, SameConditions
<1>5. /\ falls = IF k + 1 \in DOMAIN b /\ FallsInGraph(last)
                 THEN <<Edge(IF IsControlInsn(last) THEN "false" ELSE "next", 0, k + 1)>> ELSE <<>>
    BY <1>4 DEF FallEdge
<1>6. IsSequence(falls) /\ {e.to : e \in Items(falls)} =
         IF FallsInGraph(last) THEN {k + 1} \cap DOMAIN b ELSE {}
    <2>1. \A nm : Edge(nm, 0, k + 1).to = k + 1
        BY DEF Edge
    <2>2. CASE k + 1 \in DOMAIN b /\ FallsInGraph(last)
        <3> DEFINE e == Edge(IF IsControlInsn(last) THEN "false" ELSE "next", 0, k + 1)
        <3>1. falls = <<e>> /\ e.to = k + 1
            BY <1>5, <2>1, <2>2
        <3> HIDE DEF e, falls
        <3>2. IsSequence(falls) /\ Items(falls) = {e}
            BY <3>1, EmptyAndSingle
        <3>3. {x.to : x \in {e}} = {k + 1}
            BY <3>1
        <3> QED  BY <2>2, <3>2, <3>3
    <2>3. CASE ~ (k + 1 \in DOMAIN b /\ FallsInGraph(last))
        <3>1. falls = <<>>
            BY <1>5, <2>3
        <3> HIDE DEF falls
        <3>2. IsSequence(falls) /\ Items(falls) = {}
            BY <3>1, EmptyAndSingle
        <3> QED  BY <2>3, <3>2
    <2> QED  BY <2>2, <2>3
<1>7. IsBranch(last) => targets = last.targets /\ IsControlInsn(last) /\ ~ IsExit(last)
    BY DEF InsnTargets, IsControlInsn, IsBranch, IsExit
<1>8. IsExit(last) => targets = <<ExitBlock>>
    BY DEF InsnTargets
<1>9. IsSequence(targets)
    BY <1>3, <1>8, EmptyAndSingle DEF InsnTargets
<1>10. DOMAIN targets = 1 .. Len(targets) /\ Len(targets) \in Nat
    BY <1>9, SequenceDomain
<1>11. ASSUME IsControlInsn(last)
       PROVE  /\ IsSequence(jumps) /\ Len(jumps) = Len(targets) /\ DOMAIN jumps = 1 .. Len(targets)
              /\ \A j \in 1 .. Len(targets) : jumps[j] = Edge(name, j - 1, at[targets[j]])
    <2> DEFINE js == [j \in DOMAIN targets |-> Edge(name, j - 1, at[targets[j]])]
    <2>1. jumps = js
        BY <1>11 DEF TargetEdges
    <2>2. js = [j \in 1 .. Len(targets) |-> js[j]]
        BY <1>10
    <2>3. \A j \in 1 .. Len(targets) : js[j] = Edge(name, j - 1, at[targets[j]])
        BY <1>10
    <2> HIDE DEF js, jumps, targets
    <2>4. IsSequence(js) /\ Len(js) = Len(targets) /\ DOMAIN js = 1 .. Len(targets)
        BY <1>10, <2>2, FunctionIsSequence
    <2> QED  BY <2>1, <2>3, <2>4
<1>12. IsSequence(jumps) /\ {e.to : e \in Items(jumps)} =
          IF IsControlInsn(last) THEN {at[x] : x \in Items(targets)} ELSE {}
    <2>1. CASE IsControlInsn(last)
        <3>1. \A j \in 1 .. Len(targets) : jumps[j].to = at[targets[j]]
            <4>1. \A m, l, x : Edge(m, l, x).to = x
                BY DEF Edge
            <4> SUFFICES ASSUME NEW j \in 1 .. Len(targets) PROVE jumps[j].to = at[targets[j]]
                OBVIOUS
            <4>2. jumps[j] = Edge(name, j - 1, at[targets[j]])
                BY <1>11, <2>1
            <4> HIDE DEF jumps, targets, name
            <4>3. Edge(name, j - 1, at[targets[j]]).to = at[targets[j]]
                BY <4>1
            <4> QED  BY <4>2, <4>3
        <3>2. IsSequence(jumps) /\ DOMAIN jumps = 1 .. Len(targets)
            BY <1>11, <2>1
        <3> HIDE DEF jumps, targets
        <3>3. {e.to : e \in Items(jumps)} = {at[x] : x \in Items(targets)}
            BY <1>10, <3>1, <3>2 DEF Items
        <3> QED  BY <2>1, <3>2, <3>3
    <2>2. CASE ~ IsControlInsn(last)
        <3>1. jumps = <<>>
            BY <2>2
        <3> HIDE DEF jumps
        <3>2. IsSequence(jumps) /\ Items(jumps) = {}
            BY <3>1, EmptyAndSingle
        <3> QED  BY <2>2, <3>2
    <2> QED  BY <2>1, <2>2
<1>13. IsSequence(edges) /\ Items(edges) = Items(falls) \cup Items(jumps)
    <2> HIDE DEF falls, jumps, edges
    <2> QED  BY <1>1, <1>6, <1>12, ConcatItems, ConcatRange DEF Joins
\* A target that a block begins at.
<1>14. ASSUME IsBranch(last)
       PROVE  {at[x] : x \in Items(targets)} = BlocksAt(b, ToSet(last.targets))
    <2>1. Items(targets) \subseteq DOMAIN f
        <3>1. Items(last.targets) \subseteq 0 .. Len(f)
            BY <1>2 DEF IsProgram
        <3>2. ExitBlock \notin 0 .. Len(f)
            BY DEF ExitBlock
        <3> QED  BY <1>3, <1>7, <1>14, <3>1, <3>2
    <2>2. Items(targets) \subseteq Leaders(f)
        BY <1>2, <1>7, <1>14, <2>1, LeadersAre
    <2>3. \A x \in Items(targets) : at[x] \in DOMAIN b /\ b[at[x]].first = x
        BY <2>2 DEF LeadsBy
    <2>4. \A d, e \in DOMAIN b : b[d].first = b[e].first => d = e
        BY DEF WiredUpTo, AreBlocks
    <2>5. ToSet(last.targets) = Items(targets)
        BY <1>7, <1>14 DEF ToSet, Items
    <2> HIDE DEF targets
    <2> QED  BY <2>3, <2>4, <2>5 DEF BlocksAt
<1>15. ASSUME IsExit(last) PROVE {at[x] : x \in Items(targets)} = {ExitBlock}
    <2>1. Items(targets) = {ExitBlock}
        BY <1>8, <1>15, EmptyAndSingle
    <2> HIDE DEF targets
    <2> QED  BY <2>1 DEF LeadsBy
<1>16. {e.to : e \in Items(edges)} = LeadsTo(b, k) \cup (IF IsExit(last) THEN {ExitBlock} ELSE {})
    <2>1. {e.to : e \in Items(edges)} = {e.to : e \in Items(falls)} \cup {e.to : e \in Items(jumps)}
        <3> HIDE DEF edges, falls, jumps
        <3> QED  BY <1>13
    <2>2. IsControlInsn(last) <=> IsBranch(last) \/ IsExit(last)
        BY DEF IsControlInsn
    <2>3. LeadsTo(b, k) = (IF IsBranch(last) THEN BlocksAt(b, ToSet(last.targets)) ELSE {})
                             \cup (IF FallsInGraph(last) THEN {k + 1} \cap DOMAIN b ELSE {})
        BY DEF LeadsTo
    <2> DEFINE fallTo == {e.to : e \in Items(falls)}
               jumpTo == {e.to : e \in Items(jumps)}
               B == BlocksAt(b, ToSet(last.targets))
               J == {at[x] : x \in Items(targets)}
    <2>4. IsExit(last) => ~ IsBranch(last)
        BY <1>7
    <2>6. jumpTo = (IF IsBranch(last) THEN B ELSE {}) \cup (IF IsExit(last) THEN {ExitBlock} ELSE {})
        <3>1. CASE IsBranch(last)
            <4>1. jumpTo = B
                BY <1>7, <1>12, <1>14, <3>1
            <4> HIDE DEF jumpTo, B
            <4> QED  BY <2>4, <3>1, <4>1
        <3>2. CASE ~ IsBranch(last) /\ IsExit(last)
            <4>1. jumpTo = J
                BY <1>12, <2>2, <3>2
            <4>2. J = {ExitBlock}
                BY <1>15, <3>2
            <4> HIDE DEF jumpTo, B, J
            <4> QED  BY <3>2, <4>1, <4>2
        <3>3. CASE ~ IsBranch(last) /\ ~ IsExit(last)
            <4>1. jumpTo = {}
                BY <1>12, <2>2, <3>3
            <4> HIDE DEF jumpTo, B
            <4> QED  BY <3>3, <4>1
        <3> QED  BY <3>1, <3>2, <3>3
    <2>7. fallTo = IF FallsInGraph(last) THEN {k + 1} \cap DOMAIN b ELSE {}
        BY <1>6
    <2>8. {e.to : e \in Items(edges)} = fallTo \cup jumpTo
        BY <2>1
    <2> HIDE DEF fallTo, jumpTo, B, edges
    <2> QED  BY <2>3, <2>6, <2>7, <2>8 DEF B
<1>17. ASSUME IsBranch(last), ~ IsIndirect(last)
       PROVE  /\ Len(targets) = 1 /\ targets = last.targets
              /\ Items(last.targets) = {last.targets[1]}
              /\ BlocksAt(b, ToSet(last.targets)) = {at[last.targets[1]]}
    <2>1. targets = last.targets /\ targets # <<>>
        BY <1>3, <1>7, <1>17
    <2>2. Len(targets) = 1
        <3>1. Len(targets) # 0
            BY <1>9, <2>1, SequenceDomain
        <3>2. Len(targets) <= 1
            BY <1>3, <1>17, <2>1
        <3> HIDE DEF targets
        <3> QED  BY <1>10, <3>1, <3>2
    <2>3. DOMAIN last.targets = {1}
        BY <1>10, <2>1, <2>2
    <2>4. Items(last.targets) = {last.targets[1]}
        BY <2>3 DEF Items
    <2>5. {at[x] : x \in Items(last.targets)} = {at[last.targets[1]]}
        BY <2>4
    <2> QED  BY <1>14, <1>17, <2>1, <2>2, <2>4, <2>5
<1>18. ASSUME IsBranch(last), ~ IsIndirect(last), IsConditional(last), k + 1 \in DOMAIN b
       PROVE  edges = <<Edge("false", 0, k + 1), Edge("true", 0, at[last.targets[1]])>>
    <2> DEFINE e1 == Edge("false", 0, k + 1)
               e2 == Edge("true", 0, at[last.targets[1]])
    <2>1. falls = <<e1>>
        BY <1>4, <1>5, <1>7, <1>18
    <2>2. jumps = <<e2>>
        <3>1. IsSequence(jumps) /\ DOMAIN jumps = {1} /\ Len(jumps) = 1
            BY <1>7, <1>11, <1>17, <1>18
        <3>2. jumps[1] = Edge(name, 1 - 1, at[targets[1]])
            BY <1>7, <1>11, <1>17, <1>18
        <3>3. jumps[1] = e2
            BY <1>17, <1>18, <3>2
        <3> HIDE DEF jumps, e2
        <3>4. jumps = [j \in 1 .. 1 |-> jumps[j]]
            <4>1. jumps \in [1 .. Len(jumps) -> Items(jumps)]
                BY <3>1, LenProperties DEF IsSequence
            <4> QED  BY <3>1, <4>1
        <3> QED  BY <3>3, <3>4
    <2> HIDE DEF e1, e2, falls, jumps, edges
    <2>3. edges = <<e1, e2>>
        BY <1>1, <2>1, <2>2, PairJoined
    <2> QED  BY <2>3 DEF e1, e2
<1> HIDE DEF edges
<1> QED  BY <1>13, <1>16, <1>17, <1>18 DEF edges
=============================================================================
