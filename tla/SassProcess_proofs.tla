------------------------- MODULE SassProcess_proofs -------------------------
(***************************************************************************)
(* Proofs about the emitted process, for every launch and every set of     *)
(* definitions, with facts about the geometry of a launch and about sums   *)
(* over a CTA.  Induction over the naturals is done by taking a least      *)
(* counterexample.                                                         *)
(***************************************************************************)
EXTENDS SassProcess, Lemmas

-----------------------------------------------------------------------------
(* SumUpTo.                                                                *)

\* The equations that define the prefix sums.
ArePrefixSums(s, f, n) ==
    /\ s \in [0 .. n -> Int]
    /\ s[0] = 0
    /\ \A k \in 1 .. n : s[k] = s[k - 1] + f[k - 1]

\* They have a solution: a shortest function without one would be one longer
\* than a function with one.
LEMMA PrefixSumsExist ==
  ASSUME NEW n \in Nat, NEW f \in [0 .. (n - 1) -> Int]
  PROVE  \E s : ArePrefixSums(s, f, n)
<1> DEFINE T == {m \in Nat : m <= n /\ ~ \E s : ArePrefixSums(s, f, m)}
<1> SUFFICES ASSUME ~ \E s : ArePrefixSums(s, f, n) PROVE FALSE
  OBVIOUS
<1>1. n \in T
  OBVIOUS
<1>2. PICK m \in T : \A y \in T : m <= y
  BY LeastNat, <1>1
<1>3. m # 0
  <2>1. ArePrefixSums([k \in 0 .. 0 |-> 0], f, 0)
    BY DEF ArePrefixSums
  <2> QED BY <2>1
<1>4. m - 1 \in Nat /\ m - 1 <= n /\ m - 1 \notin T
  BY <1>2, <1>3
<1>5. PICK s : ArePrefixSums(s, f, m - 1)
  BY <1>4
<1> DEFINE r == [k \in 0 .. m |-> IF k = m THEN s[m - 1] + f[m - 1] ELSE s[k]]
<1>6. ArePrefixSums(r, f, m)
  <2>1. m \in Nat /\ m <= n /\ m - 1 \in 0 .. (n - 1)
    BY <1>3
  <2>2. s \in [0 .. (m - 1) -> Int] /\ f[m - 1] \in Int
    BY <1>5, <2>1 DEF ArePrefixSums
  <2>3. r \in [0 .. m -> Int]
    BY <2>1, <2>2, <1>3
  <2>4. r[0] = 0
    BY <2>1, <1>3, <1>5 DEF ArePrefixSums
  <2>5. ASSUME NEW k \in 1 .. m PROVE r[k] = r[k - 1] + f[k - 1]
    <3>1. CASE k = m
      BY <3>1, <2>1, <1>3
    <3>2. CASE k # m
      BY <3>2, <2>1, <1>5, <1>3 DEF ArePrefixSums
    <3> QED BY <3>1, <3>2
  <2> QED BY <2>3, <2>4, <2>5 DEF ArePrefixSums
<1> QED BY <1>6

\* The recursive function solves its equations.
LEMMA PrefixSumsDef ==
  ASSUME NEW n \in Nat, NEW f \in [0 .. (n - 1) -> Int]
  PROVE  ArePrefixSums(PrefixSums(f, n), f, n)
<1> DEFINE Eq(g) == g = [k \in 0 .. n |-> IF k = 0 THEN 0 ELSE g[k - 1] + f[k - 1]]
<1>1. PICK s : ArePrefixSums(s, f, n)
  BY PrefixSumsExist
<1>2. Eq(s)
  BY <1>1 DEF ArePrefixSums
<1>3. Eq(PrefixSums(f, n))
  <2>1. PrefixSums(f, n) = CHOOSE g : Eq(g)
    BY DEF PrefixSums
  <2> HIDE DEF Eq
  <2> QED BY <2>1, <1>2
<1>4. ASSUME NEW g, Eq(g) PROVE ArePrefixSums(g, f, n)
  <2>1. g[0] = 0 /\ \A k \in 1 .. n : g[k] = g[k - 1] + f[k - 1]
    BY <1>4
  <2> DEFINE T == {k \in 0 .. n : g[k] # s[k]}
  <2>2. T = {}
    <3> SUFFICES ASSUME T # {} PROVE FALSE
      OBVIOUS
    <3>0. T \subseteq Nat
      OBVIOUS
    <3>1. PICK k \in T : \A y \in T : k <= y
      <4> HIDE DEF T
      <4> QED BY <3>0, LeastNat
    <3>2. k # 0
      BY <2>1, <1>1 DEF ArePrefixSums
    <3>3. k \in 1 .. n /\ k - 1 \in 0 .. n /\ k - 1 \notin T
      BY <3>1, <3>2
    <3>4. g[k - 1] = s[k - 1]
      BY <3>3
    <3>5. g[k] = s[k]
      BY <3>3, <3>4, <2>1, <1>1 DEF ArePrefixSums
    <3> QED BY <3>5
  <2>3. \A k \in 0 .. n : g[k] \in Int
    BY <2>2, <1>1 DEF ArePrefixSums
  <2>4. g \in [0 .. n -> Int]
    <3> DEFINE h == [k \in 0 .. n |-> IF k = 0 THEN 0 ELSE g[k - 1] + f[k - 1]]
    <3>1. g = h
      BY <1>4
    <3>2. DOMAIN h = 0 .. n
      OBVIOUS
    <3>3. g = [k \in 0 .. n |-> g[k]]
      <4>1. h = [k \in 0 .. n |-> h[k]]
        OBVIOUS
      <4> HIDE DEF h
      <4> QED BY <4>1, <3>1
    <3> HIDE DEF h
    <3> QED BY <3>3, <2>3
  <2> QED BY <2>1, <2>4 DEF ArePrefixSums
<1> QED BY <1>3, <1>4

\* At most one function solves the equations.
LEMMA PrefixSumsUnique ==
  ASSUME NEW n \in Nat, NEW f, NEW r, NEW s,
         ArePrefixSums(r, f, n), ArePrefixSums(s, f, n)
  PROVE  r = s
<1> DEFINE T == {k \in 0 .. n : r[k] # s[k]}
<1>1. T = {}
  <2> SUFFICES ASSUME T # {} PROVE FALSE
    OBVIOUS
  <2>0. T \subseteq Nat
    OBVIOUS
  <2>1. PICK k \in T : \A y \in T : k <= y
    <3> HIDE DEF T
    <3> QED BY <2>0, LeastNat
  <2>2. k # 0
    BY DEF ArePrefixSums
  <2>3. k \in 1 .. n /\ k - 1 \in 0 .. n /\ k - 1 \notin T
    BY <2>1, <2>2
  <2> QED BY <2>3 DEF ArePrefixSums
<1>2. \A k \in 0 .. n : r[k] = s[k]
  BY <1>1
<1>3. r \in [0 .. n -> Int] /\ s \in [0 .. n -> Int]
  BY DEF ArePrefixSums
<1> QED BY <1>2, <1>3

\* The sum of integers is an integer.
LEMMA SumType ==
  ASSUME NEW n \in Nat, NEW f \in [0 .. (n - 1) -> Int]
  PROVE  SumUpTo(f, n) \in Int
BY PrefixSumsDef DEF ArePrefixSums, SumUpTo

\* Changing one value changes the sum by the difference.
LEMMA SumUpdate ==
  ASSUME NEW n \in Nat, NEW f \in [0 .. (n - 1) -> Int],
         NEW i \in 0 .. (n - 1), NEW v \in Int
  PROVE  SumUpTo([f EXCEPT ![i] = v], n) = SumUpTo(f, n) + (v - f[i])
<1> DEFINE g == [f EXCEPT ![i] = v]
           s == PrefixSums(f, n)
           r == [k \in 0 .. n |-> IF k <= i THEN s[k] ELSE s[k] + (v - f[i])]
<1>1. g \in [0 .. (n - 1) -> Int] /\ f[i] \in Int
  OBVIOUS
<1>2. ArePrefixSums(s, f, n)
  BY PrefixSumsDef
<1> HIDE DEF s
<1>3. ArePrefixSums(r, g, n)
  <2>1. s \in [0 .. n -> Int]
    BY <1>2 DEF ArePrefixSums
  <2>2. r \in [0 .. n -> Int]
    BY <1>1, <2>1
  <2>3. r[0] = 0
    BY <1>2 DEF ArePrefixSums
  <2>4. ASSUME NEW k \in 1 .. n PROVE r[k] = r[k - 1] + g[k - 1]
    <3>1. /\ k \in 0 .. n /\ k - 1 \in 0 .. n /\ k - 1 \in 0 .. (n - 1)
          /\ s[k] = s[k - 1] + f[k - 1]
          /\ s[k] \in Int /\ s[k - 1] \in Int /\ f[k - 1] \in Int
      BY <1>2, <2>1 DEF ArePrefixSums
    <3>2. CASE k <= i
      BY <3>1, <3>2
    <3>3. CASE k = i + 1
      BY <3>1, <3>3, <1>1
    <3>4. CASE k > i + 1
      BY <3>1, <3>4, <1>1
    <3> QED BY <3>2, <3>3, <3>4
  <2> QED BY <2>2, <2>3, <2>4 DEF ArePrefixSums
<1>4. ArePrefixSums(PrefixSums(g, n), g, n)
  BY <1>1, PrefixSumsDef
<1>5. PrefixSums(g, n) = r
  BY <1>3, <1>4, PrefixSumsUnique
<1>6. r[n] = s[n] + (v - f[i])
  OBVIOUS
<1> QED BY <1>5, <1>6 DEF SumUpTo, s

\* The sum is monotone in the function.
LEMMA SumLe ==
  ASSUME NEW n \in Nat,
         NEW f \in [0 .. (n - 1) -> Int], NEW g \in [0 .. (n - 1) -> Int],
         \A k \in 0 .. (n - 1) : f[k] <= g[k]
  PROVE  SumUpTo(f, n) <= SumUpTo(g, n)
<1> DEFINE r == PrefixSums(f, n)
           s == PrefixSums(g, n)
           T == {k \in 0 .. n : ~ (r[k] <= s[k])}
<1>1. ArePrefixSums(r, f, n) /\ ArePrefixSums(s, g, n)
  BY PrefixSumsDef
<1> HIDE DEF r, s
<1>2. T = {}
  <2> SUFFICES ASSUME T # {} PROVE FALSE
    OBVIOUS
  <2>0. T \subseteq Nat
    OBVIOUS
  <2>1. PICK k \in T : \A y \in T : k <= y
    <3> HIDE DEF T
    <3> QED BY <2>0, LeastNat
  <2>2. k # 0
    BY <1>1 DEF ArePrefixSums
  <2>3. k \in 1 .. n /\ k - 1 \in 0 .. n /\ k - 1 \notin T /\ k - 1 \in 0 .. (n - 1)
    BY <2>1, <2>2
  <2>4. r[k - 1] <= s[k - 1] /\ f[k - 1] <= g[k - 1]
    BY <2>3
  <2>5. r[k] = r[k - 1] + f[k - 1] /\ s[k] = s[k - 1] + g[k - 1]
    BY <1>1, <2>3 DEF ArePrefixSums
  <2>6. /\ r[k - 1] \in Int /\ s[k - 1] \in Int
        /\ f[k - 1] \in Int /\ g[k - 1] \in Int
    BY <1>1, <2>3 DEF ArePrefixSums
  <2>7. r[k] <= s[k]
    BY <2>4, <2>5, <2>6
  <2> QED BY <2>7
<1> QED BY <1>2 DEF SumUpTo, r, s

-----------------------------------------------------------------------------
(* Threads and CTAs.                                                       *)

\* The block index of a thread is the number of a CTA.
LEMMA BlockOfThread == ASSUME NEW t \in Thread PROVE ThreadToBlockIndex[t] \in CTA
<1>1. NumCTAs \in Nat /\ NumCTAs > 0 /\ BlockSize \in Nat /\ BlockSize > 0
  BY GridAssumption
<1>2. t \in Nat /\ t < NumCTAs * BlockSize
  BY <1>1 DEF Thread, NumThreads
<1> DEFINE q == t \div BlockSize
<1>3. q \in Int /\ BlockSize * q <= t /\ t < BlockSize * q + BlockSize
  BY <1>1, <1>2
<1> HIDE DEF q
<1>4. 0 <= q
  <2>1. CASE q <= -1
    <3>1. BlockSize * q + BlockSize <= 0
      BY <1>1, <1>3, <2>1
    <3> QED BY <3>1, <1>1, <1>2, <1>3
  <2> QED BY <2>1, <1>3
<1>5. q <= NumCTAs - 1
  <2>1. CASE q >= NumCTAs
    <3>1. BlockSize * q >= BlockSize * NumCTAs
      BY <1>1, <1>3, <2>1
    <3> QED BY <3>1, <1>1, <1>2, <1>3
  <2> QED BY <2>1, <1>1, <1>3
<1> QED BY <1>1, <1>3, <1>4, <1>5 DEF q, CTA, ThreadToBlockIndex

\* Threads are the naturals below a natural.
LEMMA ThreadRange == NumThreads \in Nat /\ Thread = 0 .. (NumThreads - 1)
<1>1. NumCTAs \in Nat /\ BlockSize \in Nat
  BY GridAssumption
<1>2. NumCTAs * BlockSize \in Nat
  BY <1>1
<1> QED BY <1>2 DEF NumThreads, Thread

\* The sum of integers over a CTA is an integer.
LEMMA CtaSumType ==
  ASSUME NEW h \in [Thread -> Int], NEW b
  PROVE  CtaSum(h, b) \in Int
<1> DEFINE f == [t \in Thread |-> IF ThreadToBlockIndex[t] = b THEN h[t] ELSE 0]
<1>1. f \in [0 .. (NumThreads - 1) -> Int]
  BY ThreadRange
<1> HIDE DEF f
<1>2. SumUpTo(f, NumThreads) \in Int
  BY <1>1, ThreadRange, SumType
<1> QED BY <1>2 DEF CtaSum, f

\* A change of one thread's value shows in the sum of its CTA, and only there.
LEMMA CtaSumUpdate ==
  ASSUME NEW h \in [Thread -> Int], NEW g \in [Thread -> Int], NEW t \in Thread,
         \A u \in Thread : u # t => g[u] = h[u], NEW b
  PROVE  /\ ThreadToBlockIndex[t] = b => CtaSum(g, b) = CtaSum(h, b) + (g[t] - h[t])
         /\ ThreadToBlockIndex[t] # b => CtaSum(g, b) = CtaSum(h, b)
<1> DEFINE Part(k) == [u \in Thread |-> IF ThreadToBlockIndex[u] = b THEN k[u] ELSE 0]
           v == IF ThreadToBlockIndex[t] = b THEN g[t] ELSE 0
<1>1. Part(h) \in [0 .. (NumThreads - 1) -> Int] /\ t \in 0 .. (NumThreads - 1)
  BY ThreadRange
<1>2. Part(g) = [Part(h) EXCEPT ![t] = v]
  OBVIOUS
<1>3. /\ v \in Int
      /\ ThreadToBlockIndex[t] = b => v - Part(h)[t] = g[t] - h[t]
      /\ ThreadToBlockIndex[t] # b => v - Part(h)[t] = 0
  OBVIOUS
<1>4. CtaSum(g, b) = SumUpTo(Part(g), NumThreads) /\ CtaSum(h, b) = SumUpTo(Part(h), NumThreads)
  BY DEF CtaSum
<1> HIDE DEF Part, v
<1>5. SumUpTo([Part(h) EXCEPT ![t] = v], NumThreads) =
          SumUpTo(Part(h), NumThreads) + (v - Part(h)[t])
  BY <1>1, <1>3, ThreadRange, SumUpdate
<1>6. CtaSum(h, b) \in Int
  BY CtaSumType
<1> QED BY <1>2, <1>3, <1>4, <1>5, <1>6

\* The sum over a CTA is monotone.
LEMMA CtaSumLe ==
  ASSUME NEW h \in [Thread -> Int], NEW g \in [Thread -> Int], NEW b,
         \A t \in Thread : h[t] <= g[t]
  PROVE  CtaSum(h, b) <= CtaSum(g, b)
<1> DEFINE Part(k) == [u \in Thread |-> IF ThreadToBlockIndex[u] = b THEN k[u] ELSE 0]
<1>1. /\ Part(h) \in [0 .. (NumThreads - 1) -> Int]
      /\ Part(g) \in [0 .. (NumThreads - 1) -> Int]
  BY ThreadRange
<1>2. \A k \in 0 .. (NumThreads - 1) : Part(h)[k] <= Part(g)[k]
  BY ThreadRange
<1>3. CtaSum(g, b) = SumUpTo(Part(g), NumThreads) /\ CtaSum(h, b) = SumUpTo(Part(h), NumThreads)
  BY DEF CtaSum
<1> HIDE DEF Part
<1> QED BY <1>1, <1>2, <1>3, ThreadRange, SumLe

\* The gap between two sums over a CTA is at least the gap of any one thread.
LEMMA CtaSumGap ==
  ASSUME NEW h \in [Thread -> Int], NEW g \in [Thread -> Int],
         \A u \in Thread : h[u] <= g[u], NEW t \in Thread
  PROVE  CtaSum(h, ThreadToBlockIndex[t]) + (g[t] - h[t]) <= CtaSum(g, ThreadToBlockIndex[t])
<1> DEFINE b == ThreadToBlockIndex[t]
           k == [h EXCEPT ![t] = g[t]]
<1>1. k \in [Thread -> Int] /\ \A u \in Thread : k[u] <= g[u]
  OBVIOUS
<1>2. CtaSum(k, b) = CtaSum(h, b) + (g[t] - h[t])
  <2>1. k[t] = g[t] /\ \A u \in Thread : u # t => k[u] = h[u]
    OBVIOUS
  <2> HIDE DEF k
  <2> QED BY <1>1, <2>1, CtaSumUpdate
<1> HIDE DEF k
<1>3. CtaSum(k, b) <= CtaSum(g, b)
  BY <1>1, CtaSumLe
<1> QED BY <1>2, <1>3

-----------------------------------------------------------------------------
(* The steps of the process.                                               *)

\* Every definition has one of the shapes, with the fields of its kind.
LEMMA DefinitionFields ==
  ASSUME NEW d \in Definitions
  PROVE  /\ d.kind \in {"stutter", "setp", "inc", "dec"} => d.to \in Label
         /\ d.kind \in {"inc", "dec"} => d.count \in RegCount /\ d.count \in Nat
         /\ d.kind = "setp" => d.addr \in Addr
         /\ d.kind = "branch" => d.taken \in Label /\ d.fall \in Label
         /\ d.kind = "brx" => d.targets \subseteq Label
<1>1. d \in DefinitionType
  BY ProgramAssumption
<1>2. RegCount \subseteq Nat
  BY GridAssumption
<1> QED BY <1>1, <1>2 DEF DefinitionType

\* The type invariant, with the counts as integers.
LEMMA RegisterTypes ==
  ASSUME TypeOK
  PROVE  /\ numRegThread \in [Thread -> Int] /\ numRegThread \in [Thread -> Nat]
         /\ BlockToRegPoolCount \in [CTA -> Int]
<1>1. RegCount \cup {InitReg} \subseteq Nat
  BY GridAssumption
<1>2. numRegThread \in [Thread -> RegCount \cup {InitReg}] /\ BlockToRegPoolCount \in [CTA -> Int]
  BY DEF TypeOK
<1>3. \A t \in Thread : numRegThread[t] \in Nat
  BY <1>1, <1>2
<1> QED BY <1>2, <1>3

\* The type invariant is inductive.
LEMMA TypeOKStep == TypeOK /\ [Next]_vars => TypeOK'
<1> SUFFICES ASSUME TypeOK, [Next]_vars PROVE TypeOK'
  OBVIOUS
<1>1. CASE UNCHANGED vars
  BY <1>1 DEF TypeOK, vars
<1>2. ASSUME NEW t \in Thread, NEW d \in Definitions, StepBy(t, d) PROVE TypeOK'
  <2>1. CASE Stutter(t, d)
    BY <2>1, DefinitionFields DEF TypeOK, Stutter, Goto, UnchangedRegisters
  <2>2. CASE SetPredicate(t, d)
    BY <2>2, DefinitionFields DEF TypeOK, SetPredicate, Goto, UnchangedRegisters
  <2>3. CASE TryAlloc(t, d)
    <3>1. /\ d.to \in Label /\ d.count \in RegCount /\ d.count \in Int
          /\ ThreadToBlockIndex[t] \in CTA
      BY <2>3, DefinitionFields, BlockOfThread DEF TryAlloc
    <3>2. \A u \in Thread : numRegThread[u] \in Int
      BY RegisterTypes
    <3> QED BY <2>3, <3>1, <3>2 DEF TypeOK, TryAlloc, IncReg, EmitSeenRegInstr, Goto
  <2>4. CASE Dealloc(t, d)
    <3>1. /\ d.to \in Label /\ d.count \in RegCount /\ d.count \in Int
          /\ ThreadToBlockIndex[t] \in CTA
      BY <2>4, DefinitionFields, BlockOfThread DEF Dealloc
    <3>2. \A u \in Thread : numRegThread[u] \in Int
      BY RegisterTypes
    <3> QED BY <2>4, <3>1, <3>2 DEF TypeOK, Dealloc, DecReg, EmitSeenRegInstr, Goto
  <2>5. CASE Branch(t, d)
    BY <2>5, DefinitionFields DEF TypeOK, Branch, Goto, UnchangedRegisters
  <2>6. CASE IndirectBranch(t, d)
    BY <2>6, DefinitionFields DEF TypeOK, IndirectBranch, Goto, UnchangedRegisters
  <2>7. CASE Stop(t, d)
    BY <2>7 DEF TypeOK, Stop, vars
  <2> QED BY <1>2, <2>1, <2>2, <2>3, <2>4, <2>5, <2>6, <2>7 DEF StepBy
<1> QED BY <1>1, <1>2 DEF Next, step

\* Every reachable state is well typed: whatever the kernel, a thread only ever
\* holds its initial registers or a count that some USETMAXREG names.
THEOREM TypeCorrect == Spec => []TypeOK
<1>1. Init => TypeOK
  BY ProgramAssumption, GridAssumption DEF Init, TypeOK, RegPerCTA
<1> QED BY <1>1, TypeOKStep, PTL DEF Spec

-----------------------------------------------------------------------------
(* Conservation of registers.                                              *)

\* The instance of RegPool has the geometry of the process.
LEMMA PoolGeometry ==
  /\ Pool!Thread = Thread /\ Pool!CTA = CTA /\ Pool!RegPerCTA = RegPerCTA
  /\ Pool!ThreadToBlockIndex = ThreadToBlockIndex
<1>1. Pool!Thread = Thread /\ Pool!CTA = CTA /\ Pool!RegPerCTA = RegPerCTA
  BY DEF Pool!Thread, Thread, Pool!NumThreads, NumThreads, Pool!CTA, CTA,
         Pool!RegPerCTA, RegPerCTA
<1> QED BY <1>1 DEF Pool!ThreadToBlockIndex, ThreadToBlockIndex

LEMMA PoolSum == ASSUME NEW h, NEW b PROVE Pool!CtaSum(h, b) = CtaSum(h, b)
BY PoolGeometry DEF Pool!CtaSum, CtaSum, Pool!NumThreads, NumThreads,
     Pool!SumUpTo, SumUpTo, Pool!PrefixSums, PrefixSums

\* Conservation in the names of the process.
LEMMA ConservationDef ==
  PoolConservation <=>
    \A b \in CTA : BlockToRegPoolCount[b] + CtaSum(numRegThread, b) =
                     RegPerCTA + CtaSum([u \in Thread |-> InitReg], b)
BY PoolGeometry, PoolSum
   DEF PoolConservation, Pool!Conservation, Pool!HeldIn, Pool!InitiallyHeldIn

\* What every step does to the registers: nothing, or one thread gets a new
\* count and the difference comes from the pool of its CTA.
LEMMA StepResizes ==
  ASSUME TypeOK, [Next]_vars
  PROVE  \/ UNCHANGED <<numRegThread, BlockToRegPoolCount>>
         \/ \E t \in Thread, d \in Definitions :
               /\ TryAlloc(t, d) \/ Dealloc(t, d)
               /\ d.count \in RegCount /\ d.count \in Nat
               /\ pcs[t] = d.at
               /\ Pool!Resize(t, d.count)
<1>1. CASE UNCHANGED vars
  BY <1>1 DEF vars
<1>2. ASSUME NEW t \in Thread, NEW d \in Definitions, StepBy(t, d)
      PROVE  \/ UNCHANGED <<numRegThread, BlockToRegPoolCount>>
             \/ /\ TryAlloc(t, d) \/ Dealloc(t, d)
                /\ d.count \in RegCount /\ d.count \in Nat
                /\ pcs[t] = d.at
                /\ Pool!Resize(t, d.count)
  <2>0. /\ ThreadToBlockIndex[t] \in CTA
        /\ numRegThread[t] \in Int
        /\ BlockToRegPoolCount \in [CTA -> Int]
    BY BlockOfThread, RegisterTypes
  <2>1. CASE TryAlloc(t, d)
    <3>1. d.count \in RegCount /\ d.count \in Nat
      BY <2>1, DefinitionFields DEF TryAlloc
    <3> QED BY <2>0, <2>1, <3>1, PoolGeometry DEF TryAlloc, IncReg, EmitSeenRegInstr, Goto, Pool!Resize
  <2>2. CASE Dealloc(t, d)
    <3>1. d.count \in RegCount /\ d.count \in Nat
      BY <2>2, DefinitionFields DEF Dealloc
    <3>2. BlockToRegPoolCount[ThreadToBlockIndex[t]] + (numRegThread[t] - d.count) =
            BlockToRegPoolCount[ThreadToBlockIndex[t]] - (d.count - numRegThread[t])
      BY <2>0, <3>1
    <3> QED BY <2>2, <3>1, <3>2, PoolGeometry DEF Dealloc, DecReg, EmitSeenRegInstr, Goto, Pool!Resize
  <2>3. CASE ~ TryAlloc(t, d) /\ ~ Dealloc(t, d)
    BY <1>2, <2>3 DEF StepBy, Stutter, SetPredicate, Branch, IndirectBranch, Stop,
                      UnchangedRegisters, vars
  <2> QED BY <2>1, <2>2, <2>3
<1> QED BY <1>1, <1>2 DEF Next, step

\* A change of one thread's count, taken from the pool of its CTA, keeps the
\* sum in every CTA.
LEMMA ResizeConserves ==
  ASSUME TypeOK, PoolConservation, NEW t \in Thread, NEW n \in Nat, Pool!Resize(t, n)
  PROVE  PoolConservation'
<1> SUFFICES ASSUME NEW b \in CTA
             PROVE  BlockToRegPoolCount'[b] + CtaSum(numRegThread', b) =
                      RegPerCTA + CtaSum([u \in Thread |-> InitReg], b)
  BY PoolGeometry, PoolSum
     DEF PoolConservation, Pool!Conservation, Pool!HeldIn, Pool!InitiallyHeldIn
<1> DEFINE delta == IF ThreadToBlockIndex[t] = b THEN n - numRegThread[t] ELSE 0
<1>1. /\ numRegThread \in [Thread -> Int] /\ BlockToRegPoolCount \in [CTA -> Int]
      /\ ThreadToBlockIndex[t] \in CTA
  BY RegisterTypes, BlockOfThread
<1>2. BlockToRegPoolCount[b] + CtaSum(numRegThread, b) =
          RegPerCTA + CtaSum([u \in Thread |-> InitReg], b)
  BY ConservationDef
<1>3. CtaSum(numRegThread', b) = CtaSum(numRegThread, b) + delta
  <2>1. /\ numRegThread' \in [Thread -> Int] /\ numRegThread'[t] = n
        /\ \A u \in Thread : u # t => numRegThread'[u] = numRegThread[u]
    BY <1>1 DEF Pool!Resize
  <2>2. CtaSum(numRegThread, b) \in Int
    BY <1>1, CtaSumType
  <2>3. CASE ThreadToBlockIndex[t] = b
    BY <1>1, <2>1, <2>3, CtaSumUpdate
  <2>4. CASE ThreadToBlockIndex[t] # b
    <3>1. CtaSum(numRegThread', b) = CtaSum(numRegThread, b)
      BY <1>1, <2>1, <2>4, CtaSumUpdate
    <3> QED BY <2>2, <2>4, <3>1
  <2> QED BY <2>3, <2>4
<1>4. BlockToRegPoolCount'[b] = BlockToRegPoolCount[b] - delta
  BY <1>1, PoolGeometry DEF Pool!Resize
<1>5. BlockToRegPoolCount[b] \in Int /\ CtaSum(numRegThread, b) \in Int /\ delta \in Int
  BY <1>1, CtaSumType
<1> HIDE DEF delta
<1> QED BY <1>2, <1>3, <1>4, <1>5

LEMMA ConservationStep == TypeOK /\ PoolConservation /\ [Next]_vars => PoolConservation'
<1> SUFFICES ASSUME TypeOK, PoolConservation, [Next]_vars PROVE PoolConservation'
  OBVIOUS
<1>1. CASE UNCHANGED <<numRegThread, BlockToRegPoolCount>>
  BY <1>1 DEF PoolConservation, Pool!Conservation, Pool!HeldIn, Pool!InitiallyHeldIn
<1>2. ASSUME NEW t \in Thread, NEW d \in Definitions, d.count \in Nat, Pool!Resize(t, d.count)
      PROVE  PoolConservation'
  BY <1>2, ResizeConserves
<1> QED BY <1>1, <1>2, StepResizes

LEMMA ConservationInit == Init => PoolConservation
<1> SUFFICES ASSUME Init PROVE PoolConservation
  OBVIOUS
<1>1. numRegThread = [u \in Thread |-> InitReg] /\ BlockToRegPoolCount = [b \in CTA |-> RegPerCTA]
  BY DEF Init
<1> QED BY <1>1, ConservationDef

\* In every launch of every kernel, the registers of a CTA's threads and of its
\* pool always add up to the same number.
THEOREM Conservation == Spec => []PoolConservation
<1> QED BY TypeCorrect, ConservationInit, ConservationStep, PTL DEF Spec

-----------------------------------------------------------------------------
(* What follows for kernels in which no DEALLOC asks for more than the     *)
(* initial registers.  The inductive invariant adds to conservation that   *)
(* no thread holds more than those: then the pool exceeds its initial size *)
(* by at least what any one thread has given up.                           *)

WithinInit == \A t \in Thread : numRegThread[t] <= InitReg

IInv == TypeOK /\ PoolConservation /\ WithinInit

LEMMA Quantities ==
  /\ InitReg \in Nat /\ RegPerCTA \in Nat
  /\ [u \in Thread |-> InitReg] \in [Thread -> Int]
<1>1. InitReg \in Nat /\ BlockSize \in Nat /\ RegPerThread \in Nat
  BY GridAssumption
<1>2. BlockSize * RegPerThread \in Nat
  BY <1>1
<1> QED BY <1>1, <1>2 DEF RegPerCTA

\* The pool holds its initial registers and those that a thread has given up.
LEMMA PoolGap ==
  ASSUME IInv, NEW t \in Thread
  PROVE  BlockToRegPoolCount[ThreadToBlockIndex[t]] >= RegPerCTA + (InitReg - numRegThread[t])
<1> DEFINE b == ThreadToBlockIndex[t]
           g == [u \in Thread |-> InitReg]
<1>1. /\ numRegThread \in [Thread -> Int] /\ BlockToRegPoolCount \in [CTA -> Int]
      /\ b \in CTA /\ g \in [Thread -> Int] /\ g[t] = InitReg
      /\ \A u \in Thread : numRegThread[u] <= g[u]
  BY RegisterTypes, BlockOfThread, Quantities DEF IInv, WithinInit
<1>2. BlockToRegPoolCount[b] + CtaSum(numRegThread, b) = RegPerCTA + CtaSum(g, b)
  BY <1>1, ConservationDef DEF IInv
<1> HIDE DEF g
<1>3. CtaSum(numRegThread, b) + (g[t] - numRegThread[t]) <= CtaSum(g, b)
  BY <1>1, CtaSumGap
<1>4. CtaSum(numRegThread, b) \in Int /\ CtaSum(g, b) \in Int
  BY <1>1, CtaSumType
<1>5. /\ BlockToRegPoolCount[b] \in Int /\ numRegThread[t] \in Int
      /\ InitReg \in Int /\ RegPerCTA \in Int
  BY <1>1, Quantities
<1> HIDE DEF b
<1>6. BlockToRegPoolCount[b] >= RegPerCTA + (InitReg - numRegThread[t])
  BY <1>1, <1>2, <1>3, <1>4, <1>5
<1> QED BY <1>6 DEF b

\* A TRY_ALLOC that the guard lets through does not raise the thread's count.
LEMMA GuardShrinks ==
  ASSUME IInv, NEW t \in Thread, NEW n \in Nat, IncGuard(t, n)
  PROVE  n <= numRegThread[t]
<1> DEFINE pool == BlockToRegPoolCount[ThreadToBlockIndex[t]]
<1>1. pool >= RegPerCTA + (InitReg - numRegThread[t])
  BY PoolGap
<1>2. pool + (n - numRegThread[t]) <= RegPerCTA
  <2>1. pool \in Int /\ numRegThread[t] \in Int /\ RegPerCTA \in Int
    BY RegisterTypes, BlockOfThread, Quantities DEF IInv
  <2> QED BY <2>1 DEF IncGuard
<1>3. /\ pool \in Int /\ numRegThread[t] \in Int /\ RegPerCTA \in Int /\ InitReg \in Int
      /\ numRegThread[t] <= InitReg
  BY RegisterTypes, BlockOfThread, Quantities DEF IInv, WithinInit
<1> HIDE DEF pool
<1> QED BY <1>1, <1>2, <1>3

LEMMA TryAllocShrinks ==
  ASSUME IInv, NEW t \in Thread, NEW d \in Definitions, TryAlloc(t, d)
  PROVE  d.count <= numRegThread[t]
<1>1. d.count \in Nat /\ IncGuard(t, d.count)
  BY DefinitionFields DEF TryAlloc, IncReg
<1> QED BY <1>1, GuardShrinks

\* With TryAllocShrinks, every count that a step stores is within the initial one.
LEMMA CountsWithinInit ==
  ASSUME DeallocsBelowInit, IInv, NEW t \in Thread, NEW d \in Definitions,
         TryAlloc(t, d) \/ Dealloc(t, d)
  PROVE  d.count <= InitReg
<1>1. d.count \in Nat /\ numRegThread[t] \in Nat /\ numRegThread[t] <= InitReg /\ InitReg \in Nat
  BY DefinitionFields, RegisterTypes, Quantities DEF TryAlloc, Dealloc, IInv, WithinInit
<1>2. CASE TryAlloc(t, d)
  <2>1. d.count <= numRegThread[t]
    BY <1>2, TryAllocShrinks
  <2> QED BY <1>1, <2>1
<1>3. CASE Dealloc(t, d)
  BY <1>3 DEF Dealloc, DeallocsBelowInit
<1> QED BY <1>2, <1>3

LEMMA IInvStep == DeallocsBelowInit /\ IInv /\ [Next]_vars => IInv'
<1> SUFFICES ASSUME DeallocsBelowInit, IInv, [Next]_vars PROVE IInv'
  OBVIOUS
<1>1. TypeOK' /\ PoolConservation'
  BY TypeOKStep, ConservationStep DEF IInv
<1>2. WithinInit'
  <2>1. CASE UNCHANGED <<numRegThread, BlockToRegPoolCount>>
    BY <2>1 DEF IInv, WithinInit
  <2>2. ASSUME NEW t \in Thread, NEW d \in Definitions,
               TryAlloc(t, d) \/ Dealloc(t, d), Pool!Resize(t, d.count)
        PROVE  WithinInit'
    <3>1. d.count <= InitReg
      BY <2>2, CountsWithinInit
    <3>2. numRegThread' = [numRegThread EXCEPT ![t] = d.count]
      BY <2>2 DEF Pool!Resize
    <3>3. numRegThread \in [Thread -> Int]
      BY RegisterTypes DEF IInv
    <3> QED BY <3>1, <3>2, <3>3 DEF IInv, WithinInit
  <2> QED BY <2>1, <2>2, StepResizes DEF IInv
<1> QED BY <1>1, <1>2 DEF IInv

LEMMA IInvInit == Init => IInv
<1> SUFFICES ASSUME Init PROVE IInv
  OBVIOUS
<1>1. TypeOK
  BY ProgramAssumption, GridAssumption DEF Init, TypeOK, RegPerCTA
<1>2. PoolConservation
  BY ConservationInit
<1>3. WithinInit
  BY Quantities DEF Init, WithinInit
<1> QED BY <1>1, <1>2, <1>3 DEF IInv

LEMMA IInvHolds == DeallocsBelowInit => (Spec => []IInv)
<1> SUFFICES ASSUME DeallocsBelowInit PROVE Spec => []IInv
  OBVIOUS
<1>1. IInv /\ [Next]_vars => IInv'
  BY IInvStep
<1> QED BY IInvInit, <1>1, PTL DEF Spec

-----------------------------------------------------------------------------
(* Refinement of the abstract pool.                                        *)

LEMMA StepRefines ==
  ASSUME DeallocsBelowInit, IInv, [Next]_vars
  PROVE  [Pool!Next]_(Pool!poolVars)
<1>1. CASE UNCHANGED <<numRegThread, BlockToRegPoolCount>>
  BY <1>1 DEF Pool!poolVars
<1>2. ASSUME NEW t \in Thread, NEW d \in Definitions,
             TryAlloc(t, d) \/ Dealloc(t, d),
             d.count \in RegCount, d.count \in Nat, Pool!Resize(t, d.count)
      PROVE  Pool!Next
  <2>1. CASE d.count <= numRegThread[t]
    BY <1>2, <2>1, PoolGeometry DEF Pool!Next, Pool!Release
  <2>2. CASE d.count > numRegThread[t]
    <3>1. d.count <= InitReg
      BY <1>2, CountsWithinInit
    <3>2. BlockToRegPoolCount[ThreadToBlockIndex[t]] >= RegPerCTA + (InitReg - numRegThread[t])
      BY PoolGap
    <3>3. /\ BlockToRegPoolCount[ThreadToBlockIndex[t]] \in Int /\ numRegThread[t] \in Int
          /\ RegPerCTA \in Nat /\ InitReg \in Nat
      BY RegisterTypes, BlockOfThread, Quantities DEF IInv
    <3>4. BlockToRegPoolCount[ThreadToBlockIndex[t]] >= d.count - numRegThread[t]
      BY <1>2, <3>1, <3>2, <3>3
    <3> QED BY <1>2, <2>2, <3>4, PoolGeometry DEF Pool!Next, Pool!Acquire
  <2>3. numRegThread[t] \in Int
    BY RegisterTypes DEF IInv
  <2> QED BY <1>2, <2>1, <2>2, <2>3
<1> QED BY <1>1, <1>2, StepResizes DEF IInv

\* The process implements the pool of the notes: in those launches, registers are
\* only ever taken from a pool that has them.
THEOREM PoolRefinement == DeallocsBelowInit => (Spec => RefinesRegPool)
<1> SUFFICES ASSUME DeallocsBelowInit PROVE Spec => RefinesRegPool
  OBVIOUS
<1>1. Init => Pool!Init
  BY PoolGeometry DEF Init, Pool!Init
<1>2. IInv /\ [Next]_vars => [Pool!Next]_(Pool!poolVars)
  BY StepRefines
<1>3. Spec => []IInv
  BY IInvHolds
<1> QED BY <1>1, <1>2, <1>3, PTL DEF Spec, RefinesRegPool, Pool!Spec

-----------------------------------------------------------------------------
(* One path for all threads.  What a thread does next depends only on its  *)
(* own counter, registers and predicate, and on memory, which nothing      *)
(* writes; where every label has one definition there is one way to go on. *)
(* The invariant exhibits that way: a run on which every thread stands.    *)

\* Each label has one definition, as in everything the code generator emits.
LabelsAreUnique == \A d, e \in Definitions : d.at = e.at => d = e

\* A condition on the kernel: no jump table has two entries to choose from.
NoJumpTableChoice ==
  \A d \in Definitions : d.kind = "brx" => \A x, y \in d.targets : x = y

Local(t) == [pc |-> pcs[t], held |-> numRegThread[t], pred |-> regs_predicate[t]]

InitialLocal == [pc |-> Start, held |-> InitReg, pred |-> FALSE]

\* What a definition that does not stop makes of a thread's own state.
LocalEffect(m, d, s, n) ==
  \/ d.kind = "stutter" /\ n = [pc |-> d.to, held |-> s.held, pred |-> s.pred]
  \/ d.kind = "setp" /\ n = [pc |-> d.to, held |-> s.held, pred |-> m[d.addr]]
  \/ d.kind \in {"inc", "dec"} /\ n = [pc |-> d.to, held |-> d.count, pred |-> s.pred]
  \/ d.kind = "branch" /\ s.pred = TRUE /\ n = [pc |-> d.taken, held |-> s.held, pred |-> s.pred]
  \/ d.kind = "branch" /\ s.pred # TRUE /\ n = [pc |-> d.fall, held |-> s.held, pred |-> s.pred]
  \/ d.kind = "brx" /\ \E x \in d.targets : n = [pc |-> x, held |-> s.held, pred |-> s.pred]

LocalStep(m, s, n) == \E d \in Definitions : d.at = s.pc /\ LocalEffect(m, d, s, n)

IsRun(run, last, m) ==
  /\ run = [k \in 0 .. last |-> run[k]]
  /\ run[0] = InitialLocal
  /\ \A k \in 0 .. last - 1 : LocalStep(m, run[k], run[k + 1])

OnOnePath ==
  \E last \in Nat : \E run :
    /\ IsRun(run, last, mem)
    /\ \A t \in Thread : \E k \in 0 .. last : Local(t) = run[k]

LEMMA OneWayOn ==
  ASSUME LabelsAreUnique, NoJumpTableChoice, NEW m, NEW s, NEW n1, NEW n2,
         LocalStep(m, s, n1), LocalStep(m, s, n2)
  PROVE  n1 = n2
<1>1. PICK d \in Definitions : d.at = s.pc /\ LocalEffect(m, d, s, n1)
  BY DEF LocalStep
<1>2. PICK e \in Definitions : e.at = s.pc /\ LocalEffect(m, e, s, n2)
  BY DEF LocalStep
<1>3. d = e
  BY <1>1, <1>2 DEF LabelsAreUnique
<1>4. d.kind = "brx" => \A x, y \in d.targets : x = y
  BY DEF NoJumpTableChoice
<1>5. CASE d.kind = "brx"
  <2>1. PICK x \in d.targets : n1 = [pc |-> x, held |-> s.held, pred |-> s.pred]
    BY <1>1, <1>5 DEF LocalEffect
  <2>2. PICK y \in d.targets : n2 = [pc |-> y, held |-> s.held, pred |-> s.pred]
    BY <1>2, <1>3, <1>5 DEF LocalEffect
  <2> QED BY <1>4, <1>5, <2>1, <2>2
<1>6. LocalEffect(m, d, s, n1) /\ LocalEffect(m, d, s, n2)
  BY <1>1, <1>2, <1>3
<1>7. CASE d.kind = "stutter"
  BY <1>6, <1>7 DEF LocalEffect
<1>8. CASE d.kind = "setp"
  BY <1>6, <1>8 DEF LocalEffect
<1>9. CASE d.kind \in {"inc", "dec"}
  BY <1>6, <1>9 DEF LocalEffect
<1>10. CASE d.kind = "branch"
  <2>1. CASE s.pred = TRUE
    <3>1. /\ n1 = [pc |-> d.taken, held |-> s.held, pred |-> s.pred]
          /\ n2 = [pc |-> d.taken, held |-> s.held, pred |-> s.pred]
      BY <1>6, <1>10, <2>1 DEF LocalEffect
    <3> QED BY <3>1
  <2>2. CASE s.pred # TRUE
    <3>1. /\ n1 = [pc |-> d.fall, held |-> s.held, pred |-> s.pred]
          /\ n2 = [pc |-> d.fall, held |-> s.held, pred |-> s.pred]
      BY <1>6, <1>10, <2>2 DEF LocalEffect
    <3> QED BY <3>1
  <2> QED BY <2>1, <2>2
<1> QED BY <1>5, <1>6, <1>7, <1>8, <1>9, <1>10 DEF LocalEffect

\* Every step of the process is a local step of one thread, or none.
LEMMA StepIsLocal ==
  ASSUME TypeOK, [Next]_vars
  PROVE  /\ mem' = mem
         /\ \/ \A u \in Thread : Local(u)' = Local(u)
            \/ \E t \in Thread : /\ LocalStep(mem, Local(t), Local(t)')
                                 /\ \A u \in Thread : u # t => Local(u)' = Local(u)
<1>1. CASE UNCHANGED vars
  BY <1>1 DEF vars, Local
<1>2. ASSUME NEW t \in Thread, NEW d \in Definitions, StepBy(t, d)
      PROVE  /\ mem' = mem
             /\ \/ \A u \in Thread : Local(u)' = Local(u)
                \/ /\ LocalStep(mem, Local(t), Local(t)')
                   /\ \A u \in Thread : u # t => Local(u)' = Local(u)
  <2>1. /\ pcs = [u \in Thread |-> pcs[u]]
        /\ numRegThread = [u \in Thread |-> numRegThread[u]]
        /\ regs_predicate = [u \in Thread |-> regs_predicate[u]]
        /\ regs_predicate[t] \in BOOLEAN
    BY DEF TypeOK
  <2>2. CASE Stop(t, d)
    BY <2>2 DEF Stop, vars, Local
  <2>3. CASE ~ Stop(t, d)
    <3>1. d.at = pcs[t] /\ mem' = mem
      BY <1>2, <2>3 DEF StepBy, Stutter, SetPredicate, TryAlloc, Dealloc, Branch,
                        IndirectBranch, EmitSeenRegInstr, Goto
    <3>2. \A u \in Thread : u # t => Local(u)' = Local(u)
      <4>1. \A u \in Thread : u # t =>
               /\ pcs'[u] = pcs[u] /\ numRegThread'[u] = numRegThread[u]
               /\ regs_predicate'[u] = regs_predicate[u]
        BY <1>2, <2>1, <2>3
           DEF StepBy, Stutter, SetPredicate, TryAlloc, Dealloc, Branch, IndirectBranch,
               EmitSeenRegInstr, Goto, IncReg, DecReg, UnchangedRegisters
      <4> QED BY <4>1 DEF Local
    <3>3. LocalEffect(mem, d, Local(t), Local(t)')
      <4>1. Local(t).held = numRegThread[t] /\ Local(t).pred = regs_predicate[t]
        BY DEF Local
      <4>2. CASE Stutter(t, d)
        BY <2>1, <4>1, <4>2 DEF Stutter, Goto, UnchangedRegisters, Local, LocalEffect
      <4>3. CASE SetPredicate(t, d)
        BY <2>1, <4>1, <4>3 DEF SetPredicate, Goto, UnchangedRegisters, Local, LocalEffect
      <4>4. CASE TryAlloc(t, d)
        BY <2>1, <4>1, <4>4 DEF TryAlloc, IncReg, EmitSeenRegInstr, Goto, Local, LocalEffect
      <4>5. CASE Dealloc(t, d)
        BY <2>1, <4>1, <4>5 DEF Dealloc, DecReg, EmitSeenRegInstr, Goto, Local, LocalEffect
      <4>6. CASE Branch(t, d)
        BY <2>1, <4>1, <4>6 DEF Branch, Goto, UnchangedRegisters, Local, LocalEffect
      <4>7. CASE IndirectBranch(t, d)
        BY <2>1, <4>1, <4>7 DEF IndirectBranch, Goto, UnchangedRegisters, Local, LocalEffect
      <4> QED BY <1>2, <2>3, <4>2, <4>3, <4>4, <4>5, <4>6, <4>7 DEF StepBy
    <3>4. Local(t).pc = pcs[t]
      BY DEF Local
    <3> QED BY <3>1, <3>2, <3>3, <3>4 DEF LocalStep
  <2> QED BY <2>2, <2>3
<1> QED BY <1>1, <1>2 DEF Next, step

LEMMA RunGrows ==
  ASSUME NEW last \in Nat, NEW run, NEW m, IsRun(run, last, m), NEW n, LocalStep(m, run[last], n)
  PROVE  \E longer : /\ IsRun(longer, last + 1, m)
                     /\ \A k \in 0 .. last : longer[k] = run[k]
                     /\ longer[last + 1] = n
<1> DEFINE r == [k \in 0 .. last + 1 |-> IF k = last + 1 THEN n ELSE run[k]]
<1>1. r = [k \in 0 .. last + 1 |-> r[k]]
  OBVIOUS
<1>2. (\A k \in 0 .. last : r[k] = run[k]) /\ r[last + 1] = n
  OBVIOUS
<1> HIDE DEF r
<1>3. r[0] = InitialLocal
  BY <1>2 DEF IsRun
<1>4. ASSUME NEW k \in 0 .. (last + 1) - 1
      PROVE  LocalStep(m, r[k], r[k + 1])
  <2>1. CASE k = last
    BY <1>2, <2>1
  <2>2. CASE k # last
    <3>1. k \in 0 .. last - 1 /\ k \in 0 .. last /\ k + 1 \in 0 .. last
      BY <2>2
    <3> QED BY <1>2, <3>1 DEF IsRun
  <2> QED BY <2>1, <2>2
<1>5. IsRun(r, last + 1, m)
  BY <1>1, <1>3, <1>4 DEF IsRun
<1> QED BY <1>2, <1>5

LEMMA OnOnePathStep ==
  ASSUME LabelsAreUnique, NoJumpTableChoice, TypeOK, OnOnePath, [Next]_vars
  PROVE  OnOnePath'
<1>0. PICK last \in Nat : \E run :
          /\ IsRun(run, last, mem)
          /\ \A t \in Thread : \E k \in 0 .. last : Local(t) = run[k]
  BY DEF OnOnePath
<1>1. PICK run : /\ IsRun(run, last, mem)
                 /\ \A t \in Thread : \E k \in 0 .. last : Local(t) = run[k]
  BY <1>0
<1>2. mem' = mem
  BY StepIsLocal
<1>3. CASE \A u \in Thread : Local(u)' = Local(u)
  <2>1. IsRun(run, last, mem') /\ \A u \in Thread : \E k \in 0 .. last : Local(u)' = run[k]
    BY <1>1, <1>2, <1>3
  <2> QED BY <2>1 DEF OnOnePath
<1>4. ASSUME NEW t \in Thread, LocalStep(mem, Local(t), Local(t)'),
             \A u \in Thread : u # t => Local(u)' = Local(u)
      PROVE  OnOnePath'
  <2>1. PICK k \in 0 .. last : Local(t) = run[k]
    BY <1>1
  <2>2. CASE k # last
    <3>1. k \in 0 .. last - 1 /\ k + 1 \in 0 .. last
      BY <2>2
    <3>2. LocalStep(mem, run[k], run[k + 1])
      BY <1>1, <3>1 DEF IsRun
    <3>3. Local(t)' = run[k + 1]
      BY <1>4, <2>1, <3>2, OneWayOn
    <3>4. \A u \in Thread : \E j \in 0 .. last : Local(u)' = run[j]
      BY <1>1, <1>4, <3>1, <3>3
    <3> QED BY <1>1, <1>2, <3>4 DEF OnOnePath
  <2>3. CASE k = last
    <3>1. PICK longer : /\ IsRun(longer, last + 1, mem)
                        /\ \A j \in 0 .. last : longer[j] = run[j]
                        /\ longer[last + 1] = Local(t)'
      BY <1>1, <1>4, <2>1, <2>3, RunGrows
    <3>2. \A u \in Thread : \E j \in 0 .. last + 1 : Local(u)' = longer[j]
      <4> SUFFICES ASSUME NEW u \in Thread PROVE \E j \in 0 .. last + 1 : Local(u)' = longer[j]
        OBVIOUS
      <4>1. CASE u = t
        <5>1. last + 1 \in 0 .. last + 1
          OBVIOUS
        <5> QED BY <3>1, <4>1, <5>1
      <4>2. CASE u # t
        <5>1. PICK j \in 0 .. last : Local(u) = run[j]
          BY <1>1
        <5>2. j \in 0 .. last + 1
          OBVIOUS
        <5> QED BY <1>4, <3>1, <4>2, <5>1, <5>2
      <4> QED BY <4>1, <4>2
    <3>3. last + 1 \in Nat /\ IsRun(longer, last + 1, mem')
      BY <1>2, <3>1
    <3> QED BY <3>2, <3>3 DEF OnOnePath
  <2> QED BY <2>2, <2>3
<1> QED BY <1>3, <1>4, StepIsLocal

\* In a kernel without a choice at a jump table, whatever the interleaving and
\* however long TRY_ALLOC made some of them wait, the threads that reached an EXIT
\* agree on where they stopped, on the registers they hold and on the predicate.
THEOREM FinalStates ==
  LabelsAreUnique /\ NoJumpTableChoice => (Spec => []FinalStatesAgree)
<1> SUFFICES ASSUME LabelsAreUnique, NoJumpTableChoice PROVE Spec => []FinalStatesAgree
  OBVIOUS
<1>1. Init => OnOnePath
  <2> SUFFICES ASSUME Init PROVE OnOnePath
    OBVIOUS
  <2> DEFINE run == [k \in 0 .. 0 |-> InitialLocal]
  <2>1. IsRun(run, 0, mem)
    BY DEF IsRun
  <2>2. \A t \in Thread : Local(t) = run[0]
    BY DEF Init, Local, InitialLocal
  <2> HIDE DEF run
  <2> QED BY <2>1, <2>2 DEF OnOnePath
<1>2. TypeOK /\ OnOnePath /\ [Next]_vars => OnOnePath'
  BY OnOnePathStep
<1>3. OnOnePath => FinalStatesAgree
  <2> SUFFICES ASSUME OnOnePath, NEW t \in Thread, NEW u \in Thread, Stopped(t), Stopped(u)
               PROVE  /\ pcs[t] = pcs[u] /\ numRegThread[t] = numRegThread[u]
                      /\ regs_predicate[t] = regs_predicate[u]
    BY DEF FinalStatesAgree
  <2>0. PICK last \in Nat : \E run :
            /\ IsRun(run, last, mem)
            /\ \A v \in Thread : \E k \in 0 .. last : Local(v) = run[k]
    BY DEF OnOnePath
  <2>1. PICK run : /\ IsRun(run, last, mem)
                   /\ \A v \in Thread : \E k \in 0 .. last : Local(v) = run[k]
    BY <2>0
  \* No run goes on from a thread that stopped.
  <2>2. ASSUME NEW v \in Thread, Stopped(v), NEW k \in 0 .. last, Local(v) = run[k]
        PROVE  k = last
    <3> SUFFICES ASSUME k # last PROVE FALSE
      OBVIOUS
    <3>1. LocalStep(mem, Local(v), run[k + 1])
      <4>1. k \in 0 .. last - 1
        OBVIOUS
      <4> QED BY <2>1, <2>2, <4>1 DEF IsRun
    <3>2. PICK d \in Definitions : d.at = pcs[v] /\ LocalEffect(mem, d, Local(v), run[k + 1])
      BY <3>1 DEF LocalStep, Local
    <3>3. PICK e \in Definitions : e.at = pcs[v] /\ e.kind = "stop"
      BY <2>2 DEF Stopped, LabelsOf
    <3>4. d.kind = "stop"
      BY <3>2, <3>3 DEF LabelsAreUnique
    <3> QED BY <3>2, <3>4 DEF LocalEffect
  <2>3. Local(t) = Local(u)
    BY <2>1, <2>2
  <2> QED BY <2>3 DEF Local
<1> QED BY <1>1, <1>2, <1>3, TypeCorrect, PTL DEF Spec
=============================================================================
