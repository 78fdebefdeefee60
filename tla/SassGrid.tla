------------------------------ MODULE SassGrid ------------------------------
(***************************************************************************)
(* The geometry of a launch: threads, the CTA (thread block) each belongs  *)
(* to, and the size of a CTA's register pool.  Threads and CTAs are        *)
(* numbered from 0, as the emitted "t0", "t1", ... are.                    *)
(***************************************************************************)
EXTENDS Integers, RegisterSum

CONSTANTS
    NumCTAs,        \* product of gridDim
    BlockSize,      \* product of blockDim: threads per CTA
    RegPerThread,   \* --regs_per_thread
    InitReg,        \* constants.INITREG
    RegCount        \* the register counts that USETMAXREG instructions name

ASSUME GridAssumption ==
    /\ NumCTAs \in Nat \ {0}
    /\ BlockSize \in Nat \ {0}
    /\ RegPerThread \in Nat
    /\ InitReg \in Nat
    /\ RegCount \subseteq Nat

NumThreads == NumCTAs * BlockSize

Thread == 0 .. NumThreads - 1
CTA    == 0 .. NumCTAs - 1

RegPerCTA == BlockSize * RegPerThread

\* The emitted variable of this name is set by Init and never updated.
ThreadToBlockIndex == [t \in Thread |-> t \div BlockSize]

\* The sum of h over the threads of a CTA.
CtaSum(h, b) ==
    SumUpTo([t \in Thread |-> IF ThreadToBlockIndex[t] = b THEN h[t] ELSE 0], NumThreads)
=============================================================================
