------------------------------ MODULE RegPool ------------------------------
(***************************************************************************)
(* What the register pools of a launch promise (invariants.txt, 3a): a     *)
(* thread takes more registers only when the pool of its CTA has them,     *)
(* what it gives back goes to that pool, and nothing else moves registers. *)
(* No code, no program counters: only who holds how many.                  *)
(***************************************************************************)
EXTENDS SassGrid

VARIABLES
    held,   \* registers of each thread
    free    \* registers in the pool of each CTA

poolVars == <<held, free>>

Init ==
    /\ held = [t \in Thread |-> InitReg]
    /\ free = [b \in CTA |-> RegPerCTA]

Resize(t, n) ==
    /\ held' = [held EXCEPT ![t] = n]
    /\ free' = [free EXCEPT ![ThreadToBlockIndex[t]] = @ - (n - held[t])]

Acquire(t, n) ==
    /\ n > held[t]
    /\ free[ThreadToBlockIndex[t]] >= n - held[t]
    /\ Resize(t, n)

Release(t, n) ==
    /\ n <= held[t]
    /\ Resize(t, n)

Next == \E t \in Thread, n \in RegCount : Acquire(t, n) \/ Release(t, n)

Spec == Init /\ [][Next]_poolVars

-----------------------------------------------------------------------------
\* Registers held by the threads of a CTA, now and at the launch.
HeldIn(b)          == CtaSum(held, b)
InitiallyHeldIn(b) == CtaSum([t \in Thread |-> InitReg], b)

\* The registers of a CTA are only ever moved between its threads and its pool.
Conservation == \A b \in CTA : free[b] + HeldIn(b) = RegPerCTA + InitiallyHeldIn(b)

\* No pool is ever overdrawn.
NeverOverdrawn == \A b \in CTA : free[b] >= 0
=============================================================================
