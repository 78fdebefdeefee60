----------------------------- MODULE TraceReplay -----------------------------
(***************************************************************************)
(* What a reader of a register trace may know: after each entry, for each  *)
(* warp, the values that the entries read so far have given its registers. *)
(* An entry gives values to the registers of its own warp and to no other. *)
(* A trace may be left before its end.                                     *)
(***************************************************************************)
EXTENDS Integers, Sequences

CONSTANTS
    Warps,         \* (kernel, CTA, warp)
    Registers,
    Unknown        \* no entry has given the register a value

VARIABLES
    entries,       \* the entries: their warp and the values they give, by register
    count,         \* entries read
    known          \* what is known of each register of each warp

Learn(e, k) == [r \in Registers |-> IF r \in DOMAIN e.gives THEN e.gives[r] ELSE k[r]]

Init ==
    /\ count = 0
    /\ known = [w \in Warps |-> [r \in Registers |-> Unknown]]

Read ==
    /\ count + 1 \in DOMAIN entries
    /\ LET e == entries[count + 1]
       IN known' = [known EXCEPT ![e.warp] = Learn(e, known[e.warp])]
    /\ count' = count + 1
    /\ UNCHANGED entries

\* The trace itself is read before the first of its entries is replayed.
Parse == count = 0 /\ UNCHANGED <<count, known>>

Next == Read \/ Parse

Spec == Init /\ [][Next]_<<entries, count, known>>
=============================================================================
