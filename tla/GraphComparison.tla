--------------------------- MODULE GraphComparison ---------------------------
(***************************************************************************)
(* The two backends of the command line build the graph of a function in   *)
(* their own way: CfgBuilder, and LegacyCfg through GpucodeAdapter, "drop- *)
(* in replacements" of each other.                                         *)
(***************************************************************************)
EXTENDS CfgBuilder, GpucodeAdapter

IsGuardedExit(i) == IsExit(i) /\ IsPredicated(i)

\* Wherever the earlier backend builds a graph and sees the same conditions,
\* both builders find the same blocks and edges, and list the edges of every
\* block but an indirect one in the same order.  They name the same terminator,
\* except that the adapter calls a predicated exit an exit.
BackendsAgree ==
    pass = "done" /\ Comparable(instrs) =>
        LET other == ConvertCfg(instrs, BuildLegacyCfg(instrs), DOMAIN instrs)
        IN  /\ DOMAIN other = DOMAIN blocks
            /\ \A k \in DOMAIN blocks :
                  /\ other[k].first = blocks[k].first
                  /\ other[k].instructions = blocks[k].instructions
                  /\ other[k].preds = blocks[k].preds
                  /\ ToSet(other[k].succs) = ToSet(blocks[k].succs)
                  /\ blocks[k].term = "INDIRECT" \/ other[k].succs = blocks[k].succs
                  /\ other[k].term = IF IsGuardedExit(Last(blocks[k].instructions)) THEN "EXIT"
                                     ELSE blocks[k].term
=============================================================================
