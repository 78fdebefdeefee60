---------------------------- MODULE GpucodeAdapter ----------------------------
(***************************************************************************)
(* The adapter that turns a graph of the earlier backend into one of       *)
(* sass/cfg.py, for a whole function and for the instructions a slice of   *)
(* it keeps.  The imported package is a submodule; sass/slicer.py is the   *)
(* copy of it in the repository.                                           *)
(***************************************************************************)
EXTENDS LegacyCfg

\* The predicate of an EXIT does not count.
ClassifyGcaBlock(code) ==
    IF code = <<>> THEN "FALL_THROUGH"
    ELSE LET last == Last(code)
         IN  CASE IsExit(last)     -> "EXIT"
               [] IsIndirect(last) -> "INDIRECT"
               [] IsBranch(last) /\ ~ IsIndirect(last) ->
                     IF IsConditional(last) THEN "CONDITIONAL" ELSE "UNCONDITIONAL"
               [] OTHER -> "FALL_THROUGH"

\* Operators named after a fault are variants of the one that follows them; no
\* specification uses them.
OrderedSuccessorsAsBuilt(edges) == [n \in DOMAIN edges |-> edges[n].to]

\* The taken branch before the fall-through, then the others; the dictionary
\* lists the fall-through first.
OrderedSuccessors(edges) ==
    LET named(name) == {n \in DOMAIN edges : edges[n].label = <<name, 0>>}
        others == Selected(edges, DOMAIN edges \ (named("true") \cup named("false")))
        order == IF named("true") # {} /\ named("false") # {}
                 THEN Selected(edges, named("true")) \o Selected(edges, named("false")) \o others
                 ELSE edges
    IN  [n \in DOMAIN order |-> order[n].to]

\* The items of s that are in S, each where it stands first.
DistinctIn(s, S) ==
    Selected(s, {n \in DOMAIN s : s[n] \in S /\ \A m \in 1 .. n - 1 : s[m] # s[n]})

\* Blocks without a name of their own are skipped, and so are edges to them.
ConvertCfg(instrs, g, kept) ==
    LET ids == DOMAIN g \ {StartBlock, ExitBlock}
        succs(k) == DistinctIn(OrderedSuccessors(g[k].succs), ids)
        code(k) == LET left == Selected(g[k].code, {n \in DOMAIN g[k].code : g[k].code[n] \in kept})
                   IN  [n \in DOMAIN left |-> instrs[left[n]]]
    IN  [k \in ids |->
            [id |-> k,
             first |-> g[k].code[1],
             instructions |-> code(k),
             term |-> ClassifyGcaBlock(code(k)),
             succs |-> succs(k),
             preds |-> {j \in ids : Contains(succs(j), k)}]]
=============================================================================
