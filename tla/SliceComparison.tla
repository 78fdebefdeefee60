--------------------------- MODULE SliceComparison ---------------------------
(***************************************************************************)
(* The slicer of sass/cfg.py beside the earlier one: the instructions that *)
(* each keeps of one function for the same mnemonics.                      *)
(***************************************************************************)
EXTENDS Slicer, LegacySlicer

\* The earlier slicer looks for a store's address where it expects a result and
\* so reads it nowhere.
UnreadAddresses(i) ==
    {i.regs[k] : k \in {j \in DOMAIN i.regs : IsAddress(i, j) /\ j <= LegacyWriteCount(i)}}

\* Nothing else of an instruction is seen otherwise.  IMAD.HI.U32, whose result
\* the new slicer reads, and a guard @PT, which overwrites in the new slicer only,
\* are.
ReadAlike(i) ==
    /\ i.guard \notin AlwaysTruePreds
    /\ LegacyWrites(i) = DefsOf(i)
    /\ LegacyReads(i) \subseteq UsesOf(i)
    /\ UsesOf(i) \subseteq LegacyReads(i) \cup UnreadAddresses(i)

\* "Both slicers should produce equivalent sliced CFGs: same instructions (by
\* address) retained": where they see the same conditions, results and operands,
\* they do, with control dependencies kept, as long as no kept instruction has
\* an address that the earlier one does not read.
LegacySliceAgrees ==
    /\ phase = "done" /\ keepControl
    /\ Comparable(idToInstr) /\ \A p \in Positions : ReadAlike(idToInstr[p])
    /\ \A p \in important : \A d \in rdIn[p] : d[1] \notin UnreadAddresses(idToInstr[p])
    => important = LegacySlice(idToInstr, SliceSeeds(idToInstr))
=============================================================================
