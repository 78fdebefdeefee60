---------------------------- MODULE MCSassProcess ----------------------------
(* Kernels for SassProcess.  The definitions are what the code generator   *)
(* model emits for the kernel's graph after collapse_try_alloc_retry.      *)
EXTENDS SassProcess, Encoder

CONSTANT Kernel   \* an instruction sequence; positions start at 1

\* Producers release registers, through two DEALLOCs of which the second takes some
\* back, with a jump table between them whose cases meet again; consumers run the
\* retry loop of invariants.txt.
ProducerConsumer ==
    <<Instr("ISETP", 1), Guarded("P0", Bra(8)),
      Instr("DEALLOC", 24), Brx(<<5, 6>>), Instr("WARPSYNC", 0),
      Instr("DEALLOC", 104), Exit,
      Instr("WARPSYNC", 0), Instr("TRY_ALLOC", 128), BraOperand("!UP0", 8),
      Instr("ISETP", 2), Guarded("!P0", Bra(15)),
      Instr("TRY_ALLOC", 208), Instr("WARPSYNC", 0), Exit>>

\* DEALLOC, then the retry loop of invariants.txt.
Retry ==
    <<Instr("DEALLOC", 24), Instr("WARPSYNC", 0), Instr("TRY_ALLOC", 208),
      BraOperand("!UP0", 2), Exit>>

-----------------------------------------------------------------------------
Encoded == EncodeCfg(CollapseTryAllocRetry(BuildCfg(Kernel)))

MCDefinitions == DefinitionsOf(Encoded)

MCLabel ==
    {StartLabel, ErrorLabel}
        \cup {<<"bb", id>> : id \in 1 .. Len(Kernel)}
        \cup {<<"state", n>> : n \in 0 .. Encoded.states}

ArgsOf(ops) == {Kernel[i].arg : i \in {j \in DOMAIN Kernel : Kernel[j].op \in ops}}

MCAddr     == ArgsOf({"ISETP"})
MCRegCount == ArgsOf({"TRY_ALLOC", "DEALLOC"})
=============================================================================
