-------------------------------- MODULE Lowering --------------------------------
(***************************************************************************)
(* What LlvmRun computes, compared with what the HUGR means.               *)
(***************************************************************************)
EXTENDS LlvmRun

Ref == INSTANCE HugrEval

\* The function computes what the HUGR means, whatever topological order its
\* regions were emitted in: mailboxes shared by wires, cases and blocks are
\* never overwritten while their old contents are still wanted, loops that
\* permute their arguments included.
ComputesTheHugr == Returned => AllOf(Instr.vals) = Ref!EvalFunc(hugr, args)
=============================================================================
