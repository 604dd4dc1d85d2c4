------------------------------- MODULE MCKernel -------------------------------
(***************************************************************************)
(* Kernel for TLC, with one cycle.  Amounts are small and different, so    *)
(* that the threshold can be met exactly, exceeded, or met by a transfer   *)
(* that lands while a payout is being decided.                             *)
(***************************************************************************)
EXTENDS KernelRefinement_proofs

CONSTANTS c1, r1

MCCycleOf == [r \in TxRefs |-> c1]
MCAmountOf == [r \in TxRefs |-> IF r = r1 THEN 1 ELSE 2]
MCThreshold == [c \in Cycles |-> 2]
MCPayoutOf == [x \in OpRefs |-> c1]

===============================================================================
