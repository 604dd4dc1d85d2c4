--------------------------- MODULE KernelRefinement ---------------------------
(***************************************************************************)
(* The kernel keeps the promise: under the mapping below every step of a   *)
(* task, read, lock, rollback or crash included, is a step of              *)
(* TontinePromise or leaves it alone.                                      *)
(***************************************************************************)
EXTENDS Kernel

(* The transfers the ledger books under an event.                          *)
Booked(event) == {r \in TxRefs : \E e \in ledger : e.event = event /\ e.id = r}

(* The amount the ledger debits for a cycle.                               *)
DebitOf(c) ==
  IF Initiations(c) = {} THEN 0
  ELSE (CHOOSE e \in Initiations(c) : TRUE).amount

PhaseOf(c) ==
  CASE cycles[c].state = "payout_triggered" -> "paying"
    [] cycles[c].state = "closed"           -> "settled"
    [] cycles[c].state = "disputed"         -> "disputed"
    [] OTHER                                -> "collecting"

Promise == INSTANCE TontinePromise WITH
  Transfers <- TxRefs,
  credited  <- Booked("contribution_received"),
  held      <- Booked("contribution_quarantined"),
  pot       <- [c \in Cycles |-> cycles[c].collected],
  paid      <- [c \in Cycles |-> DebitOf(c)],
  phase     <- [c \in Cycles |-> PhaseOf(c)]

(* The kernel implements the abstract specification: transfers booked      *)
(* once, one backed payout per cycle, settled for good.                    *)
KeepsPromise == Promise!Spec

===============================================================================
