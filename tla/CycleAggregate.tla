---------------------------- MODULE CycleAggregate ----------------------------
(***************************************************************************)
(* The Cycle aggregate of the financial kernel: its states, the            *)
(* eligibility automaton, the transitions the domain object accepts, and   *)
(* the two rules that guard the row of table `cycles`: the mapping         *)
(* applied by `update_payout_state` and the database trigger that vetoes   *)
(* illegal transitions.                                                    *)
(*                                                                         *)
(* A row keeps the fields decisions depend on.  The idempotency key        *)
(* `payout:{group}:{id}:{cycle_number}` is a function of the cycle, so     *)
(* the cycle itself stands for it.                                         *)
(***************************************************************************)
EXTENDS Naturals

CycleStates == {"open", "committed", "payout_triggered", "closed", "disputed"}

PayoutStates == {"not_sent", "pending", "sent", "confirmed", "failed"}

CycleRows == [state: CycleStates, payout: PayoutStates, collected: Nat]

(* Mutant: the threshold is forgotten.                                     *)
EligibleBelowThreshold(row, duePassed, threshold) ==
  /\ duePassed
  /\ row.collected > 0
  /\ row.state = "committed"
  /\ row.payout = "not_sent"

(* The automaton of `evaluate_payout_eligibility`: due date passed,        *)
(* threshold met, cycle committed, payout not yet initiated.               *)
Eligible(row, duePassed, threshold) ==
  /\ duePassed
  /\ row.collected >= threshold
  /\ row.state = "committed"
  /\ row.payout = "not_sent"

(* Mutant: the check of the payout state is dropped.                       *)
MayAlwaysConfirm(row) == row.payout # "confirmed"

(* What `mark_payout_confirmed` accepts; `mark_payout_failed` accepts      *)
(* every state.                                                            *)
MayConfirm(row) == row.payout \in {"pending", "sent"}

(* Mutant: a payout state is written as a cycle state.                     *)
StateOfUnmapped(payout) ==
  IF payout \in {"pending", "sent"} THEN "payout_triggered" ELSE payout

(* The cycle state `update_payout_state` writes beside a payout state.     *)
StateOf(payout) ==
  CASE payout \in {"pending", "sent"} -> "payout_triggered"
    [] payout = "confirmed"           -> "closed"
    [] payout = "failed"              -> "disputed"
    [] OTHER                          -> "committed"

(* The UPDATE of `update_payout_state`: it names the row by id only, and   *)
(* so overwrites whatever state the row is in.                             *)
WithPayoutState(row, payout) ==
  [row EXCEPT !.payout = payout, !.state = StateOf(payout)]

(* Mutants: the first rule is forgotten; every change of state is refused. *)
TriggerReopens(row, newRow) ==
  row.state = "payout_triggered" => newRow.state # "open"

TriggerFreezes(row, newRow) == newRow.state = row.state

(* Trigger `enforce_cycle_immutability` on every UPDATE of a row.          *)
TriggerAllows(row, newRow) ==
  /\ row.state = "closed" => newRow.state = "closed"
  /\ row.state = "payout_triggered" => newRow.state # "open"

===============================================================================
