---------------------------- MODULE TontinePromise ----------------------------
(***************************************************************************)
(* What the kernel promises the members of a tontine, without requests,    *)
(* transactions, ledger or outbox: a transfer is taken into account once,  *)
(* in the pot of its cycle or held aside; a cycle is paid once, an amount  *)
(* that meets its threshold and that its pot covers; a settled cycle stays *)
(* settled.                                                                *)
(***************************************************************************)
EXTENDS Naturals

CONSTANTS Cycles, Transfers, CycleOf, AmountOf, Threshold

VARIABLES
  credited,  \* transfers counted in the pot of their cycle
  held,      \* transfers held aside: payer unknown
  pot,       \* what each cycle has collected
  paid,      \* what was paid out for each cycle, 0 if nothing was
  phase      \* where each cycle is

promiseVars == <<credited, held, pot, paid, phase>>

Phases == {"collecting", "paying", "settled", "disputed"}

Init ==
  /\ credited = {}
  /\ held = {}
  /\ pot = [c \in Cycles |-> 0]
  /\ paid = [c \in Cycles |-> 0]
  /\ phase = [c \in Cycles |-> "collecting"]

Credit(r) ==
  /\ r \notin credited \cup held
  /\ credited' = credited \cup {r}
  /\ pot' = [pot EXCEPT ![CycleOf[r]] = @ + AmountOf[r]]
  /\ UNCHANGED <<held, paid, phase>>

Hold(r) ==
  /\ r \notin credited \cup held
  /\ held' = held \cup {r}
  /\ UNCHANGED <<credited, pot, paid, phase>>

(* A dispute opened before anything was paid does not prevent the payout.  *)
Pay(c, amount) ==
  /\ phase[c] \in {"collecting", "disputed"}
  /\ paid[c] = 0
  /\ Threshold[c] <= amount /\ amount <= pot[c]
  /\ paid' = [paid EXCEPT ![c] = amount]
  /\ phase' = [phase EXCEPT ![c] = "paying"]
  /\ UNCHANGED <<credited, held, pot>>

Settle(c) ==
  /\ phase[c] \in {"paying", "disputed"}
  /\ paid[c] > 0
  /\ phase' = [phase EXCEPT ![c] = "settled"]
  /\ UNCHANGED <<credited, held, pot, paid>>

Dispute(c) ==
  /\ phase[c] # "settled"
  /\ phase' = [phase EXCEPT ![c] = "disputed"]
  /\ UNCHANGED <<credited, held, pot, paid>>

Next ==
  \/ \E r \in Transfers : Credit(r) \/ Hold(r)
  \/ \E c \in Cycles :
       \/ Settle(c)
       \/ Dispute(c)
       \/ \E amount \in Threshold[c]..pot[c] : Pay(c, amount)

Spec == Init /\ [][Next]_promiseVars

===============================================================================
