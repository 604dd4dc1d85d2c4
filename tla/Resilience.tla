------------------------------ MODULE Resilience ------------------------------
(***************************************************************************)
(* The resilience scheduler beside the payout scheduler: cycles past their *)
(* due date that have not collected their threshold, the working capital   *)
(* of the group, the debts and the pro-rata debits, and the events of the  *)
(* outbox with their own unique key.                                       *)
(*                                                                         *)
(* As in module Kernel, a task reads a cycle, decides, and later writes in *)
(* one transaction, whatever has become of the cycle.  That a transaction  *)
(* is one step here, and that outcomes have no key of their own, is left   *)
(* to Kernel; the debits and the keys of the two schedulers are not.       *)
(***************************************************************************)
EXTENDS CycleAggregate, Integers, FiniteSetsExt

CONSTANTS
  Cycles,        \* cycles of one group, their due date past
  Tasks,         \* concurrent tokio tasks of both schedulers and of callbacks
  Threshold,     \* payout_threshold_minor of every cycle
  MaxCollected,  \* bound: contributions, of 1, to a cycle
  MaxFund        \* bound: balance of the fund

ASSUME ResilienceAssumption ==
  /\ Threshold \in Nat \ {0} /\ MaxCollected \in Nat /\ MaxFund \in Nat

VARIABLES
  policy,  \* resilience_policy of each cycle, fixed
  rows,    \* table cycles
  fund,    \* the group's row of table working_capital
  debts,   \* member_debts: what is owed for each cycle
  ledger,  \* debits of the cycles
  events,  \* debits the outbox has an event of
  task     \* what each task has read

tables == <<policy, rows, fund, debts, ledger, events>>
vars == <<tables, task>>

Policies == {"wait_for_threshold", "use_working_capital", "pro_rata",
             "working_capital_then_pro_rata"}

Kinds == {"payout", "pro_rata", "advance", "hybrid"}

Debit(kind, c, amount) == [kind |-> kind, cycle |-> c, amount |-> amount]

Debits(kind, c) == {e \in ledger : e.kind = kind /\ e.cycle = c}

(* The idempotency key of a debit: that of a payout does not name the      *)
(* amount, the others do.                                                  *)
Key(entry) ==
  IF entry.kind = "payout" THEN <<"payout", entry.cycle>>
  ELSE <<entry.kind, entry.cycle, entry.amount>>

(* Mutant: the key of the event does not name the amount.                  *)
OutboxKeyByCycle(entry) == <<entry.kind, entry.cycle>>

(* The event of a debit is inserted with the key of the debit.             *)
OutboxKey(entry) == Key(entry)

Fresh(entry) == \A other \in ledger : Key(other) # Key(entry)

(* ON CONFLICT (idempotency_key) DO NOTHING: no error tells of an event    *)
(* that is not inserted.                                                   *)
Queued(entry) ==
  IF \E other \in events : OutboxKey(other) = OutboxKey(entry)
    THEN events ELSE events \cup {entry}

Idle == [job |-> "none"]

-------------------------------------------------------------------------------

Init ==
  /\ policy \in [Cycles -> Policies]
  /\ rows = [c \in Cycles |->
       [state |-> "committed", payout |-> "not_sent", collected |-> 0]]
  /\ fund \in [balance: 0..MaxFund, reserved: {0}]
  /\ debts = [c \in Cycles |-> 0]
  /\ ledger = {}
  /\ events = {}
  /\ task = [t \in Tasks |-> Idle]

(* The end of the reads of task t.                                         *)
Decide(t, view) ==
  /\ task[t] = Idle
  /\ task' = [task EXCEPT ![t] = view]
  /\ UNCHANGED tables

Leave(t) == task' = [task EXCEPT ![t] = Idle]

(* The transaction is lost, or refused by a key, a CHECK or the trigger.   *)
Rollback(t) == task[t] # Idle /\ Leave(t) /\ UNCHANGED tables

-------------------------------------------------------------------------------
(* What each task reads.                                                   *)

(* A contribution: the last look at the cycle is that of the trigger of    *)
(* migration 007, and takes no lock.                                       *)
HandleCallback(t, c) ==
  /\ rows[c].state = "committed"
  /\ Decide(t, [job |-> "contribution", cycle |-> c])

(* `process_eligible_cycle` of the payout scheduler.                       *)
EvaluateCycle(t, c) ==
  /\ Eligible(rows[c], TRUE, Threshold)
  /\ Decide(t, [job |-> "payout", cycle |-> c, collected |-> rows[c].collected])

(* `confirm_payout` and `fail_payout`.                                     *)
ReadForOutcome(t, c) ==
  \/ MayConfirm(rows[c]) /\ Decide(t, [job |-> "confirmed", cycle |-> c])
  \/ /\ rows[c].payout \notin {"confirmed", "failed"}
     /\ Decide(t, [job |-> "failed", cycle |-> c])

(* Mutant: a cycle that has just its threshold is short.                   *)
ShortOrExact(row) ==
  row.state = "committed" /\ row.payout = "not_sent" /\ row.collected <= Threshold

Short(row) ==
  row.state = "committed" /\ row.payout = "not_sent" /\ row.collected < Threshold

(* `evaluate_resilience` reads the cycle, then the fund.                   *)
EvaluateResilience(t, c) ==
  /\ Short(rows[c]) /\ policy[c] # "wait_for_threshold"
  /\ Decide(t, [job |-> "resilience", cycle |-> c,
                collected |-> rows[c].collected, fund |-> fund])

-------------------------------------------------------------------------------
(* What each task writes.                                                  *)

(* The UPDATE adds to the row as it then is.                               *)
CommitContribution(t) ==
  LET c == task[t].cycle
  IN  /\ task[t].job = "contribution"
      /\ rows[c].collected < MaxCollected
      /\ rows' = [rows EXCEPT ![c].collected = @ + 1]
      /\ Leave(t)
      /\ UNCHANGED <<policy, fund, debts, ledger, events>>

Book(entry) ==
  /\ Fresh(entry)
  /\ ledger' = ledger \cup {entry}

(* `update_payout_state`, with the trigger on the row.                     *)
Update(c, payout) ==
  LET after == WithPayoutState(rows[c], payout)
  IN  TriggerAllows(rows[c], after) /\ rows' = [rows EXCEPT ![c] = after]

(* `initiate_payout`, for the total that was read.                         *)
InitiatePayout(t) ==
  LET entry == Debit("payout", task[t].cycle, task[t].collected)
  IN  /\ task[t].job = "payout"
      /\ Book(entry)
      /\ events' = Queued(entry)
      /\ Update(entry.cycle, "pending")
      /\ Leave(t)
      /\ UNCHANGED <<policy, fund, debts>>

RecordOutcome(t) ==
  /\ task[t].job \in {"confirmed", "failed"}
  /\ Update(task[t].cycle, task[t].job)
  /\ Leave(t)
  /\ UNCHANGED <<policy, fund, debts, ledger, events>>

(* What a pass has decided: `compute_advance` and the policy.  A hybrid    *)
(* never commits: its fund transaction names a ledger entry that does not  *)
(* exist.                                                                  *)
Decision(view) ==
  LET gap     == Threshold - view.collected
      advance == Min({gap, view.fund.balance - view.fund.reserved})
      full    == Debit("advance", view.cycle, gap)
      partial == Debit("hybrid", view.cycle, advance)
      proRata == Debit("pro_rata", view.cycle, view.collected)
  IN  CASE policy[view.cycle] = "pro_rata" -> proRata
        [] advance = gap -> full
        [] policy[view.cycle] = "use_working_capital" ->
             Debit("none", view.cycle, 0)
        [] advance = 0 -> proRata
        [] OTHER -> partial

(* `apply_pro_rata`: the cycle keeps its state and its collected amount.   *)
DispatchProRata(t) ==
  LET entry == Decision(task[t])
  IN  /\ task[t].job = "resilience"
      /\ entry.kind = "pro_rata" /\ entry.amount > 0
      /\ Book(entry)
      /\ events' = Queued(entry)
      /\ Leave(t)
      /\ UNCHANGED <<policy, rows, fund, debts>>

(* Mutant: the fund may release more than it has reserved.                 *)
FundAllowsUnreserved(after) == after.balance >= 0

(* The CHECKs of working_capital on the row confirm_advance_in_tx writes.  *)
FundAllows(after) ==
  /\ after.balance >= 0 /\ after.reserved >= 0
  /\ after.reserved <= after.balance

(* `try_full_advance`.  The reservation is made on a copy in memory and    *)
(* stored nowhere, so the transaction releases what was never reserved;    *)
(* the CHECKs refuse it and undo the entry and the debt with it.           *)
IssueAdvance(t) ==
  LET entry == Decision(task[t])
      after == [balance  |-> fund.balance - entry.amount,
                reserved |-> fund.reserved - entry.amount]
  IN  /\ task[t].job = "resilience"
      /\ entry.kind = "advance" /\ Fresh(entry)
      /\ IF FundAllows(after)
           THEN /\ ledger' = ledger \cup {entry}
                /\ fund' = after
                /\ debts' = [debts EXCEPT ![entry.cycle] = @ + entry.amount]
           ELSE UNCHANGED <<ledger, fund, debts>>
      /\ Leave(t)
      /\ UNCHANGED <<policy, rows, events>>

-------------------------------------------------------------------------------

Read(t, c) ==
  \/ HandleCallback(t, c) \/ EvaluateCycle(t, c)
  \/ ReadForOutcome(t, c) \/ EvaluateResilience(t, c)

Transact(t) ==
  \/ CommitContribution(t) \/ InitiatePayout(t) \/ RecordOutcome(t)
  \/ DispatchProRata(t) \/ IssueAdvance(t)

Next ==
  \E t \in Tasks :
    (\E c \in Cycles : Read(t, c)) \/ Transact(t) \/ Rollback(t)

Spec == Init /\ [][Next]_vars

-------------------------------------------------------------------------------
(* Properties.                                                             *)

Funds == [balance: 0..MaxFund, reserved: 0..MaxFund]

Views ==
  [job: {"contribution", "confirmed", "failed"}, cycle: Cycles]
    \cup [job: {"payout"}, cycle: Cycles, collected: Nat]
    \cup [job: {"resilience"}, cycle: Cycles, collected: Nat, fund: Funds]

TypeOK ==
  /\ policy \in [Cycles -> Policies]
  /\ rows \in [Cycles -> CycleRows]
  /\ fund \in Funds
  /\ debts \in [Cycles -> 0..MaxFund]
  /\ ledger \subseteq [kind: Kinds, cycle: Cycles, amount: Nat]
  /\ events \subseteq ledger
  /\ task \in [Tasks -> Views \cup {Idle}]

(* Passes and evaluations that overlap or repeat: every pro-rata debit and *)
(* every payout has its event, for its amount, although an event whose key *)
(* is taken is dropped without an error; and no event tells of more than   *)
(* the cycle has collected.                                                *)
DebitsTold ==
  /\ events = {e \in ledger : e.kind \in {"pro_rata", "payout"}}
  /\ \A e \in events : e.amount <= rows[e.cycle].collected

(* Two schedulers decide on one cycle from reads of different age: the     *)
(* resilience one never debits what would make the cycle payable, the      *)
(* payout one never less, never more than was collected and only once,     *)
(* even if contributions, failures and confirmations come in between.      *)
SchedulersApart ==
  \A c \in Cycles :
    /\ \A e \in Debits("pro_rata", c) : e.amount < Threshold
    /\ \A e \in Debits("payout", c) :
         /\ Debits("payout", c) = {e}
         /\ Threshold <= e.amount /\ e.amount <= rows[c].collected
         /\ rows[c].state # "committed"

-------------------------------------------------------------------------------
(* Statements of the repository that the code does not keep.               *)

(* Header of the resilience scheduler: no collision with the other one.    *)
(* What the payout scheduler has ordered is not debited by a pass.  It     *)
(* takes one task at a time on a cycle to make it so (Resilience_proofs).  *)
NoCollision ==
  [][\A e \in ledger' \ ledger :
       e.kind = "pro_rata" => Debits("payout", e.cycle) = {}]_vars


===============================================================================
