--------------------------- MODULE Resilience_proofs ---------------------------
(***************************************************************************)
(* Theorems about the two schedulers, for any number of cycles and of      *)
(* overlapping tasks, any threshold and any fund.                          *)
(*                                                                         *)
(* A task writes what it decided on reads that are stale by then.  What    *)
(* makes it safe is on which side of the threshold the total was that it   *)
(* has read, that totals only grow, and the keys; ResInv adds the first.   *)
(***************************************************************************)
EXTENDS Resilience, TLAPS

(* Nothing is ever reserved, so no advance is ever booked.                 *)
UnreservedFunds == [balance: 0..MaxFund, reserved: {0}]

ReadViews ==
  [job: {"contribution", "confirmed", "failed"}, cycle: Cycles]
    \cup [job: {"payout"}, cycle: Cycles, collected: Nat]
    \cup [job: {"resilience"}, cycle: Cycles, collected: Nat,
          fund: UnreservedFunds]

Entries == [kind: {"payout", "pro_rata"}, cycle: Cycles, amount: Nat]

Shape ==
  /\ policy \in [Cycles -> Policies]
  /\ rows \in [Cycles -> CycleRows]
  /\ fund \in UnreservedFunds
  /\ debts = [c \in Cycles |-> 0]
  /\ ledger \subseteq Entries
  /\ events = ledger
  /\ task \in [Tasks -> ReadViews \cup {Idle}]

(* What a task has read of a cycle is on the side of the threshold its     *)
(* scheduler looks at, and no more than the cycle has now.                 *)
Justified(view, table) ==
  /\ view.job = "resilience" =>
       view.collected < Threshold /\ view.collected <= table[view.cycle].collected
  /\ view.job = "payout" =>
       Threshold <= view.collected /\ view.collected <= table[view.cycle].collected

(* The same of a debit.                                                    *)
Backed(e, table) ==
  /\ e.amount <= table[e.cycle].collected
  /\ e.kind = "pro_rata" => e.amount < Threshold
  /\ e.kind = "payout" =>
       Threshold <= e.amount /\ table[e.cycle].state # "committed"

OnePayout ==
  \A e, f \in ledger :
    e.kind = "payout" /\ f.kind = "payout" /\ e.cycle = f.cycle => e = f

ResInv ==
  /\ Shape
  /\ \A t \in Tasks : task[t] # Idle => Justified(task[t], rows)
  /\ \A e \in ledger : Backed(e, rows)
  /\ OnePayout

(* What every step does to the rows: totals do not shrink, and no cycle    *)
(* returns to `committed`.                                                 *)
RowsGrow ==
  /\ rows' \in [Cycles -> CycleRows]
  /\ \A c \in Cycles :
       /\ rows[c].collected <= rows'[c].collected
       /\ rows[c].state # "committed" => rows'[c].state # "committed"

-------------------------------------------------------------------------------

USE ResilienceAssumption

LEMMA IdleIsNoView == Idle \notin ReadViews
  BY DEF Idle, ReadViews

LEMMA ViewCycle == \A view \in ReadViews : view.cycle \in Cycles
  BY DEF ReadViews

LEMMA RowTypes ==
  ASSUME ResInv, NEW c \in Cycles
  PROVE  rows[c] \in CycleRows /\ rows[c].collected \in Nat
  BY DEF ResInv, Shape, CycleRows

LEMMA UnchangedGrows ==
  ASSUME ResInv, UNCHANGED rows
  PROVE  RowsGrow
  BY RowTypes DEF ResInv, Shape, RowsGrow

LEMMA JustifiedStays ==
  ASSUME ResInv, RowsGrow, NEW view \in ReadViews, Justified(view, rows)
  PROVE  Justified(view, rows')
<1>1. view.cycle \in Cycles
  BY ViewCycle
<1>2. rows[view.cycle].collected \in Nat /\ rows'[view.cycle].collected \in Nat
  BY <1>1 DEF ResInv, Shape, RowsGrow, CycleRows
<1>3. view.job \in {"resilience", "payout"} => view.collected \in Nat
  BY DEF ReadViews
<1> QED BY <1>1, <1>2, <1>3 DEF Justified, RowsGrow

LEMMA BackedStays ==
  ASSUME ResInv, RowsGrow, NEW e \in Entries, Backed(e, rows)
  PROVE  Backed(e, rows')
<1>1. e.cycle \in Cycles /\ e.amount \in Nat
  BY DEF Entries
<1>2. rows[e.cycle].collected \in Nat /\ rows'[e.cycle].collected \in Nat
  BY <1>1 DEF ResInv, Shape, RowsGrow, CycleRows
<1> QED BY <1>1, <1>2 DEF Backed, RowsGrow

(* A step that ends a task and books nothing.                              *)
LEMMA TaskEnds ==
  ASSUME ResInv, RowsGrow, NEW t \in Tasks, Leave(t),
         UNCHANGED <<policy, fund, debts, ledger, events>>
  PROVE  ResInv'
<1>1. Shape'
  BY DEF ResInv, Shape, Leave, RowsGrow
<1>2. \A u \in Tasks : task'[u] # Idle => Justified(task'[u], rows')
  <2> SUFFICES ASSUME NEW u \in Tasks, task'[u] # Idle
               PROVE  Justified(task'[u], rows')
    OBVIOUS
  <2>1. task'[u] = task[u] /\ task[u] \in ReadViews
    BY DEF Leave, ResInv, Shape
  <2>2. Justified(task[u], rows)
    BY <2>1 DEF ResInv
  <2> QED BY <2>1, <2>2, JustifiedStays
<1>3. \A e \in ledger' : Backed(e, rows')
  BY BackedStays DEF ResInv, Shape
<1>4. OnePayout'
  BY DEF ResInv, OnePayout
<1> QED BY <1>1, <1>2, <1>3, <1>4 DEF ResInv

(* A step that books a debit with its event: its key being free in the     *)
(* ledger, it is free in the outbox.                                       *)
LEMMA DebitBooked ==
  ASSUME ResInv, RowsGrow, NEW t \in Tasks, Leave(t),
         UNCHANGED <<policy, fund, debts>>,
         NEW e \in Entries, Book(e), events' = Queued(e), Backed(e, rows')
  PROVE  ResInv'
<1>1. events' = ledger' /\ ledger' = ledger \cup {e}
  BY DEF Book, Fresh, Queued, OutboxKey, ResInv, Shape
<1>2. Shape'
  BY <1>1 DEF ResInv, Shape, Leave, RowsGrow
<1>3. \A u \in Tasks : task'[u] # Idle => Justified(task'[u], rows')
  <2> SUFFICES ASSUME NEW u \in Tasks, task'[u] # Idle
               PROVE  Justified(task'[u], rows')
    OBVIOUS
  <2>1. task'[u] = task[u] /\ task[u] \in ReadViews
    BY DEF Leave, ResInv, Shape
  <2>2. Justified(task[u], rows)
    BY <2>1 DEF ResInv
  <2> QED BY <2>1, <2>2, JustifiedStays
<1>4. \A f \in ledger' : Backed(f, rows')
  BY <1>1, BackedStays DEF ResInv, Shape
<1>5. OnePayout'
  <2>1. ASSUME NEW f \in ledger, f.kind = "payout", e.kind = "payout"
        PROVE  f.cycle # e.cycle
    BY <2>1 DEF Book, Fresh, Key
  <2> QED BY <1>1, <2>1 DEF ResInv, OnePayout
<1> QED BY <1>2, <1>3, <1>4, <1>5 DEF ResInv

LEMMA InitResInv == Init => ResInv
  BY DEF Init, ResInv, Shape, UnreservedFunds, OnePayout, Idle, CycleRows,
         CycleStates, PayoutStates

LEMMA DecideStep ==
  ASSUME ResInv, NEW t \in Tasks, NEW view \in ReadViews,
         Decide(t, view), Justified(view, rows)
  PROVE  ResInv'
<1>1. task' = [task EXCEPT ![t] = view] /\ UNCHANGED tables
  BY DEF Decide
<1>2. Shape'
  BY <1>1 DEF ResInv, Shape, tables
<1>3. \A u \in Tasks : task'[u] # Idle => Justified(task'[u], rows)
  BY <1>1 DEF ResInv, Shape
<1> QED
  BY <1>1, <1>2, <1>3 DEF ResInv, OnePayout, tables

LEMMA ReadStep ==
  ASSUME ResInv, NEW t \in Tasks, NEW c \in Cycles, Read(t, c)
  PROVE  ResInv'
<1> DEFINE payout == [job |-> "payout", cycle |-> c,
                      collected |-> rows[c].collected]
           pass == [job |-> "resilience", cycle |-> c,
                    collected |-> rows[c].collected, fund |-> fund]
<1>1. rows[c].collected \in Nat /\ fund \in UnreservedFunds
  BY RowTypes DEF ResInv, Shape
<1>2. ASSUME NEW job \in {"contribution", "confirmed", "failed"},
             Decide(t, [job |-> job, cycle |-> c])
      PROVE  ResInv'
  <2> DEFINE view == [job |-> job, cycle |-> c]
  <2>1. view \in ReadViews /\ Justified(view, rows)
    BY DEF ReadViews, Justified
  <2> HIDE DEF view
  <2>2. Decide(t, view)
    BY <1>2 DEF view
  <2> QED BY <2>1, <2>2, DecideStep
<1>3. CASE HandleCallback(t, c) \/ ReadForOutcome(t, c)
  BY <1>2, <1>3 DEF HandleCallback, ReadForOutcome
<1>4. CASE EvaluateCycle(t, c)
  <2>1. payout \in ReadViews /\ Justified(payout, rows) /\ Decide(t, payout)
    BY <1>1, <1>4 DEF ReadViews, Justified, EvaluateCycle, Eligible
  <2> QED BY <2>1, DecideStep
<1>5. CASE EvaluateResilience(t, c)
  <2>1. pass \in ReadViews /\ Justified(pass, rows) /\ Decide(t, pass)
    BY <1>1, <1>5 DEF ReadViews, Justified, EvaluateResilience, Short
  <2> QED BY <2>1, DecideStep
<1> QED BY <1>3, <1>4, <1>5 DEF Read

LEMMA ContributionStep ==
  ASSUME ResInv, NEW t \in Tasks, CommitContribution(t)
  PROVE  ResInv'
<1> DEFINE c == task[t].cycle
<1>1. task[t] # Idle
  BY DEF CommitContribution, Idle
<1>2. c \in Cycles
  BY <1>1, ViewCycle DEF ResInv, Shape
<1>3. rows' = [rows EXCEPT ![c].collected = @ + 1]
  BY DEF CommitContribution
<1>4. RowsGrow
  BY <1>2, <1>3, RowTypes DEF RowsGrow, ResInv, Shape, CycleRows
<1> QED BY <1>4, TaskEnds DEF CommitContribution

(* Every write of a payout state takes the cycle out of `committed`.       *)
LEMMA UpdateIs ==
  ASSUME ResInv, NEW c \in Cycles,
         NEW payout \in {"pending", "confirmed", "failed"}, Update(c, payout)
  PROVE  RowsGrow /\ rows'[c].state # "committed"
<1>1. StateOf(payout) \in CycleStates \ {"committed"}
  BY DEF StateOf, CycleStates
<1>2. rows' = [rows EXCEPT ![c] =
                 [rows[c] EXCEPT !.payout = payout, !.state = StateOf(payout)]]
  BY DEF Update, WithPayoutState
<1>3. payout \in PayoutStates
  BY DEF PayoutStates
<1>4. /\ rows'[c].state = StateOf(payout)
      /\ rows'[c].collected = rows[c].collected
      /\ rows'[c] \in CycleRows
      /\ \A d \in Cycles \ {c} : rows'[d] = rows[d]
  BY <1>1, <1>2, <1>3, RowTypes DEF ResInv, Shape, CycleRows
<1>5. rows' \in [Cycles -> CycleRows]
  BY <1>2, <1>4 DEF ResInv, Shape
<1> QED BY <1>1, <1>4, <1>5, RowTypes DEF RowsGrow

LEMMA PayoutStep ==
  ASSUME ResInv, NEW t \in Tasks, InitiatePayout(t)
  PROVE  ResInv'
<1> DEFINE view == task[t]
           e == Debit("payout", view.cycle, view.collected)
<1>1. view.job = "payout" /\ view # Idle
  BY DEF InitiatePayout, Idle
<1>2. view \in ReadViews /\ Justified(view, rows)
  BY <1>1 DEF ResInv, Shape
<1>3. view.cycle \in Cycles /\ view.collected \in Nat
  BY <1>1, <1>2 DEF ReadViews
<1>4. /\ e.kind = "payout" /\ e.cycle = view.cycle /\ e.amount = view.collected
      /\ e \in Entries
  BY <1>3 DEF Debit, Entries
<1>5. /\ Book(e) /\ events' = Queued(e) /\ Update(e.cycle, "pending")
      /\ Leave(t) /\ UNCHANGED <<policy, fund, debts>>
  BY DEF InitiatePayout
<1> HIDE DEF e
<1>6. RowsGrow /\ rows'[e.cycle].state # "committed"
  BY <1>3, <1>4, <1>5, UpdateIs
<1>7. Justified(view, rows')
  BY <1>2, <1>6, JustifiedStays
<1>8. Backed(e, rows')
  BY <1>1, <1>4, <1>6, <1>7 DEF Justified, Backed
<1> QED BY <1>4, <1>5, <1>6, <1>8, DebitBooked

LEMMA OutcomeStep ==
  ASSUME ResInv, NEW t \in Tasks, RecordOutcome(t)
  PROVE  ResInv'
<1>1. task[t] # Idle /\ task[t].job \in {"confirmed", "failed"}
  BY DEF RecordOutcome, Idle
<1>2. task[t].cycle \in Cycles
  BY <1>1, ViewCycle DEF ResInv, Shape
<1>3. RowsGrow
  BY <1>1, <1>2, UpdateIs DEF RecordOutcome
<1> QED BY <1>3, TaskEnds DEF RecordOutcome

(* What a pass decides on: the cycle it read; distributes the total it     *)
(* read, or advances the whole gap.                                        *)
LEMMA DecisionIs ==
  ASSUME NEW view \in ReadViews, view.job = "resilience",
         view.collected < Threshold
  PROVE  /\ Decision(view).kind = "pro_rata" =>
              Decision(view) = Debit("pro_rata", view.cycle, view.collected)
         /\ Decision(view).kind = "advance" =>
              Decision(view) = Debit("advance", view.cycle, Threshold - view.collected)
  BY DEF Decision, Debit

LEMMA ProRataStep ==
  ASSUME ResInv, NEW t \in Tasks, DispatchProRata(t)
  PROVE  ResInv'
<1> DEFINE view == task[t]
           e == Decision(view)
<1>1. /\ view.job = "resilience" /\ view # Idle
      /\ e.kind = "pro_rata" /\ Book(e) /\ events' = Queued(e)
      /\ Leave(t) /\ UNCHANGED <<policy, rows, fund, debts>>
  BY DEF DispatchProRata, Idle
<1>2. view \in ReadViews /\ Justified(view, rows)
  BY <1>1 DEF ResInv, Shape
<1>3. view.cycle \in Cycles /\ view.collected \in Nat
  BY <1>1, <1>2 DEF ReadViews
<1>4. e = Debit("pro_rata", view.cycle, view.collected)
  BY <1>1, <1>2, DecisionIs DEF Justified
<1> HIDE DEF e
<1>5. e \in Entries
  BY <1>3, <1>4 DEF Debit, Entries
<1>6. Backed(e, rows')
  BY <1>1, <1>2, <1>4 DEF Debit, Justified, Backed
<1> QED BY <1>1, <1>5, <1>6, UnchangedGrows, DebitBooked

(* The fund has reserved nothing, so the CHECKs undo what would advance.   *)
LEMMA AdvanceUndone ==
  ASSUME ResInv, NEW t \in Tasks, IssueAdvance(t)
  PROVE  UNCHANGED <<ledger, fund, debts>>
<1> DEFINE view == task[t]
           e == Decision(view)
           after == [balance  |-> fund.balance - e.amount,
                     reserved |-> fund.reserved - e.amount]
<1>1. view.job = "resilience" /\ view # Idle /\ e.kind = "advance"
  BY DEF IssueAdvance, Idle
<1>2. view \in ReadViews /\ Justified(view, rows)
  BY <1>1 DEF ResInv, Shape
<1>3. view.collected \in Nat /\ view.collected < Threshold
  BY <1>1, <1>2 DEF ReadViews, Justified
<1>4. e.amount = Threshold - view.collected
  BY <1>1, <1>2, <1>3, DecisionIs DEF Debit
<1> HIDE DEF e
<1>5. fund.reserved = 0 /\ e.amount > 0 /\ e.amount \in Nat
  BY <1>3, <1>4 DEF ResInv, Shape, UnreservedFunds
<1>6. ~FundAllows(after)
  BY <1>5 DEF FundAllows
<1> QED BY <1>6 DEF IssueAdvance, e

LEMMA AdvanceStep ==
  ASSUME ResInv, NEW t \in Tasks, IssueAdvance(t)
  PROVE  ResInv'
<1>1. Leave(t) /\ UNCHANGED <<policy, rows, fund, debts, ledger, events>>
  BY AdvanceUndone DEF IssueAdvance
<1> QED BY <1>1, UnchangedGrows, TaskEnds

LEMMA ResInvStep == ResInv /\ [Next]_vars => ResInv'
<1> SUFFICES ASSUME ResInv, [Next]_vars PROVE ResInv'
  OBVIOUS
<1>1. CASE UNCHANGED vars
  BY <1>1 DEF vars, tables, ResInv, Shape, OnePayout
<1>2. ASSUME NEW t \in Tasks, Rollback(t)
      PROVE  ResInv'
  BY <1>2, UnchangedGrows, TaskEnds DEF Rollback, tables
<1>3. ASSUME NEW t \in Tasks, Transact(t)
      PROVE  ResInv'
  BY <1>3, ContributionStep, PayoutStep, OutcomeStep, ProRataStep, AdvanceStep
  DEF Transact
<1> QED BY <1>1, <1>2, <1>3, ReadStep DEF Next

(* Two schedulers and any number of overlapping tasks keep the invariant.  *)
THEOREM ResilienceInvariant == Spec => []ResInv
  BY InitResInv, ResInvStep, PTL DEF Spec

(* Every variable keeps its type; the CHECKs of working_capital hold.      *)
THEOREM ResilienceTypeCorrect == Spec => []TypeOK
<1>1. ASSUME ResInv PROVE TypeOK
  <2>1. ReadViews \subseteq Views /\ UnreservedFunds \subseteq Funds
    BY DEF ReadViews, Views, UnreservedFunds, Funds
  <2>2. Entries \subseteq [kind: Kinds, cycle: Cycles, amount: Nat]
    BY DEF Entries, Kinds
  <2>3. debts \in [Cycles -> 0..MaxFund]
    BY <1>1 DEF ResInv, Shape
  <2> QED BY <1>1, <2>1, <2>2, <2>3 DEF ResInv, Shape, TypeOK
<1> QED BY <1>1, ResilienceInvariant, PTL

(* apply_pro_rata and initiate_payout: every debit has its event.  A key   *)
(* that is free in the ledger is free in the outbox, as both are given the *)
(* same, so that ON CONFLICT DO NOTHING never drops one.                   *)
THEOREM DebitsAreTold == Spec => []DebitsTold
<1>1. ResInv => DebitsTold
  BY DEF ResInv, Shape, Entries, Backed, DebitsTold
<1> QED BY <1>1, ResilienceInvariant, PTL

(* evaluate_resilience and process_eligible_cycle on one cycle: the total  *)
(* each has read keeps the two apart however stale it is by the commit,    *)
(* and the key of the payout keeps it single.                              *)
THEOREM SchedulersStayApart == Spec => []SchedulersApart
<1>1. ASSUME ResInv, NEW c \in Cycles
      PROVE  /\ \A e \in Debits("pro_rata", c) : e.amount < Threshold
             /\ \A e \in Debits("payout", c) :
                  /\ Debits("payout", c) = {e}
                  /\ Threshold <= e.amount /\ e.amount <= rows[c].collected
                  /\ rows[c].state # "committed"
  <2>1. \A e \in ledger : Backed(e, rows)
    BY <1>1 DEF ResInv
  <2>2. ASSUME NEW e \in Debits("payout", c)
        PROVE  Debits("payout", c) = {e}
    BY <1>1, <2>2 DEF Debits, ResInv, OnePayout
  <2> QED BY <2>1, <2>2 DEF Debits, Backed
<1>2. ResInv => SchedulersApart
  BY <1>1 DEF SchedulersApart
<1> QED BY <1>2, ResilienceInvariant, PTL

(* try_full_advance: whatever the fund holds and however the passes        *)
(* overlap, no advance ever changes the fund or leaves a debt, because the *)
(* transaction releases a reservation that was never stored.               *)
THEOREM FundIsNeverUsed == Spec => [][UNCHANGED <<fund, debts>>]_vars
<1>1. ResInv /\ [Next]_vars => [UNCHANGED <<fund, debts>>]_vars
  <2> SUFFICES ASSUME ResInv, [Next]_vars PROVE UNCHANGED <<fund, debts>>
    OBVIOUS
  <2>1. ASSUME NEW t \in Tasks, NEW c \in Cycles, Read(t, c)
        PROVE  UNCHANGED <<fund, debts>>
    BY <2>1 DEF Read, HandleCallback, EvaluateCycle, ReadForOutcome,
                EvaluateResilience, Decide, tables
  <2>2. ASSUME NEW t \in Tasks, Transact(t)
        PROVE  UNCHANGED <<fund, debts>>
    BY <2>2, AdvanceUndone DEF Transact, CommitContribution, InitiatePayout,
                               RecordOutcome, DispatchProRata
  <2> QED BY <2>1, <2>2 DEF Next, vars, tables, Rollback
<1> QED BY <1>1, ResilienceInvariant, PTL DEF Spec

-------------------------------------------------------------------------------
(* What a lock on the cycle, held from the first read to the commit, would *)
(* give: one task at a time on each cycle.  The code takes none; the       *)
(* theorem has it as its hypothesis.                                       *)
OneTaskPerCycle ==
  \A t, u \in Tasks :
    task[t] # Idle /\ task[u] # Idle /\ task[t].cycle = task[u].cycle => t = u

PassesCurrent ==
  \A t \in Tasks :
    task[t].job = "resilience" => rows[task[t].cycle].state = "committed"

LEMMA ReadKeepsCurrent ==
  ASSUME ResInv, PassesCurrent, NEW t \in Tasks, NEW c \in Cycles, Read(t, c)
  PROVE  PassesCurrent'
<1>1. ASSUME NEW view, Decide(t, view),
             view.job = "resilience" => rows[view.cycle].state = "committed"
      PROVE  PassesCurrent'
  BY <1>1 DEF Decide, tables, PassesCurrent, ResInv, Shape
<1>2. CASE EvaluateResilience(t, c)
  BY <1>1, <1>2 DEF EvaluateResilience, Short
<1>3. CASE HandleCallback(t, c)
  BY <1>1, <1>3 DEF HandleCallback
<1>4. CASE EvaluateCycle(t, c)
  BY <1>1, <1>4 DEF EvaluateCycle
<1>5. CASE ReadForOutcome(t, c)
  BY <1>1, <1>5 DEF ReadForOutcome
<1> QED BY <1>2, <1>3, <1>4, <1>5 DEF Read

LEMMA TransactKeepsCurrent ==
  ASSUME ResInv, OneTaskPerCycle, PassesCurrent, NEW t \in Tasks,
         Transact(t) \/ Rollback(t)
  PROVE  PassesCurrent'
<1>1. task[t] # Idle /\ Leave(t)
  BY DEF Transact, Rollback, CommitContribution, InitiatePayout, RecordOutcome,
         DispatchProRata, IssueAdvance, Idle
<1>2. \A c \in Cycles : c # task[t].cycle => rows'[c] = rows[c]
  BY DEF Transact, Rollback, CommitContribution, InitiatePayout, RecordOutcome,
         DispatchProRata, IssueAdvance, Update, Debit, tables, ResInv, Shape
<1> SUFFICES ASSUME NEW u \in Tasks, task'[u].job = "resilience"
             PROVE  rows'[task'[u].cycle].state = "committed"
  BY DEF PassesCurrent
<1>3. u # t /\ task'[u] = task[u] /\ task[u] # Idle
  BY <1>1 DEF Leave, Idle, ResInv, Shape
<1>4. task[u].cycle \in Cycles /\ task[u].cycle # task[t].cycle
  BY <1>1, <1>3, ViewCycle DEF OneTaskPerCycle, ResInv, Shape
<1> QED BY <1>2, <1>3, <1>4 DEF PassesCurrent

(* Header of the resilience scheduler: with one task at a time on a cycle, *)
(* a pass would not debit what the payout scheduler has ordered.           *)
THEOREM OneTaskPerCycleAvoidsCollision ==
  Spec /\ []OneTaskPerCycle => NoCollision
<1> DEFINE A == \A e \in ledger' \ ledger :
                  e.kind = "pro_rata" => Debits("payout", e.cycle) = {}
<1>1. Init => PassesCurrent
  BY DEF Init, PassesCurrent, Idle
<1>2. ResInv /\ OneTaskPerCycle /\ PassesCurrent /\ [Next]_vars => PassesCurrent'
  BY ReadKeepsCurrent, TransactKeepsCurrent
  DEF Next, vars, tables, PassesCurrent
<1>3. ResInv /\ PassesCurrent /\ [Next]_vars => [A]_vars
  <2> SUFFICES ASSUME ResInv, PassesCurrent, [Next]_vars,
                      NEW e \in ledger' \ ledger, e.kind = "pro_rata",
                      NEW d \in Debits("payout", e.cycle)
               PROVE  FALSE
    BY DEF Debits
  <2>1. PICK t \in Tasks : Transact(t)
    BY DEF Next, vars, tables, Rollback, Read, HandleCallback, EvaluateCycle,
           ReadForOutcome, EvaluateResilience, Decide
  <2>2. DispatchProRata(t) /\ e = Decision(task[t])
    <3>1. ledger' \in {ledger} \/ InitiatePayout(t) \/ DispatchProRata(t)
      BY <2>1, AdvanceUndone DEF Transact, CommitContribution, RecordOutcome
    <3>2. ~InitiatePayout(t)
      BY DEF InitiatePayout, Book, Debit
    <3> QED BY <3>1, <3>2 DEF DispatchProRata, Book
  <2>3. task[t] \in ReadViews /\ task[t].job = "resilience"
    BY <2>2 DEF DispatchProRata, Idle, ResInv, Shape
  <2>4. e.cycle = task[t].cycle
    BY <2>2, <2>3, DecisionIs DEF Debit, ResInv, Justified, Idle
  <2>5. rows[e.cycle].state = "committed"
    BY <2>3, <2>4 DEF PassesCurrent
  <2>6. d \in ledger /\ d.kind = "payout" /\ d.cycle = e.cycle
    BY DEF Debits
  <2>7. Backed(d, rows)
    BY <2>6 DEF ResInv
  <2> QED BY <2>5, <2>6, <2>7 DEF Backed
<1> QED
  BY <1>1, <1>2, <1>3, ResilienceInvariant, PTL DEF Spec, NoCollision

===============================================================================
