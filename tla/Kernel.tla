-------------------------------- MODULE Kernel --------------------------------
(***************************************************************************)
(* The financial kernel: ContributionService and PayoutService over one    *)
(* PostgreSQL database, with any number of requests in flight.             *)
(*                                                                         *)
(* Every operation of both services has the same shape:                    *)
(*   1. reads outside any transaction, on which it decides what to do;     *)
(*   2. a transaction that appends one ledger entry, whose idempotency     *)
(*      key is UNIQUE, then writes its tables and the outbox, and commits. *)
(* A task (a tokio task: an HTTP request or a scheduler tick) is at        *)
(*   idle    no request;                                                   *)
(*   begin   decided on what it read, transaction not begun;               *)
(*   insert  contribution whose ledger entry is appended, row not yet;     *)
(*   commit  all checks done, the last UPDATE and the COMMIT to come.      *)
(* The entry a task means to append says which operation it performs.      *)
(*                                                                         *)
(* Writes become visible at COMMIT (READ COMMITTED).  The last UPDATE, the *)
(* outbox INSERT and the COMMIT are one step: the UPDATE holds the row     *)
(* lock until the COMMIT, so nobody acts on that row in between.           *)
(* Transactions may overlap: the lock `append` takes on the last ledger    *)
(* row does not serialise them (module LedgerChain).                       *)
(***************************************************************************)
EXTENDS CycleAggregate, FiniteSets, FiniteSetsExt

CONSTANTS
  Cycles,      \* cycles, committed when the kernel first sees them
  TxRefs,      \* provider_tx_ref of the members' transfers
  CycleOf,     \* the cycle a transfer pays into
  AmountOf,    \* the amount of a transfer
  Threshold,   \* payout_threshold_minor of a cycle
  OpRefs,      \* external references the operators give to payouts
  PayoutOf,    \* the cycle whose payout a reference names
  Tasks,       \* concurrent tokio tasks
  MaxCrashes   \* bound: requests lost to a crash or a database error

ASSUME KernelAssumption ==
  /\ CycleOf \in [TxRefs -> Cycles]
  /\ AmountOf \in [TxRefs -> Nat \ {0}]
  /\ Threshold \in [Cycles -> Nat \ {0}]
  /\ PayoutOf \in [OpRefs -> Cycles]
  /\ MaxCrashes \in Nat

VARIABLES
  cycles,         \* table cycles
  due,            \* cycles whose due_date has passed
  contributions,  \* table contributions
  ledger,         \* table ledger_entries, committed rows
  outbox,         \* table outbox_events: keys of the events ever inserted
  pc,             \* where each task is
  entry,          \* the ledger entry each task means to append
  crashes         \* requests lost so far

vars == <<cycles, due, contributions, ledger, outbox, pc, entry, crashes>>

-------------------------------------------------------------------------------

ContributionEvents == {"contribution_received", "contribution_quarantined"}
PayoutEvents == {"payout_initiated", "payout_confirmed", "payout_failed"}

(* A ledger entry; `id` is what its idempotency key is made of: the        *)
(* transfer's reference, the operator's reference, or the cycle.           *)
Events == ContributionEvents \cup PayoutEvents

Ids == TxRefs \cup OpRefs \cup Cycles

Entries == [event: Events, cycle: Cycles, id: Ids, amount: Nat]

NoEntry == [event |-> "none"]

Rows ==
  [ref: TxRefs, cycle: Cycles, amount: Nat,
   status: {"reconciled", "quarantined"}]

(* Mutant: a key that names the amount.                                    *)
KeyWithAmount(e) == <<e.event, <<e.id, e.amount>>>>

Key(e) == <<e.event, e.id>>

Keys(S) == {Key(e) : e \in S}

(* Entries appended by open transactions of other tasks.                   *)
InFlight(t) == {u \in Tasks \ {t} : pc[u] \in {"insert", "commit"}}

RowOf(e) ==
  [ref |-> e.id, cycle |-> e.cycle, amount |-> e.amount,
   status |-> IF e.event = "contribution_received"
                THEN "reconciled" ELSE "quarantined"]

(* Mutant: a quarantined transfer is counted.                              *)
CollectedAny(e) == e.amount

(* What a contribution adds to collected_amount_minor.                     *)
Collected(e) == IF e.event = "contribution_received" THEN e.amount ELSE 0

PayoutStateAfter(event) ==
  CASE event = "payout_initiated" -> "pending"
    [] event = "payout_confirmed" -> "confirmed"
    [] OTHER                      -> "failed"

-------------------------------------------------------------------------------

Init ==
  /\ cycles = [c \in Cycles |->
       [state |-> "committed", payout |-> "not_sent", collected |-> 0]]
  /\ due = {}
  /\ contributions = {}
  /\ ledger = {}
  /\ outbox = {}
  /\ pc = [t \in Tasks |-> "idle"]
  /\ entry = [t \in Tasks |-> NoEntry]
  /\ crashes = 0

DueDatePasses(c) ==
  /\ c \notin due
  /\ due' = due \cup {c}
  /\ UNCHANGED <<cycles, contributions, ledger, outbox, pc, entry, crashes>>

(* The end of the reads: task t will append e.                             *)
Decide(t, e) ==
  /\ pc[t] = "idle"
  /\ pc' = [pc EXCEPT ![t] = "begin"]
  /\ entry' = [entry EXCEPT ![t] = e]
  /\ UNCHANGED <<cycles, due, contributions, ledger, outbox, crashes>>

(* Transaction of t rolled back or over: back to idle.                     *)
Leave(t) ==
  /\ pc' = [pc EXCEPT ![t] = "idle"]
  /\ entry' = [entry EXCEPT ![t] = NoEntry]

Rollback(t) ==
  /\ Leave(t)
  /\ UNCHANGED <<cycles, due, contributions, ledger, outbox, crashes>>

-------------------------------------------------------------------------------
(* The reads of each operation.                                            *)

(* `handle_callback`: the transfer is not recorded, its cycle is           *)
(* committed, and its payer is resolved or not.  Bindings of wallets to    *)
(* identities change outside the kernel, so either can be read.            *)
HandleCallback(t, r) ==
  /\ \A row \in contributions : row.ref # r
  /\ cycles[CycleOf[r]].state = "committed"
  /\ \E event \in ContributionEvents :
       Decide(t, [event |-> event, cycle |-> CycleOf[r], id |-> r,
                  amount |-> AmountOf[r]])

(* `process_eligible_cycle`: the payout is for the amount collected when   *)
(* the cycle was read.  Ticks overlap, each in a task of its own.          *)
EvaluateCycle(t, c) ==
  /\ Eligible(cycles[c], c \in due, Threshold[c])
  /\ Decide(t, [event |-> "payout_initiated", cycle |-> c, id |-> c,
                amount |-> cycles[c].collected])

(* `confirm_payout`, up to its transaction.                                *)
ConfirmPayout(t, x) ==
  /\ MayConfirm(cycles[PayoutOf[x]])
  /\ Decide(t, [event |-> "payout_confirmed", cycle |-> PayoutOf[x],
                id |-> x, amount |-> 0])

(* `fail_payout`, up to its transaction.  It also accepts a cycle whose    *)
(* payout was never initiated.                                             *)
FailPayout(t, x) ==
  /\ cycles[PayoutOf[x]].payout \notin {"confirmed", "failed"}
  /\ Decide(t, [event |-> "payout_failed", cycle |-> PayoutOf[x],
                id |-> x, amount |-> 0])

-------------------------------------------------------------------------------
(* The transactions.                                                       *)

(* Mutant: the key is looked up, not constrained.                          *)
AppendLookup(t) ==
  /\ pc[t] = "begin"
  /\ Key(entry[t]) \notin Keys(ledger)
  /\ pc' = [pc EXCEPT ![t] = IF entry[t].event \in ContributionEvents
                               THEN "insert" ELSE "commit"]
  /\ UNCHANGED <<cycles, due, contributions, ledger, outbox, entry, crashes>>

(* INSERT into the ledger: an open transaction that holds the same key     *)
(* makes this one wait.                                                    *)
AppendEntry(t) ==
  /\ pc[t] = "begin"
  /\ Key(entry[t]) \notin Keys(ledger)
  /\ \A u \in InFlight(t) : Key(entry[u]) # Key(entry[t])
  /\ pc' = [pc EXCEPT ![t] = IF entry[t].event \in ContributionEvents
                               THEN "insert" ELSE "commit"]
  /\ UNCHANGED <<cycles, due, contributions, ledger, outbox, entry, crashes>>

(* Unique violation on the key: answered as already processed (an error    *)
(* for a payout initiation); the transaction is dropped.                   *)
AppendDuplicate(t) ==
  /\ pc[t] = "begin"
  /\ Key(entry[t]) \in Keys(ledger)
  /\ Rollback(t)

(* Mutant: provider_tx_ref without UNIQUE.                                 *)
InsertTwice(t) ==
  /\ pc[t] = "insert"
  /\ cycles[entry[t].cycle].state = "committed"
  /\ pc' = [pc EXCEPT ![t] = "commit"]
  /\ UNCHANGED <<cycles, due, contributions, ledger, outbox, entry, crashes>>

(* INSERT INTO contributions: the trigger of migration 007 reads the cycle *)
(* as committed so far, and takes no lock on it; provider_tx_ref is        *)
(* UNIQUE, so an open insertion of the same transfer is waited for.        *)
InsertContribution(t) ==
  /\ pc[t] = "insert"
  /\ cycles[entry[t].cycle].state = "committed"
  /\ \A row \in contributions : row.ref # entry[t].id
  /\ \A u \in InFlight(t) : pc[u] = "commit" => entry[u].id # entry[t].id
  /\ pc' = [pc EXCEPT ![t] = "commit"]
  /\ UNCHANGED <<cycles, due, contributions, ledger, outbox, entry, crashes>>

InsertRejected(t) ==
  /\ pc[t] = "insert"
  /\ \/ cycles[entry[t].cycle].state # "committed"
     \/ \E row \in contributions : row.ref = entry[t].id
  /\ Rollback(t)

(* Mutant: the event is queued after the COMMIT and may be lost.           *)
RecordThenQueue(t) ==
  /\ ledger' = ledger \cup {entry[t]}
  /\ outbox' \in {outbox, outbox \cup {Key(entry[t])}}

(* What becomes visible of every committed operation: its ledger entry,    *)
(* its event.                                                              *)
Record(t) ==
  /\ ledger' = ledger \cup {entry[t]}
  /\ outbox' = outbox \cup {Key(entry[t])}

(* UPDATE of collected_amount_minor for a reconciled transfer (it adds to  *)
(* the row as it then is), outbox, COMMIT.                                 *)
CommitContribution(t) ==
  /\ pc[t] = "commit"
  /\ entry[t].event \in ContributionEvents
  /\ contributions' = contributions \cup {RowOf(entry[t])}
  /\ cycles' = [cycles EXCEPT ![entry[t].cycle].collected =
                                @ + Collected(entry[t])]
  /\ Record(t)
  /\ Leave(t)
  /\ UNCHANGED <<due, crashes>>

(* The row `update_payout_state` leaves.                                   *)
UpdatedRow(e) == WithPayoutState(cycles[e.cycle], PayoutStateAfter(e.event))

CommitPayout(t) ==
  /\ pc[t] = "commit"
  /\ entry[t].event \in PayoutEvents
  /\ TriggerAllows(cycles[entry[t].cycle], UpdatedRow(entry[t]))
  /\ cycles' = [cycles EXCEPT ![entry[t].cycle] = UpdatedRow(entry[t])]
  /\ Record(t)
  /\ Leave(t)
  /\ UNCHANGED <<due, contributions, crashes>>

(* The trigger on `cycles` raises: the whole transaction is lost.          *)
UpdateRejected(t) ==
  /\ pc[t] = "commit"
  /\ entry[t].event \in PayoutEvents
  /\ ~TriggerAllows(cycles[entry[t].cycle], UpdatedRow(entry[t]))
  /\ Rollback(t)

(* A kernel crash, a lost connection or a database error before COMMIT.    *)
Crash(t) ==
  /\ pc[t] # "idle"
  /\ crashes < MaxCrashes
  /\ crashes' = crashes + 1
  /\ Leave(t)
  /\ UNCHANGED <<cycles, due, contributions, ledger, outbox>>

-------------------------------------------------------------------------------

Read(t) ==
  \/ \E r \in TxRefs : HandleCallback(t, r)
  \/ \E c \in Cycles : EvaluateCycle(t, c)
  \/ \E x \in OpRefs : ConfirmPayout(t, x)
  \/ \E x \in OpRefs : FailPayout(t, x)

Transact(t) ==
  \/ AppendEntry(t)
  \/ AppendDuplicate(t)
  \/ InsertContribution(t)
  \/ InsertRejected(t)
  \/ CommitContribution(t)
  \/ CommitPayout(t)
  \/ UpdateRejected(t)

Next ==
  \/ \E c \in Cycles : DueDatePasses(c)
  \/ \E t \in Tasks : Read(t) \/ Transact(t) \/ Crash(t)

Spec == Init /\ [][Next]_vars

(* The scheduler ticks forever, each tick spawns a task of its own and     *)
(* evaluates every cycle it finds eligible.  Tasks are not a scarce        *)
(* resource in the code, they are here: strong fairness keeps redelivered  *)
(* callbacks from occupying all of them whenever the scheduler ticks.  A   *)
(* task that runs is polled until it ends, and PostgreSQL grants its       *)
(* locks.  Nothing obliges a member or an operator to call.                *)
Fairness ==
  /\ \A c \in Cycles : SF_vars(\E t \in Tasks : EvaluateCycle(t, c))
  /\ \A t \in Tasks : WF_vars(Transact(t))

FairSpec == Spec /\ Fairness

-------------------------------------------------------------------------------
(* Properties.                                                             *)

TypeOK ==
  /\ cycles \in [Cycles -> CycleRows]
  /\ due \subseteq Cycles
  /\ contributions \subseteq Rows
  /\ ledger \subseteq Entries
  /\ outbox \subseteq Events \X Ids
  /\ pc \in [Tasks -> {"idle", "begin", "insert", "commit"}]
  /\ entry \in [Tasks -> Entries \cup {NoEntry}]
  /\ crashes \in 0..MaxCrashes

Credits == {e \in ledger : e.event \in ContributionEvents}

Initiations(c) ==
  {e \in ledger : e.event = "payout_initiated" /\ e.cycle = c}

Has(event, c) == \E e \in ledger : e.event = event /\ e.cycle = c

(* A transfer is booked at most once, whatever the concurrent deliveries   *)
(* of its callback: reconciled and quarantined entries have keys of        *)
(* different families, so the ledger's key alone does not ensure it.  And  *)
(* the table of contributions is exactly what the ledger credits.          *)
BooksAgree ==
  /\ contributions = {RowOf(e) : e \in Credits}
  /\ \A e, f \in Credits : e.id = f.id => e = f

(* The projection collected_amount_minor of a cycle is the sum of the      *)
(* transfers reconciled for it: no update is lost and a transaction that   *)
(* is rolled back adds nothing.                                            *)
CollectedIsSumOfReconciled ==
  \A c \in Cycles :
    LET refs == {row.ref : row \in {r \in contributions :
                   r.cycle = c /\ r.status = "reconciled"}}
    IN  cycles[c].collected = MapThenSumSet(LAMBDA r : AmountOf[r], refs)

(* Overlapping evaluations of a cycle debit it at most once, for an amount *)
(* that reaches the threshold and is covered by what was collected.        *)
PaidOnceAndBacked ==
  \A c \in Cycles : \A e \in Initiations(c) :
    /\ Initiations(c) = {e}
    /\ Threshold[c] <= e.amount
    /\ e.amount <= cycles[c].collected

(* The row of a cycle is explained by the ledger: still collecting means   *)
(* nothing was initiated, triggered and closed mean a payout was, closed   *)
(* means an operator confirmed it, disputed that one reported a failure;   *)
(* and the two state columns always move together.                         *)
LedgerExplainsCycle ==
  \A c \in Cycles :
    /\ cycles[c].state = StateOf(cycles[c].payout)
    /\ cycles[c].state = "committed" => Initiations(c) = {}
    /\ cycles[c].state \in {"payout_triggered", "closed"}
         => Has("payout_initiated", c)
    /\ cycles[c].state = "closed" => Has("payout_confirmed", c)
    /\ cycles[c].state = "disputed" => Has("payout_failed", c)

(* The transactional outbox: an event is queued exactly when its ledger    *)
(* entry is committed, in the presence of crashes and duplicates.          *)
OutboxMirrorsLedger == outbox = Keys(ledger)

(* A confirmed payout is never overwritten, even by a failure or an        *)
(* initiation decided before the confirmation committed: doc of            *)
(* `fail_payout`, enforced only by the trigger.                            *)
ClosedIsFinal ==
  [][\A c \in Cycles : cycles[c].state = "closed" =>
       cycles'[c].state = "closed" /\ cycles'[c].payout = "confirmed"]_vars

(* The scheduler leaves no eligible cycle behind, although ticks overlap,  *)
(* tasks crash and other requests move the cycle.                          *)
EligibleIsLeft ==
  \A c \in Cycles :
    Eligible(cycles[c], c \in due, Threshold[c])
      ~> cycles[c].state # "committed"

-------------------------------------------------------------------------------
(* Statements of the repository that the code does not keep.               *)

(* Migration 007: a callback materialises a contribution only on a         *)
(* committed cycle.                                                        *)
ContributionOnlyOnCommitted ==
  [][\A row \in contributions' \ contributions :
       cycles[row.cycle].state = "committed"]_vars

(* `mark_payout_confirmed`: a payout is confirmed only from pending or     *)
(* sent.                                                                   *)
ConfirmedOnlyFromPending ==
  [][\A c \in Cycles :
       cycles'[c].payout = "confirmed" /\ cycles[c].payout # "confirmed"
         => MayConfirm(cycles[c])]_vars

===============================================================================
