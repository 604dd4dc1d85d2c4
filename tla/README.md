# MaSecure: models, checks and proofs

MaSecure runs tontines: members pay into the cycle of a group by mobile money, and the
beneficiary of the cycle is paid once the pot is complete.  This directory holds TLA+ models of
the parts of it where an order of events decides about money, the TLC configurations that check
them, and TLAPS proofs of their safety for every size of the system.

    tlc -workers 2 -config MCKernel.cfg MCKernel     one run; the table below lists all
    tlapm Kernel_proofs.tla                          one module of proofs; section 4 lists all

Contents: 1 the system, 2 the modules, 3 the runs, 4 the proofs, 5 what the checks refuted,
6 what is left out, 7 plan.

## 1. The system

### Components

| component | where | state it keeps | operations |
|---|---|---|---|
| cycle aggregate | `kernel/src/domain/cycle.rs`, `infrastructure/pg_cycle_repo.rs`, `migrations/003` | table `cycles`: state, payout state, collected amount | `evaluate_payout_eligibility`, `mark_payout_confirmed`, `update_payout_state`; trigger `prevent_committed_cycle_mutation`; view `payout_eligible_cycles` |
| contribution service | `application/contribution_service.rs`, `pg_contribution_repo.rs`, `migrations/006`, `007` | table `contributions` | `handle_callback` (reconcile, quarantine) |
| payout service | `application/payout_service.rs` | none of its own | `run_payout_evaluation`, `confirm_payout`, `fail_payout` |
| scheduler, HTTP server | `infrastructure/scheduler.rs`, `http_server.rs` | none | start the operations above, any number at once |
| ledger | `domain/ledger.rs`, `pg_ledger_repo.rs`, `migrations/004` | table `ledger_entries`, chained by hashes | `append`, `verify_chain`, view `ledger_chain_audit` |
| outbox | `pg_outbox_repo.rs`, `migrations/005` | table `outbox_events` | `insert_in_tx` |
| outbox worker | `internal/outboxworker`, `outbox/main.go` | the claimed batch, in memory | `claimPending`, `processOne`, the dispatchers, three marks |
| governance | `social/governance` | `group_configs`, `config_proposals`, active configuration | `CreateProposal`, `CastVote`, `ResolveProposal` |
| resilience | `application/resilience_service.rs`, `infrastructure/resilience_scheduler.rs`, `domain/working_capital.rs`, `domain/debt.rs`, `migrations/009` | working capital, debts | `evaluate_resilience`: advance, pro-rata, hybrid |
| callback gateway | `api/main.go`, `api/handlers/*callback*` | the goroutines that forward | verifies, answers 200, forwards to the kernel |
| providers | `internal/mobilemoney` | none | `SendPayout` of the mock, the aggregator, Orange, Moov, Wave |
| simulator | `simulator/mobilemoney` | the orders it has seen, in memory | takes an order, calls back once |
| notifications | `internal/notification` | none | builds a message, WhatsApp, then SMS |
| monitoring | `internal/anomaly`, `internal/compliance`, `social/audit` | none | queries, reports, replay of the chain |
| the rest | WhatsApp bot, dashboards | none | read and format |

### How they interact

    operator --callback--> gateway --HTTP--> kernel operations --one transaction--> PostgreSQL
        ^                                       ^     ^                               |
        |                   two schedulers -----+     |                               | outbox_events
        |                                             |                               v
        +---- order ---- provider <--- dispatch ------+---- confirm at once ----- outbox worker
                                                                                      |
                                              WhatsApp, SMS <--- notifications <------+

Everything is shared through PostgreSQL at READ COMMITTED.  A kernel operation *reads* with
connections of the pool, decides, and then writes in a transaction: append to the ledger, write
its own table, insert into the outbox, commit.  What it decided on is not locked, so it may be
stale when it writes.  What stops two operations from doing the same thing twice is the pair of
unique keys (`ledger_entries.idempotency_key`, `contributions.provider_tx_ref`) and the triggers.

### What is hard here, and what makes each part correct

- **Kernel.**  Ticks overlap, callbacks are repeated and concurrent, tasks and the process die.
  Correct means: a transfer is booked once; the collected amount is the sum of what was booked; a
  cycle is paid once, never more than it holds nor less than its threshold; ledger, outbox and
  cycle tell the same story; a closed cycle stays closed; an eligible cycle is not forgotten.
- **Ledger.**  Appends overlap, roll back, and take numbers from a sequence that does not.
  Correct means: the chain leads back to the genesis through committed entries; an intact chain is
  reported intact; two independent audits agree; no append waits for ever.
- **Outbox worker.**  Several workers, time-outs that hide a success, lost marks, shutdown.
  Correct means: an event is held by one worker; `delivered` means handed over; the number of
  sends is bounded by the attempts; every event ends delivered or dead.
- **The way of a payout.**  Orders are repeated by workers that know nothing of the earlier ones,
  operators forget, callbacks are answered before they are forwarded.  Correct means: the money
  moves once; the kernel closes what was paid and disputes what was refused; an outcome reaches it;
  no transfer of a member disappears without a trace; `delivered` means that somebody was told.
- **Resilience.**  A second scheduler decides on the same cycles, from reads that are older than
  its transaction.  Correct means: every debit has its event, once and for its amount; the two
  schedulers do not debit the same cycle; the fund completes what it can.  Only the first holds
  (section 5), and each scheduler keeps to its side of the threshold.
- **Governance.**  Votes and resolutions are read-modify-write without a lock.  Correct means:
  one active configuration, reached through a quorum; one vote each; a resolution is final.

`PROJECT.json` lists each hazard at its line with the properties that would catch it.

## 2. The modules

    MCKernel -> KernelRefinement_proofs -> Kernel_proofs, KernelRefinement -> Kernel -> CycleAggregate
                                                          KernelRefinement -> TontinePromise
    MCDelivery -> Delivery -> CallbackGateway -> MobileMoney -> OutboxPromise
                              CallbackGateway -> CycleAggregate
                  Delivery -> Notifications -> OutboxPromise
    OutboxWorker -> OutboxPromise
    Resilience -> CycleAggregate
    MCGovernance -> Governance
    LedgerChain

An arrow is EXTENDS or INSTANCE.  `OutboxWorker` is *shown to implement* `OutboxPromise`;
`MobileMoney`, `Notifications` and with them `Delivery` are *built on* it.  Each component has a
module `..._proofs` (section 4).

**CycleAggregate** is the pure part: rows of `cycles`, the decision `Eligible`, the guard
`MayConfirm`, the row `update_payout_state` leaves (`WithPayoutState`, with the state that follows
from the payout state, `StateOf`), and what the trigger lets through (`TriggerAllows`).

**Kernel** has the tables as variables (`cycles`, `contributions`, `ledger`, `outbox`) and, for
each of `Tasks` concurrent requests, where it is and the entry it is about to book.  An operation
is cut where another one can interfere:

| step of a task | code | enabled when |
|---|---|---|
| `HandleCallback`, `EvaluateCycle`, `ConfirmPayout`, `FailPayout` | the reads and the decision, up to `begin` | the code's early returns do not apply |
| `AppendEntry` / `AppendDuplicate` | `INSERT INTO ledger_entries` | the key is free / taken by a committed row; an open transaction with the same key makes it wait |
| `InsertContribution` / `InsertRejected` | `INSERT INTO contributions` with the trigger of migration 007 | cycle committed and reference free / not |
| `CommitContribution` | the increment of `collected_amount_minor`, outbox, `COMMIT` | always |
| `CommitPayout` / `UpdateRejected` | `UPDATE cycles` with its trigger, outbox, `COMMIT` | the trigger accepts / raises |
| `Crash` | the task, its connection or the kernel is lost | any time, `MaxCrashes` times |

`DueDatePasses` is the clock.  A callback that never comes is a step that is never taken; one that
comes twice is a step taken twice.  Modelling decisions, all on the side of more behaviours:

- Transactions overlap.  The lock of `append` on the last ledger row does not serialise them
  (LedgerChain shows why), so Kernel does not rely on it.
- The reads of an operation are one step, and so are its last `UPDATE`, its outbox row and its
  `COMMIT`: the row lock taken by the `UPDATE` is held to the end.  A read split over several
  statements sees rows of different moments; every read that decides is of a single row.
- Whether the payer's wallet is known is chosen afresh at each delivery, as bindings change.
- A failure or a confirmation may name any cycle; `fail_payout` has no guard beyond the
  closed and the already recorded, and the model has none either.
- A foreign-key lock that would shorten the window of a late contribution is not modelled.
- Cycles start `committed`: no code of the repository takes a cycle from `open` to `committed`.
- An operator reference belongs to one cycle (`PayoutOf`), and amounts are positive.

**TontinePromise** is what a member is promised, with no requests, ledger or outbox: `Credit`,
`Hold`, `Pay`, `Settle`, `Dispute`.  **KernelRefinement** maps the kernel to it: the credited and
held transfers are those the ledger books, the pot is the collected amount, what was paid is the
debit in the ledger, the phase is the state of the cycle.  `KeepsPromise` is the refinement.

**LedgerChain** is `append` statement by statement.  `ReadTail` chooses the last row of its
snapshot, `LockTail` is granted the lock on *that* row (the holder inserted another row and changed
nothing, so PostgreSQL does not redo the query), `TakeNumber` draws from the sequence behind
`seq_no`, `InsertRow` or `InsertDuplicate` meet the unique key, and the caller's transaction
commits or rolls back.  The hash covers the tail's number plus one, as in `LedgerEntryBuilder::build`, and not
the number the database gives.  SHA-256 is taken as injective.  `Violations` is `verify_chain`,
`Broken` the view `ledger_chain_audit`, and `Replayed` the audit export, which replays the hashes of
a group's rows.  `AuditsAgree` says that verifier and view condemn the same entries of the ledger,
and export and verifier the same entries of any part of it; `PartPassesOnlyAsPrefix` is about the
export and the per-aggregate mode of `verify-ledger`, which read a part of the chain with a verifier
of the whole.

**OutboxWorker** has a row per event (status, attempts, whether its retry time has passed), and
per worker its claimed batch and the event in hand.  A send may be accepted, refused, or accepted
with the answer lost.  A payout of a provider that confirms at once (`Immediate`, the mock) is then
confirmed to the kernel, which may fail after the operator accepted.  `Crash` loses a worker's
memory, `MarkFails` an update; both spend the bound `MaxLosses`.  `RetryExceeded` is the condition of
the anomaly detector's query over the same rows, and `RetryReports` what the query may return under its
`ORDER BY attempts DESC LIMIT 10`: the report is complete only below the limit.
`AlarmsReportWorst` says what a report means and what it may leave out.

**OutboxPromise** is what the outbox promises of an event, without workers, claims or backoff: at
most `MaxAttempts` dispatches, one at a time, then delivered after one that went well or dead after
as many as allowed; a loss strands what is held.  `Promise` in OutboxWorker is the mapping (a row
still claimable, or held by a worker, is *queued*; `processing` with no holder is *stranded*), and
`KeepsOutboxPromise` the refinement.

**MobileMoney** gives each dispatch of a payout its operator: `SendMock`, `SendLive`, `SendOrange`,
`SendMoov`, `SendWave`, with every answer the worker can get (an order may be lost, executed and
answered, or executed and the answer lost), and the simulator: it fixes the outcome of an order
when it first receives it, calls back once, recognises a repeated key, and forgets everything at
`SimulatorRestarts`.  The direct providers are in no registry of the repository; they are modelled as they would behave
in one.  They answer 409 to a known key, and Wave's 422 is also said of an order it cannot process:
`SendWave` therefore has a dispatch that counts as accepted and reached nobody.

**CallbackGateway** has both handlers, each as the answer (`Acknowledge...`) and the forwarding by
a goroutine (`Forward...`), with `LoseJob` for a kernel that is down or slow and for a shutdown, and
`Refuse...` for a callback refused or never received.  `Normalized` is `normalizeIncomingStatus`:
what is neither a success nor a failure is dropped after the 200.  The kernel behind it is
CycleAggregate, one step per operation: Kernel is where they overlap.

**Notifications** is the dispatcher with its builders and its sender: WhatsApp, or else SMS, or
else a log line that counts as sent.  Events are distinguished by what it can do with them (no
message, no recipient, no payload it can read, a recipient).

**Delivery** composes the four, and says of one payout, from the order to the closing of the cycle,
what each party believes; of one transfer, where it is; of one notice, whom it reached.

**Resilience** is the second scheduler beside the first.  As in Kernel, a task reads, decides and later
writes in one transaction, whatever has become of the cycle: a contribution (`HandleCallback`, then
`CommitContribution`), an evaluation of the payout scheduler (`EvaluateCycle`, `InitiatePayout`), an
outcome of the operator (`ReadForOutcome`, `RecordOutcome`), and a pass of `evaluate_resilience`, which
reads the cycle and the fund (`EvaluateResilience`), decides (`Decision`: policy, gap, what the fund
covers) and writes (`DispatchProRata`, `IssueAdvance`).  Passes of successive ticks overlap.  A debit
and its event carry the same idempotency key; the ledger refuses a key it has, the outbox drops the
event without an error (`Queued`, the `ON CONFLICT DO NOTHING`).  That a transaction is one step, and
that outcomes have no entry and no key, is left to Kernel.

Two facts of the code shape it: the reservation of an advance is made on a copy in memory and stored
nowhere, so that the transaction releases from the stored row what was never reserved and the `CHECK`
of the column undoes it; and the hybrid names a ledger entry that does not exist, so that a foreign
key undoes it.  No advance of either kind is ever issued (`FundIsNeverUsed`).

**Governance** has each service call as reads (`CreateProposal` and `ReadNextVersion`, `CastVote`,
`ResolveProposal`) followed by the one write of the repository, with the two unique indexes of
migration 002.  The base of a proposal may be superseded between its read and that of the next
version.  Group and configuration are read one after the other too, but a configuration the second
query finds committed is the one in use at that moment (`CommittedIsActive`); the base of a vote's
proposal, its quorum and the members never change.
The founder may act without being a member, so that votes may outnumber members.
Configurations keep their version, state, base and quorum.  `reached` is a history variable: the
proposals whose stored votes met the quorum at some moment.

MC modules give constants their values and symmetry; nothing else is defined in them.  Definitions
whose comment says *Mutant* are deliberate mistakes, used by no specification: each property was
seen to fail when one of them replaces the definition below it.

## 3. The runs

| run | module / configuration | bounds | states | shows |
|---|---|---|---|---|
| kernel | MCKernel / MCKernel | 1 cycle, 2 transfers (1 and 2), threshold 2, 2 operator references, 3 tasks, 1 crash | 214138 | safety, inductive invariant, refinement, `EligibleIsLeft` |
| ledger_chain | LedgerChain / MCLedgerChain | 3 keys, 3 writers, 4 appends | 136020 | chain, audits of the whole and of a part, termination of appends |
| outbox_worker | OutboxWorker / MCOutboxWorker | 3 events (immediate payout, live payout, notification), 2 workers, 3 attempts, batches of 2, 1 loss, alarms from 1 attempt, reports of 1 | 50203 | claims, delivery, attempts, alarms, settlement, refinement |
| delivery | MCDelivery / MCDelivery | 1 payout or notice, 1 transfer, 3 dispatches, 1 loss, 1 restart, 2 reports | 463986 | money moves once, truth, outcomes, transfers, notices |
| resilience | Resilience / MCResilience | 1 cycle, 3 tasks, threshold 3, collected up to 4, fund up to 4, every policy | 135704 | debits and their events, the two schedulers |
| governance | MCGovernance / MCGovernance | 2 members and a founder outside, 2 proposals, quorum 51, 2 concurrent requests | 1641639 | one active configuration, versions, votes, quorum, succession |
| kernel_late_contribution | MCKernel | as kernel, no crash, no operator reference: only a payout takes the cycle out of `committed` | | section 5 |
| kernel_confirm_after_failure | MCKernel | as kernel, no crash | | section 5 |
| ledger_fork | LedgerChain | as ledger_chain | | section 5 |
| outbox_strands | OutboxWorker | as outbox_worker | | section 5 |
| governance_reversal | MCGovernance | one proposal | | section 5 |
| resilience_whole_payout | Resilience | 1 cycle, threshold 2, collected and fund up to 2, 1 task: nothing overlaps | | section 5 |

**Why the bounds are enough to be interesting.**  Two transfers are the least for which one can
arrive between the read and the commit of another operation and still matter to the threshold (the
second alone meets it, the first alone does not).  Three tasks let one operation be stale while
two others commit one after the other, the shape of every stale-read hazard here.  Two operator
references let a payout be confirmed twice, or failed and confirmed.  The ledger needs three
writers for a waiter whose tail two others have left behind, and four appends for one of them to
be a duplicate or rolled back.  Three attempts separate the first, a middle and the last; a batch
of two lets an event be claimed and not begun; alarms from the first attempt, in reports of one, let
a payout be left out of a report.  In the code the limits are 10 attempts, 50 rows, 5 attempts for an
alarm and 10 rows of a report.
In *delivery* nothing relates two payouts or two notices, so one of each is posted; three
dispatches let an order be executed, repeated and given up; one restart of the simulator lets it
execute an order twice with two outcomes; one loss takes any one of: a worker, a callback, a
forwarding; two reports let a transfer be pending and then final, or be repeated.  In *resilience*
three tasks let a pass and an evaluation be stale, or two passes with different totals, while
contributions take the cycle past its threshold; a threshold of 3 lets a cycle be short with two
different totals, which is what two debits of one cycle need; a fund of 0 to 4 covers nothing, a part of
a gap, the gap, or more.  One cycle is enough: cycles share only the fund, which nothing changes, and
no key of one is a key of another.
In *governance* a quorum of 51% of two members needs two votes, and rounding down would need one;
the founder is the third who may vote.
Safety depends on none of these bounds: it is proved (section 4).

**Fairness.**  *Kernel*: the scheduler ticks for ever and each tick spawns a task that evaluates
every eligible cycle (`scheduler.rs`), hence fairness of `EvaluateCycle`; it is strong because the
model has few tasks and a callback could otherwise occupy them all at each tick, whereas the code
spawns a task for each.  A transaction in progress is driven to its end, hence weak fairness of
`Transact`.  No callback is fair: nobody is obliged to pay or to answer.  `EligibleIsLeft` further
rests on the beneficiary having an active primary wallet, without which the view never lists the
cycle.  *LedgerChain*: a transaction goes on.  *OutboxWorker*: the poll loop runs for ever, the
backoff elapses; outcomes of sends are chosen freely and nothing says an operator ever accepts.
*Delivery*: the worker works on an event until it ends (`SettledUnlessStranded` is why this may be
assumed), the simulator makes the call it has started a goroutine for, and a goroutine of the
gateway that forwards a status ends, each of them weakly fair.  Nothing obliges an operator to
report a transfer, and losses are never fair.  *Governance* and *Resilience* claim safety only.

Deadlock checking is off in every configuration: transfers, appends, attempts, proposals are
bounded, so each model legitimately reaches a state where nothing is left to do.  That nothing
stops too early is what `EligibleIsLeft`, `AppendsEnd`, `SettledUnlessStranded` and
`OutcomeReachesKernel` say.

## 4. The proofs

| module | obligations | about |
|---|---|---|
| `Kernel_proofs` | 815 | the kernel, `Inductive`; one request per cycle |
| `KernelRefinement_proofs` | 257 | the kernel implements TontinePromise |
| `OutboxWorker_proofs` | 1004 | the worker, that it implements OutboxPromise, and what a loss costs |
| `LedgerChain_proofs` | 773 | the chain and its audits; one append at a time |
| `Governance_proofs` | 1238 | configurations and votes; counting; one request per proposal |
| `Delivery_proofs` | 1176 | the way of a payout, and that it keeps OutboxPromise |
| `Resilience_proofs` | 350 | the two schedulers; one task per cycle |
| `NaturalFacts` | 253 | least and greatest elements of sets of naturals, sums over finite sets |

They hold for **any** sets of cycles, transfers, events, workers, writers, people, proposals, requests, passes, any
amounts, thresholds and limits the named assumptions of the modules allow, and any number of
crashes, losses and restarts.

| theorem | property | theorem | property |
|---|---|---|---|
| `AlwaysInductive` | `Inductive` | `GovernanceTypeCorrect` | `Governance!TypeOK` |
| `TypeCorrect` | `Kernel!TypeOK` | `OneInForce` | `CommittedIsActive` |
| `TransfersBookedOnce` | `BooksAgree` | `VersionsAreOrdered` | `VersionsOrdered` |
| `OutboxIsExact` | `OutboxMirrorsLedger` | `VotesAreSingle` | `OneVoteEach` |
| `CyclesExplained` | `LedgerExplainsCycle` | `SuccessorsOnly` | `InForceReplacedBySuccessor` |
| `PayoutsSafe` | `PaidOnceAndBacked` | `QuorumForAll` | `ActiveHadQuorum` |
| `ClosedForGood` | `ClosedIsFinal` | `DeliveryTypeCorrect` | `Delivery!TypeOK` |
| `KernelKeepsPromise` | `KeepsPromise` | `PayoutsMoveOnce` | `MoneyMovesOnce` |
| `WorkerTypeCorrect` | `OutboxWorker!TypeOK` | `KernelHearsTruth` | `KernelKnowsTruth` |
| `ClaimsAreExclusive` | `ClaimsExclusive` | `OutcomesAreAccounted` | `OutcomeAccounted` |
| `SendsAreCounted` | `AttemptsCountSends` | `TransfersAreAccounted` | `TransferAccounted` |
| `DeliveredIsHandedOver` | `DeliveredMeansHandedOver` | `NoticesAreHonest` | `NoticesHonest` |
| `AlarmsReportTheWorst` | `AlarmsReportWorst` | `ResilienceTypeCorrect` | `Resilience!TypeOK` |
| `ImplementsPromise` | `KeepsOutboxPromise` | `DebitsAreTold` | `DebitsTold` |
| `LedgerTypeCorrect` | `LedgerChain!TypeOK` | `SchedulersStayApart` | `SchedulersApart` |
| `ChainLeadsToGenesis` | `ChainedToCommitted` | `IntactWithoutGapOrFork` | `IntactUnlessGapOrFork` |
| `AuditsAlwaysAgree` | `AuditsAgree` | `CollectedIsExact` | `CollectedIsSumOfReconciled` |
| `PartAuditIsPrefixAudit` | `PartPassesOnlyAsPrefix` | | |

Each component also has the theorem that its inductive invariant always holds (`WorkerInvariant`,
`ChainInvariant`, `GovInvariant`, `DeliveryInvariant`, `ResilienceInvariant`).

Beyond the properties of the runs, these are proved; each was first checked by TLC on the
instance of its component's run.

| theorem | says, in any instance |
|---|---|
| `RefusedOnlyWhenMoved` | an initiation of a payout is refused, by key or trigger, only if its cycle is no longer `committed` |
| `SettledForGood` | a row that is delivered or dead is never marked or sent again |
| `NothingForgottenWithoutLosses` | without a crash or failed update every event is settled, claimable, in backoff or held: the safety half of `SettledUnlessStranded` |
| `LossesBoundStranded` | for finitely many events, a crash or failed update strands one batch at most |
| `DeliveryKeepsPromise` | Delivery too refines OutboxPromise |
| `DeliveredOrdersAnswered` | until the simulator stops, a live order marked `delivered` has an outcome that is known, under way, or lost in a callback |
| `ConfirmedPaidOnce` | with an operator that keeps its records, *confirmed* means the money moved exactly once, *failed* that it did not |
| `FundIsNeverUsed` | no step changes the fund or a debt |
| `ApprovalIsSettled`, `RejectionIsSettled` | an outcome decided before everybody has voted is the one all votes would give |

`RejectionIsSettled` assumes that the founder is a member.  TLC shows that it fails otherwise: the
founder may vote, but `requiredVotes` and the votes still expected count members only.  With two
members, a quorum of 51% and one vote against, the proposal is rejected although the founder's
approval could still have carried it.

**What the refuted sentences need.**  Four of the sentences of section 5 that a run refutes, and the
header of the resilience scheduler, fail only because requests overlap, and for each it is proved that
this is the only cause.  The hypothesis is part of the theorem, as a condition on the behaviour; it is
what a lock held from the first read to the commit would give.  The code takes no such lock, and
section 5 shows that the hypothesis cannot be dropped.

| hypothesis | then |
|---|---|
| `[]OnePerCycle`: no two open requests on one cycle | `OneRequestPerCycleKeepsContributions`: `ContributionOnlyOnCommitted`; `OneRequestPerCycleKeepsConfirmations`: `ConfirmedOnlyFromPending`; `OneRequestPerCyclePaysInFull`: a payout is for all its cycle ever collects |
| `[]OneAppender`: no two open appends | `OneAppenderChainsToPreceding`: `ChainedToPreceding`; `OneAppenderLeavesOnlyGaps`: the verifier condemns exactly the entries after a number lost to a rollback |
| `[]OnePerProposal`: no two votes or resolutions in flight on one proposal | `OneRequestPerProposalKeepsResolutions`: `ResolvedIsFinal`; `OneRequestPerProposalKeepsVotes`: no accepted vote is overwritten; `OneRequestPerProposalKeepsOutcomes`: the stored votes of a resolved proposal justify its outcome; `ApprovalsHaveCommonMember`: if the founder is a member, any two approved proposals share an approver |
| `[]OneTaskPerCycle`: no two tasks of the two schedulers, or callbacks, on one cycle | `OneTaskPerCycleAvoidsCollision`: `NoCollision` |

Their invariants (`TasksCurrent`, `TailsLatest`, `RequestsFresh`, `PassesCurrent`) say that what an
open request has read is still so; with the hypothesis, nobody else writes the row in between.  The
other two need no second actor.  Of `005_outbox.sql`: one loss strands a batch, `LossesBoundStranded`
and `NothingForgottenWithoutLosses` say that no more is lost and nothing without it.  Of
`apply_pro_rata`: its run has one task.

**Why the invariants are strengthened.**

- *Kernel.*  The properties speak of what is committed, but what gets committed is what the open
  transactions hold.  `Inductive` adds `TasksJustified` and `LedgerJustified` (an entry decided on
  stale reads was justified when decided, and stays so, because ledger and collected amounts only
  grow); `KeysExclusive` (no key is both in the ledger and in an open transaction, nor in two);
  `RefsExclusive` (the same for a transfer's reference between its insert and its commit, as
  the reconciled and the quarantined form of a transfer have different ledger keys).  TLC checks
  `Inductive` in run *kernel*.
- *KernelRefinement.*  Only the two commits change what the promise sees.  At each, the key and the
  reference held by the task are free in the ledger, so that the entry is new, and its
  justification is the guard of the promise's action; every other step is a stutter.
- *OutboxWorker.*  The table alone does not say who may still send.  `InHand`, `HeldSends` and
  `HandedOver` relate each row to what the worker that holds it remembers: how often it was sent,
  and that an event to be marked has been handed over.
- *LedgerChain.*  What becomes a row is a draft of a writer built on a snapshot.  `RowsBuilt` and
  `DraftsBuilt` say that rows and drafts are built on a row committed before; `NumbersUnique`,
  `KeysUnique` and `Counted` (drawn numbers never outnumber appends) complete it.  The audits
  compare each row with its neighbour in the order of numbers; that there is a neighbour is the
  part which needs the least and the greatest element of a set.
- *Governance.*  A stale request may write long after what it read is gone.  `VersionsBounded` and
  `VersionsKept` relate what a request holds to the rows that exist, so that the unique indexes do
  the rest.  `QuorumForAll` assumes an active member: without one the code approves a
  proposal that has no vote at all, as zero of zero votes are required.  `GovernanceTypeCorrect` assumes
  finitely many proposals, as it takes a maximum of version numbers.
- *Delivery.*  A status travels through four places.  `RecordsTrue`, `CallbacksTrue` and
  `BeliefsTrue` say of the operator's record, of every callback under way and of the kernel's row
  what they may say given how often the money moved, up to what a restart of the simulator erases;
  `NothingUnordered` that none of them precedes the order.  TLC checked the conjunction on the
  instance of run *delivery*.
- *Resilience.*  A debit is judged by what a task has read, not by the row it meets.  `Justified` says
  that what each open task has read is on its scheduler's side of the threshold and no more than the
  cycle has now, as totals only grow; `Backed` the same of the debits in the ledger.  `OnePayout` rests
  on the key.  That a fund never has a reservation (`Shape`) is what undoes every advance.

`PayoutsSafe`, `ClosedForGood`, `SuccessorsOnly`, `AlarmsReportTheWorst` and the audits follow from the
invariants without being part of them.

**Sums and order without induction.**  The prover cannot instantiate the induction theorems of its
library.  Where an argument needs induction, it takes a least or a greatest element, whose existence
`NaturalFacts` derives from the well-foundedness of `<` on the naturals: the neighbour of a row
in the chain, the highest version number.  In the same way `NaturalFacts` shows, by a
counterexample of least size, that the recursion by which the community modules compute a sum over
a finite set is well defined (`SummingExists`, `SummingUnique`), and that adding an element adds its weight
whichever element the recursion takes first (`SumAdded`).  `CollectedIsExact` rests on it: a commit
adds one transfer, without a row so far (`RefsExclusive`), to both sides of the equation.

**Checked by TLC only:** liveness (`EligibleIsLeft`, `AppendsEnd`, `SettledUnlessStranded`,
`OutcomeReachesKernel`), as fairness and `ENABLED` are out of the prover's reach, and what the runs
of section 5 refute, as it stands.  Every invariant, action property and refinement of the passing
runs is proved.

## 5. What the checks refuted

Each of these is a sentence of the repository that its code does not keep, with the shortest run
TLC finds.

| run | sentence | what happens |
|---|---|---|
| kernel_late_contribution | migration 007: only on a `committed` cycle | the trigger reads the state without a lock; a payout is triggered, and the contribution that was let through commits after it |
| kernel_confirm_after_failure | `cycle.rs:139`: only from pending or sent | the guard reads before the transaction, the update names the row by id; a failure in between is overwritten |
| ledger_fork | `pg_ledger_repo.rs:31`: always the preceding entry | a waiter keeps the row it first chose; an empty table locks nothing |
| outbox_strands | `005_outbox.sql:5`: will be delivered | `processing` is never claimed again |
| governance_reversal | `008_proposals.sql:84`: a resolved proposal cannot change | the trigger is on a table the deployed repository does not use; resolutions read, then write by id |
| resilience_whole_payout | `resilience_service.rs:241`: the payout service takes over with the reduced amount | a pro-rata debit changes nothing in the cycle; once late contributions complete it, the whole amount is ordered as well |

What does hold in their place is checked: `ClosedIsFinal`, `ChainedToCommitted`,
`IntactUnlessGapOrFork`, `SettledUnlessStranded`, `CommittedIsActive`, `InForceReplacedBySuccessor`,
`DebitsTold`, `SchedulersApart`.
Two more sentences are contradicted without a run of their own:

- `resilience_scheduler.rs:13`: both schedulers use `FOR UPDATE SKIP LOCKED`, no collision is possible.
  Neither does.  TLC refutes `NoCollision` in the configuration of *resilience_whole_payout* with two
  tasks: a pass that read a short cycle debits it after a contribution has completed it and its payout
  was ordered.
- `009_resilience.sql:5`: the fund advances what a cycle lacks.  `FundIsNeverUsed` is proved: the
  reservation is not stored, and the `CHECK` undoes every advance, at every tick.

Three more disagreements are visible in what the passing properties have to except:

- `IntactUnlessGapOrFork` excepts gaps: `pg_ledger_repo.rs:30` says the numbers have none, but a
  `BIGSERIAL` is not rolled back, and one writer is enough.
- `InForceReplacedBySuccessor` excepts a configuration that is active and no longer `committed`:
  after the reversal above, an older proposal made from the same base can replace it.
- `OutcomeReachesKernel` and `TransferAccounted` except callbacks lost after a 200.  The operator
  has its answer and does not call again, and a retry of the order brings no second callback.

## 6. What is not modelled, and why

Left out of modelled components:
- *Kernel*: `ensure_payment_instrument`, MSISDN formats, payloads, log lines, HTTP details; no
  property is about them.  `get_pending` and the marks of `pg_outbox_repo.rs` and
  `mark_payout_triggered`: nothing calls them.
- *Resilience*: `process_late_repayment` and `deposit_in_tx` (nothing calls them) and the split of a
  debt among the members of a group.  The listing of overdue cycles reads the enum column
  `resilience_policy` as a string without a cast to text, and `insert_debt_in_tx` binds an enum as
  text; the model takes both as meant, since a pass that fails there does nothing.
- *Gateway*: signatures, field names, formats; a callback is accepted or refused.
- *Providers*: the callback address the direct providers send is no route of the gateway, so no
  callback of theirs is modelled.
- *Notifications*: texts and templates; event types nothing writes; a quarantine alert without
  `admin_msisdn`, which is `BuildFails` for every attempt and ends dead.
- *Monitoring*: the compliance report and four of the five anomaly controls are one query each over
  tables the models hold.  The report of the audit export sums an amount that `payout_confirmed`
  entries do not carry, so its total is zero; it has no state to model.  None of them sees a payout
  that was stranded or given up.
- *Outbox worker*: the branch for an event without a dispatcher: every type the kernel writes has
  one.
- *Governance*: changes of membership (no code writes `group_members`), the content of a
  configuration beyond its quorum.

Components left out: the second governance repository (`repository_pg.go` with migration 008, which
`social/main.go` does not build) and the HTTP layer of governance; the WhatsApp gateway and bot,
which read and answer; the dashboards.  Anomaly detection, compliance, the audit export, the
direct providers and `internal/notification` are imported by no program of the repository; those
modelled are modelled as their packages would behave.

Tampering with the database: the models contain the program's own writers only.

## 7. Plan

Written, in this order: CycleAggregate and Kernel (the money), its refinement and its proofs,
LedgerChain, OutboxWorker, Governance, with the audits and the alarms; OutboxPromise, MobileMoney,
CallbackGateway, Notifications and Delivery (the way of a payout); Resilience; the proofs of each;
what a loss costs and what the refuted sentences need.

What remains: Delivery
over the full Kernel, whose interleavings multiply those of the gateway; the repayment of debts and
the reservation of the fund, once code calls the one and stores the other; the second governance
repository, if it is deployed.
