----------------------------- MODULE OutboxWorker -----------------------------
(***************************************************************************)
(* The outbox worker: processes that poll table `outbox_events`, claim due *)
(* events, hand them to their target and record the outcome.  The targets  *)
(* are the mobile money operator, and the kernel when the operator (the    *)
(* mock provider) lets the worker confirm at once.                         *)
(*                                                                         *)
(* A worker holds a claimed batch in memory only and handles one event at  *)
(* a time, at                                                              *)
(*   poll      nothing being handled;                                      *)
(*   send      event to be dispatched;                                     *)
(*   confirm   payout accepted, to be confirmed to the kernel;             *)
(*   done      dispatched, row to be marked;                               *)
(*   error     dispatch failed, row to be marked.                          *)
(* A claim is one UPDATE ... RETURNING over rows locked with SKIP LOCKED,  *)
(* hence one step.  Which due rows a bounded batch takes, oldest first in  *)
(* the code, is left open.                                                 *)
(***************************************************************************)
EXTENDS Naturals, FiniteSets

CONSTANTS
  Events,       \* outbox events
  Payouts,      \* those for mobile-money-gw; the others are notifications
  Immediate,    \* payouts of providers that confirm at once
  Workers,      \* worker processes
  MaxAttempts,  \* dispatches before dead_letter, 10 in the code
  BatchSize,    \* rows of a claim, 50 in the code
  AlarmAttempts, \* failed dispatches of a payout to report, 5 in the code
  ReportLimit,  \* rows of a report, 10 in the code
  MaxLosses     \* bound: crashes of a worker and failed status updates

NoEvent == "none"

ASSUME WorkerAssumption ==
  /\ Immediate \subseteq Payouts /\ Payouts \subseteq Events
  /\ NoEvent \notin Events
  /\ MaxAttempts \in Nat \ {0}
  /\ BatchSize \in Nat \ {0}
  /\ AlarmAttempts \in Nat \ {0}
  /\ ReportLimit \in Nat \ {0}
  /\ MaxLosses \in Nat

VARIABLES
  status,     \* status of each row, "absent" before the kernel inserts it
  attempts,   \* attempts of each row
  ripe,       \* rows whose next_retry_at has passed
  batch,      \* events each worker has claimed and not begun
  current,    \* the event each worker handles
  step,       \* where each worker is
  accepted,   \* payouts the operator has accepted, by idempotency key
  confirmed,  \* payouts the kernel has confirmed
  sends,      \* history: dispatches of each event
  losses      \* losses so far

rowVars == <<status, attempts, ripe>>
targetVars == <<accepted, confirmed, sends>>
vars == <<status, attempts, ripe, batch, current, step, accepted, confirmed,
          sends, losses>>

Statuses ==
  {"absent", "pending", "processing", "delivered", "failed", "dead_letter"}

-------------------------------------------------------------------------------

Init ==
  /\ status = [e \in Events |-> "absent"]
  /\ attempts = [e \in Events |-> 0]
  /\ ripe = {}
  /\ batch = [w \in Workers |-> {}]
  /\ current = [w \in Workers |-> NoEvent]
  /\ step = [w \in Workers |-> "poll"]
  /\ accepted = {} /\ confirmed = {}
  /\ sends = [e \in Events |-> 0]
  /\ losses = 0

(* The kernel commits a transaction with an event.                         *)
Publish(e) ==
  /\ status[e] = "absent"
  /\ status' = [status EXCEPT ![e] = "pending"]
  /\ ripe' = ripe \cup {e}
  /\ UNCHANGED <<attempts, batch, current, step, targetVars, losses>>

BackoffElapses(e) ==
  /\ status[e] = "failed" /\ e \notin ripe
  /\ ripe' = ripe \cup {e}
  /\ UNCHANGED <<status, attempts, batch, current, step, targetVars, losses>>

(* Mutants: rows in `processing` are claimed; failed ones are not.         *)
ClaimableAgain ==
  {e \in ripe : status[e] \in {"pending", "failed", "processing"}}

ClaimableOnce == {e \in ripe : status[e] = "pending"}

Claimable == {e \in ripe : status[e] \in {"pending", "failed"}}

(* A tick of the ticker: `claimPending`, once the last batch is over.      *)
Claim(w) ==
  /\ step[w] = "poll" /\ batch[w] = {}
  /\ \E claimed \in SUBSET Claimable :
       /\ claimed # {}
       /\ Cardinality(claimed) <= BatchSize
       /\ claimed = Claimable \/ Cardinality(claimed) = BatchSize
       /\ batch' = [batch EXCEPT ![w] = claimed]
       /\ status' = [e \in Events |->
                       IF e \in claimed THEN "processing" ELSE status[e]]
  /\ UNCHANGED <<attempts, ripe, current, step, targetVars, losses>>

(* `processOne` on the next event of the batch.                            *)
Begin(w) ==
  /\ step[w] = "poll"
  /\ \E e \in batch[w] :
       /\ batch' = [batch EXCEPT ![w] = @ \ {e}]
       /\ current' = [current EXCEPT ![w] = e]
  /\ step' = [step EXCEPT ![w] = "send"]
  /\ UNCHANGED <<rowVars, targetVars, losses>>

-------------------------------------------------------------------------------
(* `Dispatch`.  Notifications always succeed.                              *)

Sent(w) == sends' = [sends EXCEPT ![current[w]] = @ + 1]

Goto(w, next) == step' = [step EXCEPT ![w] = next]

Notify(w) ==
  /\ step[w] = "send" /\ current[w] \notin Payouts
  /\ Sent(w)
  /\ Goto(w, "done")
  /\ UNCHANGED <<rowVars, batch, current, accepted, confirmed, losses>>

(* Mutant: the mock provider's payouts are not confirmed.                  *)
UnconfirmedSend(e) == "done"

AfterSend(e) == IF e \in Immediate THEN "confirm" ELSE "done"

SendAccepted(w) ==
  /\ step[w] = "send" /\ current[w] \in Payouts
  /\ Sent(w)
  /\ accepted' = accepted \cup {current[w]}
  /\ Goto(w, AfterSend(current[w]))
  /\ UNCHANGED <<rowVars, batch, current, confirmed, losses>>

(* Unknown provider, operator unreachable, or an acceptance whose answer   *)
(* is lost or late.                                                        *)
SendFails(w) ==
  /\ step[w] = "send" /\ current[w] \in Payouts
  /\ Sent(w)
  /\ accepted' \in {accepted, accepted \cup {current[w]}}
  /\ Goto(w, "error")
  /\ UNCHANGED <<rowVars, batch, current, confirmed, losses>>

ConfirmSucceeds(w) ==
  /\ step[w] = "confirm"
  /\ confirmed' = confirmed \cup {current[w]}
  /\ Goto(w, "done")
  /\ UNCHANGED <<rowVars, batch, current, accepted, sends, losses>>

(* The kernel refuses or does not answer, or its answer is lost.           *)
ConfirmFails(w) ==
  /\ step[w] = "confirm"
  /\ confirmed' \in {confirmed, confirmed \cup {current[w]}}
  /\ Goto(w, "error")
  /\ UNCHANGED <<rowVars, batch, current, accepted, sends, losses>>

-------------------------------------------------------------------------------
(* The status update that ends processOne.                                 *)

Finish(w) ==
  /\ Goto(w, "poll")
  /\ current' = [current EXCEPT ![w] = NoEvent]

(* Mutant: one attempt too many.                                           *)
LastAttemptLate(e) == attempts[e] >= MaxAttempts

LastAttempt(e) == attempts[e] + 1 >= MaxAttempts

MarkDelivered(w) ==
  /\ step[w] = "done"
  /\ status' = [status EXCEPT ![current[w]] = "delivered"]
  /\ Finish(w)
  /\ UNCHANGED <<attempts, ripe, batch, targetVars, losses>>

ScheduleRetry(w) ==
  /\ step[w] = "error"
  /\ ~LastAttempt(current[w])
  /\ status' = [status EXCEPT ![current[w]] = "failed"]
  /\ attempts' = [attempts EXCEPT ![current[w]] = @ + 1]
  /\ ripe' = ripe \ {current[w]}
  /\ Finish(w)
  /\ UNCHANGED <<batch, targetVars, losses>>

MarkDeadLetter(w) ==
  /\ step[w] = "error"
  /\ LastAttempt(current[w])
  /\ status' = [status EXCEPT ![current[w]] = "dead_letter"]
  /\ Finish(w)
  /\ UNCHANGED <<attempts, ripe, batch, targetVars, losses>>

(* The update fails: the error is logged and the loop goes on.             *)
MarkFails(w) ==
  /\ step[w] \in {"done", "error"}
  /\ losses < MaxLosses
  /\ losses' = losses + 1
  /\ Finish(w)
  /\ UNCHANGED <<rowVars, batch, targetVars>>

(* Mutant: the rows of a lost batch are put back, attempts as they were.   *)
CrashAndPutBack(w) ==
  /\ step[w] # "poll" \/ batch[w] # {}
  /\ losses < MaxLosses
  /\ losses' = losses + 1
  /\ status' = [e \in Events |->
                  IF e \in batch[w] \cup {current[w]} THEN "failed" ELSE status[e]]
  /\ batch' = [batch EXCEPT ![w] = {}]
  /\ Finish(w)
  /\ UNCHANGED <<attempts, ripe, targetVars>>

(* A crash, or a shutdown: the cancelled context also fails the updates.   *)
(* The batch is lost with the process, its rows stay `processing`.         *)
Crash(w) ==
  /\ step[w] # "poll" \/ batch[w] # {}
  /\ losses < MaxLosses
  /\ losses' = losses + 1
  /\ batch' = [batch EXCEPT ![w] = {}]
  /\ Finish(w)
  /\ UNCHANGED <<rowVars, targetVars>>

-------------------------------------------------------------------------------

Dispatch(w) ==
  \/ Notify(w) \/ SendAccepted(w) \/ SendFails(w)
  \/ ConfirmSucceeds(w) \/ ConfirmFails(w)

Mark(w) == MarkDelivered(w) \/ ScheduleRetry(w) \/ MarkDeadLetter(w)

Work(w) == Claim(w) \/ Begin(w) \/ Dispatch(w) \/ Mark(w)

Next ==
  \/ \E e \in Events : Publish(e) \/ BackoffElapses(e)
  \/ \E w \in Workers : Work(w) \/ MarkFails(w) \/ Crash(w)

Spec == Init /\ [][Next]_vars

(* Delays elapse, tickers tick, calls return or time out.                  *)
FairSpec ==
  /\ Spec
  /\ \A e \in Events : WF_vars(BackoffElapses(e))
  /\ \A w \in Workers : WF_vars(Work(w))

-------------------------------------------------------------------------------
(* The rows `checkPayoutRetryExceeded` of the anomaly detector selects.    *)
RetryExceeded ==
  {e \in Payouts : status[e] = "failed" /\ attempts[e] >= AlarmAttempts}

(* Mutant: LIMIT without ORDER BY.                                         *)
RetryReportsUnordered ==
  {report \in SUBSET RetryExceeded :
     /\ Cardinality(report) <= ReportLimit
     /\ report = RetryExceeded \/ Cardinality(report) = ReportLimit}

(* What it may report of them: ORDER BY attempts DESC LIMIT.               *)
RetryReports ==
  {report \in SUBSET RetryExceeded :
     /\ Cardinality(report) <= ReportLimit
     /\ report = RetryExceeded \/ Cardinality(report) = ReportLimit
     /\ \A e \in report, f \in RetryExceeded \ report : attempts[e] >= attempts[f]}

-------------------------------------------------------------------------------
(* Properties.                                                             *)

TypeOK ==
  /\ status \in [Events -> Statuses]
  /\ attempts \in [Events -> 0..(MaxAttempts - 1)]
  /\ ripe \subseteq Events
  /\ batch \in [Workers -> SUBSET Events]
  /\ current \in [Workers -> Events \cup {NoEvent}]
  /\ step \in [Workers -> {"poll", "send", "confirm", "done", "error"}]
  /\ accepted \subseteq Payouts
  /\ confirmed \subseteq Immediate
  /\ sends \in [Events -> 0..MaxAttempts]
  /\ losses \in 0..MaxLosses

Held(w) ==
  batch[w] \cup IF step[w] = "poll" THEN {} ELSE {current[w]}

Settled(e) == status[e] \in {"delivered", "dead_letter"}

Stranded(e) == status[e] = "processing" /\ \A w \in Workers : e \notin Held(w)

Waits(e) ==
  ~Settled(e) /\ ~Stranded(e) /\ \A w \in Workers : e \notin Held(w)

(* The claims of concurrent workers are disjoint, and a row is neither     *)
(* claimable nor settled while a worker holds it.                          *)
ClaimsExclusive ==
  \A w \in Workers :
    /\ \A e \in Held(w) : status[e] = "processing"
    /\ \A v \in Workers \ {w} : Held(w) \cap Held(v) = {}

(* An event is marked delivered only once its target has it: a payout the  *)
(* operator accepted and, for a provider that confirms at once, that the   *)
(* kernel knows of.  The kernel is never told of a payout the operator     *)
(* does not have, however many times either was retried.                   *)
DeliveredMeansHandedOver ==
  /\ \A e \in Events : status[e] = "delivered" =>
       /\ sends[e] > 0
       /\ e \in Payouts => e \in accepted
       /\ e \in Immediate => e \in confirmed
  /\ confirmed \subseteq accepted

(* The column attempts counts the dispatches that failed: an event is      *)
(* given up after exactly MaxAttempts of them, and never sent again, even  *)
(* if workers crash or their updates fail.                                 *)
AttemptsCountSends ==
  \A e \in Events :
    /\ status[e] \in {"pending", "failed"} => sends[e] = attempts[e]
    /\ status[e] = "processing" => sends[e] \in {attempts[e], attempts[e] + 1}
    /\ status[e] = "dead_letter" => sends[e] = MaxAttempts

(* The monitoring, which sees only rows, reports payouts that the worker   *)
(* has in fact sent that often and that wait for a retry: none that a      *)
(* worker holds, that was given up or stranded.  One is left out only      *)
(* behind a full report of payouts sent at least as often.                 *)
AlarmsReportWorst ==
  \A report \in RetryReports :
    /\ \A e \in report : sends[e] >= AlarmAttempts /\ Waits(e)
    /\ \A e \in Payouts \ report :
         sends[e] >= AlarmAttempts /\ Waits(e) =>
           /\ Cardinality(report) = ReportLimit
           /\ \A f \in report : sends[f] >= sends[e]

(* Every event the kernel commits is delivered or given up, unless a crash *)
(* or a failed update strands it.                                          *)
SettledUnlessStranded ==
  \A e \in Events : status[e] # "absent" ~> Settled(e) \/ Stranded(e)

(* What a reader who sees no workers sees of an event.                     *)
MailOf(e) ==
  IF status[e] = "dead_letter" THEN "dead"
  ELSE IF status[e] \in {"absent", "delivered"} THEN status[e]
  ELSE IF Stranded(e) THEN "stranded"
  ELSE "queued"

TurnOf(e) ==
  IF \E w \in Workers : current[w] = e /\ step[w] = "confirm" THEN "confirm"
  ELSE IF \E w \in Workers : current[w] = e /\ step[w] = "done" THEN "ok"
  ELSE "due"

Promise == INSTANCE OutboxPromise WITH
  mail <- [e \in Events |-> MailOf(e)],
  turn <- [e \in Events |-> TurnOf(e)]

(* However many workers share the table, and whatever they lose, an event  *)
(* goes through one dispatch at a time, MaxAttempts at most, and is marked *)
(* after the dispatch that justifies the mark.                             *)
KeepsOutboxPromise == Promise!OutboxSpec

(* Migration 005: if the COMMIT succeeds the event will be delivered, at   *)
(* least once.  A stranded row is claimed by nobody.                       *)
AtLeastOnce == \A e \in Events : status[e] # "absent" ~> Settled(e)

===============================================================================
