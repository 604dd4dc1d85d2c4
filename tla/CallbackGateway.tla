---------------------------- MODULE CallbackGateway ----------------------------
(***************************************************************************)
(* The public gateway between the operators and the kernel.  It verifies   *)
(* and parses a callback, answers 200, and only then forwards it from a    *)
(* goroutine, once, with a timeout; a failure is logged.  Here the answer  *)
(* and the forwarding are two steps.                                       *)
(*                                                                         *)
(* The kernel is taken at the level of TontinePromise, each operation one  *)
(* step: module Kernel deals with their overlaps.                          *)
(***************************************************************************)
EXTENDS MobileMoney, CycleAggregate, Sequences

CONSTANTS
  Transfers,   \* contributions of members
  CycleOf,     \* the payout whose cycle each transfer is for
  MaxReports,  \* bound: callbacks of the operator about one transfer
  MaxLosses    \* bound: callbacks refused or not forwarded, workers lost

ASSUME GatewayAssumption ==
  /\ CycleOf \in [Transfers -> Payouts]
  /\ MaxReports \in Nat /\ MaxLosses \in Nat

VARIABLES
  rows,     \* the kernel's row of the cycle of each payout
  booked,   \* transfers the kernel has recorded
  ignored,  \* transfers the kernel has answered with ignored_cycle_state
  jobs,     \* goroutines: callbacks answered and not yet forwarded
  reports,  \* words the operator has reported of each transfer, in order
  lost,     \* history: callbacks lost before or after they were answered
  losses    \* losses so far

gatewayVars == <<rows, booked, ignored, jobs, reports, lost, losses>>

Words == {"completed", "cancelled", "pending"}

(* Mutant: a word the gateway does not know is a success.                  *)
NormalizedLoose(word) == IF word = "cancelled" THEN "failed" ELSE "success"

(* `normalizeIncomingStatus`: synonyms are mapped, the rest is kept.       *)
Normalized(word) ==
  CASE word \in {"success", "completed"} -> "success"
    [] word \in {"failed", "cancelled"}  -> "failed"
    [] OTHER                             -> word

-------------------------------------------------------------------------------

GatewayInit ==
  /\ rows = [p \in Payouts |->
       [state |-> "committed", payout |-> "not_sent", collected |-> 0]]
  /\ booked = {} /\ ignored = {}
  /\ jobs = {}
  /\ reports = [t \in Transfers |-> <<>>]
  /\ lost = {}
  /\ losses = 0

Loses(callback) ==
  /\ losses < MaxLosses
  /\ losses' = losses + 1
  /\ lost' = lost \cup {callback}

(* `HandlePayoutStatusCallback`.                                           *)
AcknowledgePayoutStatus(call) ==
  /\ call \in calls
  /\ calls' = calls \ {call}
  /\ jobs' = jobs \cup {[call EXCEPT !.status = Normalized(@)]}
  /\ UNCHANGED <<book, executions, restarts, rows, booked, ignored, reports,
                 lost, losses>>

(* An aggregator may also report a payout it is still working on.          *)
AcknowledgeUnfinished(p) ==
  /\ provider[p] = "live" /\ Known(p)
  /\ jobs' = jobs \cup {Callback(p, Normalized("pending"), 0)}
  /\ UNCHANGED <<operatorVars, rows, booked, ignored, reports, lost, losses>>

(* 400, 401, or a gateway out of reach: the simulator does not call again. *)
RefusePayoutStatus(call) ==
  /\ call \in calls
  /\ Loses(call)
  /\ calls' = calls \ {call}
  /\ UNCHANGED <<book, executions, restarts, rows, booked, ignored, jobs,
                 reports>>

(* `HandleMobileMoneyCallback`.  The operator may report a transfer while  *)
(* it is pending and may repeat itself; the final word does not change.  A *)
(* callback that is refused changes nothing.                               *)
AcknowledgeTransfer(t, word) ==
  LET n == Len(reports[t])
  IN  /\ n < MaxReports
      /\ n > 0 /\ reports[t][n] # "pending" => word = reports[t][n]
      /\ reports' = [reports EXCEPT ![t] = Append(@, word)]
      /\ jobs' = jobs \cup {Callback(t, Normalized(word), n)}
      /\ UNCHANGED <<operatorVars, rows, booked, ignored, lost, losses>>

-------------------------------------------------------------------------------
(* The kernel.                                                             *)

(* Mutant: only a payout in state sent is confirmed.                       *)
RowConfirmedSent(row) ==
  IF row.payout = "sent" THEN WithPayoutState(row, "confirmed") ELSE row

(* The row after confirm_payout and after fail_payout, unchanged where     *)
(* they answer without a transaction or refuse.                            *)
RowConfirmed(row) ==
  IF MayConfirm(row) THEN WithPayoutState(row, "confirmed") ELSE row

RowFailed(row) ==
  IF row.payout \in {"confirmed", "failed"} THEN row
  ELSE WithPayoutState(row, "failed")

(* The order names the provider of the beneficiary's wallet.               *)
TriggerPayout(p) ==
  /\ rows[p].state = "committed" /\ rows[p].payout = "not_sent"
  /\ rows' = [rows EXCEPT ![p] = WithPayoutState(@, "pending")]
  /\ \E name \in Providers : provider' = [provider EXCEPT ![p] = name]
  /\ Post(p)
  /\ UNCHANGED <<operatorVars, booked, ignored, jobs, reports, lost, losses>>

(* The worker confirms a payout its provider says is done; the call may    *)
(* fail after the kernel has committed.                                    *)
ConfirmNow(p) ==
  /\ \/ Confirmed(p, "ok") /\ rows[p].payout # "failed"
                           /\ rows' = [rows EXCEPT ![p] = RowConfirmed(@)]
     \/ Confirmed(p, "due") /\ rows' = [rows EXCEPT ![p] = RowConfirmed(@)]
     \/ Confirmed(p, "due") /\ UNCHANGED rows
  /\ UNCHANGED <<operatorVars, booked, ignored, jobs, reports, lost, losses>>

(* Mutants: whatever is not a success is a failure; failures are ignored.  *)
RowAfterUnlessSuccess(row, status) ==
  IF status = "success" THEN RowConfirmed(row) ELSE RowFailed(row)

RowAfterOnlySuccess(row, status) ==
  IF status = "success" THEN RowConfirmed(row) ELSE row

(* `processPayoutStatus`.                                                  *)
RowAfter(row, status) ==
  CASE status = "success" -> RowConfirmed(row)
    [] status = "failed"  -> RowFailed(row)
    [] OTHER              -> row

ForwardPayoutStatus(job) ==
  /\ job \in jobs /\ job.about \in Payouts
  /\ rows' = [rows EXCEPT ![job.about] = RowAfter(@, job.status)]
  /\ jobs' = jobs \ {job}
  /\ UNCHANGED <<operatorVars, booked, ignored, reports, lost, losses>>

(* `processCallback` and handle_callback.                                  *)
ForwardTransfer(job) ==
  /\ job \in jobs /\ job.about \in Transfers
  /\ jobs' = jobs \ {job}
  /\ IF job.status # "success" \/ job.about \in booked
       THEN UNCHANGED <<booked, ignored>>
     ELSE IF rows[CycleOf[job.about]].state = "committed"
       THEN booked' = booked \cup {job.about} /\ UNCHANGED ignored
       ELSE ignored' = ignored \cup {job.about} /\ UNCHANGED booked
  /\ UNCHANGED <<operatorVars, rows, reports, lost, losses>>

(* The kernel is down, slow or answers 500, or the gateway stops: its      *)
(* shutdown does not wait for goroutines.                                  *)
LoseJob(job) ==
  /\ job \in jobs
  /\ Loses(job)
  /\ jobs' = jobs \ {job}
  /\ UNCHANGED <<operatorVars, rows, booked, ignored, reports>>

===============================================================================
