------------------------------- MODULE Delivery -------------------------------
(***************************************************************************)
(* The way of a payout from the kernel to the operator and of its outcome  *)
(* back: outbox, providers, simulator, gateway and kernel together, with   *)
(* the transfers of members and the notices on the same ways.              *)
(***************************************************************************)
EXTENDS CallbackGateway, Notifications, FiniteSets

CONSTANTS
  MaxPosted  \* bound: events committed by the kernel

ASSUME DeliveryAssumption ==
  /\ Events = Payouts \cup Notices /\ Payouts \cap Notices = {}
  /\ Payouts \cap Transfers = {}
  /\ MaxAttempts \in Nat /\ MaxPosted \in Nat

vars ==
  <<outboxVars, provider, operatorVars, gatewayVars, channels, noticeVars>>

Posted == {e \in Events : mail[e] # "absent"}

Fixed == UNCHANGED <<provider, channels>>

-------------------------------------------------------------------------------

Init == OutboxInit /\ OperatorInit /\ GatewayInit /\ NoticesInit

(* The kernel commits an event; which of its commits posts a notice is     *)
(* left to module Kernel.                                                  *)
KernelCommits ==
  /\ Cardinality(Posted) < MaxPosted
  /\ \/ \E p \in Payouts : TriggerPayout(p) /\ UNCHANGED noticeVars
     \/ \E n \in Notices, type \in Topics :
          /\ PostNotice(n, type)
          /\ UNCHANGED <<provider, operatorVars, gatewayVars>>
  /\ UNCHANGED channels

Send(e) ==
  \/ e \in Payouts /\ SendPayout(e) /\ UNCHANGED <<gatewayVars, noticeVars>>
  \/ e \in Payouts /\ ConfirmNow(e) /\ UNCHANGED noticeVars
  \/ e \in Notices /\ SendNotice(e) /\ UNCHANGED <<operatorVars, gatewayVars>>

Mark(e) ==
  /\ MarkedDelivered(e) \/ GivenUp(e)
  /\ UNCHANGED <<operatorVars, gatewayVars, noticeVars>>

Work(e) == Fixed /\ (Send(e) \/ Mark(e))

(* The worker, or one of its updates, is lost.                             *)
StrandEvents ==
  /\ losses < MaxLosses
  /\ losses' = losses + 1
  /\ \E S \in SUBSET Events \ {{}} : Stranding(S)
  /\ UNCHANGED <<operatorVars, rows, booked, ignored, jobs, reports, lost,
                 noticeVars>>

AnswerCall(call) ==
  /\ AcknowledgePayoutStatus(call)
  /\ UNCHANGED <<outboxVars, noticeVars>> /\ Fixed

Forward(job) ==
  /\ ForwardPayoutStatus(job) \/ ForwardTransfer(job)
  /\ UNCHANGED <<outboxVars, noticeVars>> /\ Fixed

Faults ==
  \/ SimulatorRestarts /\ UNCHANGED <<gatewayVars, noticeVars>>
  \/ StrandEvents
  \/ \E call \in calls :
       RefusePayoutStatus(call) /\ UNCHANGED <<outboxVars, noticeVars>>
  \/ \E job \in jobs : LoseJob(job) /\ UNCHANGED <<outboxVars, noticeVars>>

OperatorReports ==
  /\ \/ \E t \in Transfers, word \in Words : AcknowledgeTransfer(t, word)
     \/ \E p \in Payouts : AcknowledgeUnfinished(p)
  /\ UNCHANGED <<outboxVars, noticeVars>>

Next ==
  \/ KernelCommits
  \/ Fixed /\ (OperatorReports \/ Faults)
  \/ \E e \in Events : Work(e)
  \/ \E call \in calls : AnswerCall(call)
  \/ \E job \in jobs : Forward(job)

Spec == Init /\ [][Next]_vars

(* The worker's loop, the simulator's and the gateway's goroutines go on   *)
(* until they end; nothing obliges an operator to report a transfer.       *)
FairSpec ==
  /\ Spec
  /\ \A e \in Events : WF_vars(Work(e))
  /\ WF_vars(\E call \in calls : AnswerCall(call))
  /\ \A p \in Payouts, status \in Outcomes, n \in 0..MaxRestarts :
       WF_vars(Forward(Callback(p, status, n)))

-------------------------------------------------------------------------------
(* Properties.                                                             *)

Sightings(about) == {c \in calls \cup jobs \cup lost : c.about = about}

TypeOK ==
  /\ mail \in [Events -> {"absent", "queued"} \cup Ends]
  /\ sends \in [Events -> 0..MaxAttempts]
  /\ turn \in [Events -> {"due", "confirm", "ok"}]
  /\ provider \in [Payouts -> Providers \cup {"none"}]
  /\ book \in [Payouts -> {"none"} \cup Outcomes]
  /\ executions \in [Payouts -> 0..(MaxRestarts + 1)]
  /\ restarts \in 0..MaxRestarts
  /\ \A c \in calls \cup jobs \cup lost :
       /\ c.about \in Payouts \cup Transfers
       /\ c.status \in {"success", "failed"} \cup Words
  /\ rows \in [Payouts -> CycleRows]
  /\ booked \subseteq Transfers /\ ignored \subseteq Transfers
  /\ losses \in 0..MaxLosses
  /\ inbox \in [Notices -> Nat]

(* However often an order is sent, timed out and sent again, the operator  *)
(* moves its money once, and once more at most for each time it forgets    *)
(* its records; and nothing moves that was not ordered by the kernel.      *)
MoneyMovesOnce ==
  \A p \in Payouts :
    /\ executions[p] <= 1 + (IF provider[p] = "live" THEN restarts ELSE 0)
    /\ executions[p] <= sends[p]
    /\ sends[p] > 0 => rows[p].state # "committed"

(* What the kernel has closed or disputed did happen: a payout confirmed   *)
(* was executed (or mocked), one failed was refused by the operator, and   *)
(* unless the operator forgot its records the money of a disputed cycle    *)
(* has not moved.                                                          *)
KernelKnowsTruth ==
  \A p \in Payouts :
    /\ rows[p].payout = "confirmed" =>
         executions[p] > 0 \/ (provider[p] = "mock" /\ sends[p] > 0)
    /\ rows[p].payout = "failed" =>
         provider[p] = "live" /\ (restarts = 0 => executions[p] = 0)

(* An outcome the simulator has on record is known to the kernel, on its   *)
(* way, or lost for good: a retry of the order brings nothing back.        *)
OutcomeAccounted ==
  \A p \in Payouts :
    provider[p] = "live" /\ Known(p) =>
      \/ rows[p].payout \in {"confirmed", "failed"}
      \/ \E c \in Sightings(p) : c.status \in Outcomes

(* A transfer reported as completed and acknowledged is booked, on its     *)
(* way, or lost, or its cycle had been decided without it; and no transfer *)
(* is booked of which the operator did not say that it was completed.      *)
TransferAccounted ==
  \A t \in Transfers :
    LET completed == \E i \in DOMAIN reports[t] : reports[t][i] = "completed"
    IN  /\ completed =>
             \/ t \in booked
             \/ \E c \in Sightings(t) : c.status = "success"
             \/ t \in ignored /\ rows[CycleOf[t]].state # "committed"
        /\ t \in booked => completed

(* A notice marked delivered reached somebody, unless its event has no     *)
(* message or no SMS stands behind WhatsApp; and retries and fallbacks     *)
(* together never reach anybody more often than channels were tried.       *)
NoticesHonest ==
  \A n \in Notices :
    /\ mail[n] = "delivered" =>
         inbox[n] > 0 \/ topic[n] \in Skipped \/ "sms" \notin channels
    /\ inbox[n] <= sends[n] * Cardinality(channels)

(* Every outcome on record ends in the kernel unless a callback about the  *)
(* payout was lost or the simulator stopped.                               *)
OutcomeReachesKernel ==
  \A p \in Payouts :
    provider[p] = "live" /\ Known(p) ~>
      \/ rows[p].payout \in {"confirmed", "failed"}
      \/ restarts > 0 \/ \E c \in lost : c.about = p /\ c.status \in Outcomes

===============================================================================
