---------------------------- MODULE Delivery_proofs ----------------------------
(***************************************************************************)
(* Theorems about the way of a payout, for any number of payouts, notices, *)
(* transfers, retries, restarts and losses.                                *)
(*                                                                         *)
(* The properties speak of the operator's and the kernel's records; what   *)
(* the kernel learns is what callbacks on their way and answers held by    *)
(* the worker say.  DeliveryInv adds it: neither ever says more than what  *)
(* the operator did.                                                       *)
(***************************************************************************)
EXTENDS Delivery, FiniteSetTheorems, TLAPS

Callbacks ==
  [about: Payouts \cup Transfers, status: {"success", "failed", "pending"},
   n: Nat]

Shape ==
  /\ mail \in [Events -> {"absent", "queued"} \cup Ends]
  /\ sends \in [Events -> 0..MaxAttempts]
  /\ turn \in [Events -> {"due", "confirm", "ok"}]
  /\ provider \in [Payouts -> Providers \cup {"none"}]
  /\ book \in [Payouts -> {"none"} \cup Outcomes]
  /\ executions \in [Payouts -> Nat]
  /\ restarts \in 0..MaxRestarts
  /\ rows \in [Payouts -> CycleRows]
  /\ booked \subseteq Transfers /\ ignored \subseteq Transfers
  /\ reports \in [Transfers -> Seq(Words)]
  /\ losses \in 0..MaxLosses
  /\ channels \subseteq {"whatsapp", "sms"}
  /\ topic \in [Notices -> Topics \cup {"none"}]
  /\ inbox \in [Notices -> Nat]

(* Only the simulator calls, of payouts and with their outcome.            *)
CallbacksShaped ==
  /\ calls \subseteq Callbacks /\ jobs \subseteq Callbacks
  /\ lost \subseteq Callbacks
  /\ \A c \in calls : c.about \in Payouts /\ c.status \in Outcomes

(* Before the kernel orders it nobody has heard of a payout, and after     *)
(* that its cycle never collects again.                                    *)
NothingUnordered ==
  /\ \A e \in Events : mail[e] = "absent" => sends[e] = 0 /\ turn[e] = "due"
  /\ \A p \in Payouts :
       IF mail[p] = "absent"
         THEN book[p] = "none" /\ executions[p] = 0
         ELSE /\ rows[p].payout \in {"pending", "confirmed", "failed"}
              /\ rows[p].state # "committed"
  /\ \A p \in Payouts : mail[p] = "absent" => rows[p].payout = "not_sent"

(* Restarts that can have made the operator of p forget it.                *)
Forgettings(p) == IF provider[p] = "live" THEN restarts ELSE 0

(* The operator's records and what it did.                                 *)
RecordsTrue ==
  \A p \in Payouts :
    /\ executions[p] <= sends[p]
    /\ executions[p] <= 1 + Forgettings(p)
    /\ book[p] = "none" => executions[p] <= Forgettings(p)
    /\ book[p] = "success" => executions[p] > 0
    /\ restarts = 0 /\ book[p] # "success" => executions[p] = 0

RefusedForGood(p) ==
  provider[p] = "live" /\ (restarts = 0 => book[p] = "failed")

(* What a callback on its way says of a payout is so.                      *)
CallbacksTrue ==
  \A c \in calls \cup jobs : c.about \in Payouts =>
    /\ mail[c.about] # "absent"
    /\ c.status = "success" => executions[c.about] > 0
    /\ c.status = "failed" => RefusedForGood(c.about)

Paid(p) == executions[p] > 0 \/ (provider[p] = "mock" /\ sends[p] > 0)

(* What the worker and the kernel take for done was done.                  *)
BeliefsTrue ==
  \A p \in Payouts :
    /\ turn[p] = "confirm" => Paid(p)
    /\ rows[p].payout = "confirmed" => Paid(p)
    /\ rows[p].payout = "failed" => RefusedForGood(p)

Completed(t) == \E i \in DOMAIN reports[t] : reports[t][i] = "completed"

(* What a callback on its way says of a transfer was reported.             *)
TransfersTrue ==
  \A c \in jobs : c.about \in Transfers /\ c.status = "success"
    => Completed(c.about)

Reached(n) == inbox[n] > 0 \/ topic[n] \in Skipped \/ "sms" \notin channels

NoticesTrue ==
  \A n \in Notices :
    /\ turn[n] # "confirm"
    /\ turn[n] = "ok" \/ mail[n] = "delivered" => Reached(n)

DeliveryInv ==
  /\ Shape
  /\ CallbacksShaped
  /\ NothingUnordered
  /\ RecordsTrue
  /\ CallbacksTrue
  /\ BeliefsTrue
  /\ OutcomeAccounted
  /\ TransfersTrue
  /\ TransferAccounted
  /\ NoticesTrue

-------------------------------------------------------------------------------

USE DeliveryAssumption, MobileMoneyAssumption, NotificationAssumption,
    GatewayAssumption

(* The rows the kernel leaves.                                             *)
LEMMA RowTypes ==
  ASSUME NEW row \in CycleRows
  PROVE  /\ \A q \in {"pending", "confirmed", "failed"} :
              /\ WithPayoutState(row, q) \in CycleRows
              /\ WithPayoutState(row, q).payout = q
              /\ WithPayoutState(row, q).state # "committed"
         /\ RowConfirmed(row) \in CycleRows
         /\ RowFailed(row) \in CycleRows
         /\ \A status : RowAfter(row, status) \in CycleRows
<1>1. ASSUME NEW q \in {"pending", "confirmed", "failed"}
      PROVE  /\ WithPayoutState(row, q) \in CycleRows
             /\ WithPayoutState(row, q).payout = q
             /\ WithPayoutState(row, q).state # "committed"
  <2>1. StateOf(q) \in CycleStates \ {"committed"}
    BY DEF StateOf, CycleStates
  <2> QED BY <2>1 DEF WithPayoutState, CycleRows, PayoutStates
<1>2. RowConfirmed(row) \in CycleRows /\ RowFailed(row) \in CycleRows
  BY <1>1 DEF RowConfirmed, RowFailed
<1>3. \A status : RowAfter(row, status) \in CycleRows
  BY <1>2 DEF RowAfter
<1> QED BY <1>1, <1>2, <1>3

(* A row that waits for its outcome gets it; one that has it keeps it.     *)
LEMMA RowAfterIs ==
  ASSUME NEW row \in CycleRows, NEW status,
         row.payout \in {"pending", "confirmed", "failed"},
         row.state # "committed"
  PROVE  LET after == RowAfter(row, status) IN
         /\ after.payout \in {"pending", "confirmed", "failed"}
         /\ after.state # "committed"
         /\ row.payout # "pending" => after = row
         /\ row.payout = "pending" /\ status = "success"
              => after.payout = "confirmed"
         /\ row.payout = "pending" /\ status = "failed"
              => after.payout = "failed"
         /\ status \notin {"success", "failed"} => after = row
         /\ status = "success" => after.payout # "pending"
         /\ status = "failed" => after.payout # "pending"
  BY RowTypes DEF RowAfter, RowConfirmed, RowFailed, MayConfirm

LEMMA InitDeliveryInv == Init => DeliveryInv
<1> SUFFICES ASSUME Init PROVE DeliveryInv
  OBVIOUS
<1> USE DEF Init, OutboxInit, OperatorInit, GatewayInit, NoticesInit
<1>1. Shape
  BY DEF Shape, CycleRows, CycleStates, PayoutStates
<1>2. CallbacksShaped /\ NothingUnordered /\ RecordsTrue /\ CallbacksTrue
  BY DEF CallbacksShaped, NothingUnordered, RecordsTrue, CallbacksTrue,
         Forgettings
<1>3. BeliefsTrue /\ OutcomeAccounted /\ TransfersTrue
  BY DEF BeliefsTrue, OutcomeAccounted, TransfersTrue, Known
<1>4. TransferAccounted
  BY DEF TransferAccounted
<1>5. NoticesTrue
  BY DEF NoticesTrue
<1> QED BY <1>1, <1>2, <1>3, <1>4, <1>5 DEF DeliveryInv

-------------------------------------------------------------------------------
(* The kernel commits an event.                                            *)

LEMMA TriggerStep ==
  ASSUME DeliveryInv, NEW p \in Payouts, TriggerPayout(p),
         UNCHANGED noticeVars, UNCHANGED channels
  PROVE  DeliveryInv'
<1> USE DEF DeliveryInv
<1>1. /\ mail[p] = "absent" /\ mail' = [mail EXCEPT ![p] = "queued"]
      /\ rows' = [rows EXCEPT ![p] = WithPayoutState(rows[p], "pending")]
      /\ provider' \in [Payouts -> Providers \cup {"none"}]
      /\ \A q \in Payouts \ {p} : provider'[q] = provider[q]
      /\ UNCHANGED <<sends, turn, book, executions, restarts, calls>>
      /\ UNCHANGED <<booked, ignored, jobs, reports, lost, losses>>
      /\ UNCHANGED <<topic, inbox, channels>>
  BY DEF TriggerPayout, Post, operatorVars, noticeVars, Shape
<1>2. /\ WithPayoutState(rows[p], "pending") \in CycleRows
      /\ WithPayoutState(rows[p], "pending").payout = "pending"
      /\ WithPayoutState(rows[p], "pending").state # "committed"
  BY RowTypes DEF Shape
<1>3. Shape'
  BY <1>1, <1>2 DEF Shape
<1>4. CallbacksShaped'
  BY <1>1 DEF CallbacksShaped
<1>5. NothingUnordered'
  BY <1>1, <1>2 DEF NothingUnordered, Shape
<1>6. sends[p] = 0 /\ book[p] = "none" /\ executions[p] = 0 /\ turn[p] = "due"
  BY <1>1 DEF NothingUnordered
<1>7. RecordsTrue'
  BY <1>1, <1>6 DEF RecordsTrue, Forgettings, Shape
<1>8. CallbacksTrue'
  BY <1>1 DEF CallbacksTrue, RefusedForGood, Shape
<1>9. BeliefsTrue'
  BY <1>1, <1>2, <1>6 DEF BeliefsTrue, Paid, RefusedForGood, Shape
<1>10. OutcomeAccounted'
  BY <1>1, <1>6 DEF OutcomeAccounted, Known, Sightings, Shape
<1>11. TransfersTrue'
  BY <1>1 DEF TransfersTrue, Completed
<1>12. TransferAccounted'
  BY <1>1, <1>2 DEF TransferAccounted, Sightings, Shape
<1>13. NoticesTrue'
  BY <1>1 DEF NoticesTrue, Reached, Shape
<1> QED BY <1>3, <1>4, <1>5, <1>7, <1>8, <1>9, <1>10, <1>11, <1>12, <1>13

LEMMA PostNoticeStep ==
  ASSUME DeliveryInv, NEW n \in Notices, NEW type \in Topics,
         PostNotice(n, type),
         UNCHANGED <<provider, operatorVars, gatewayVars, channels>>
  PROVE  DeliveryInv'
<1> USE DEF DeliveryInv
<1>1. /\ mail[n] = "absent" /\ mail' = [mail EXCEPT ![n] = "queued"]
      /\ topic' = [topic EXCEPT ![n] = type]
      /\ UNCHANGED <<sends, turn, book, executions, restarts, calls>>
      /\ UNCHANGED <<rows, booked, ignored, jobs, reports, lost, losses>>
      /\ UNCHANGED <<inbox, provider, channels>>
  BY DEF PostNotice, Post, operatorVars, gatewayVars, Shape
<1>2. Shape'
  BY <1>1 DEF Shape
<1>3. \A p \in Payouts : mail'[p] = mail[p]
  BY <1>1 DEF Shape
<1>4. CallbacksShaped' /\ NothingUnordered'
  BY <1>1, <1>3 DEF CallbacksShaped, NothingUnordered, Shape
<1>5. RecordsTrue' /\ CallbacksTrue'
  BY <1>1, <1>3 DEF RecordsTrue, Forgettings, CallbacksTrue, RefusedForGood
<1>6. BeliefsTrue' /\ OutcomeAccounted'
  BY <1>1 DEF BeliefsTrue, Paid, RefusedForGood, OutcomeAccounted, Known,
              Sightings
<1>7. TransfersTrue' /\ TransferAccounted'
  BY <1>1 DEF TransfersTrue, Completed, TransferAccounted, Sightings
<1>8. NoticesTrue'
  BY <1>1 DEF NoticesTrue, Reached, NothingUnordered, Shape
<1> QED BY <1>2, <1>4, <1>5, <1>6, <1>7, <1>8

-------------------------------------------------------------------------------
(* The worker.                                                             *)

(* What a provider leaves: an order not received, received again, or       *)
(* received for the first time; and it asks for a confirmation of a mock   *)
(* or of a payment only.                                                   *)
LEMMA SendPayoutIs ==
  ASSUME NEW p \in Payouts, SendPayout(p)
  PROVE  \E answer \in {"due", "confirm", "ok"} :
           /\ Dispatched(p, answer)
           /\ \/ /\ UNCHANGED operatorVars
                 /\ answer = "confirm" => provider[p] = "mock"
              \/ \E status \in Outcomes :
                   /\ FirstDelivery(p, status)
                   /\ answer = "confirm" => book'[p] = "success"
<1>1. CASE SendMock(p)
  BY <1>1 DEF SendMock
<1>2. CASE OrderLost(p)
  BY <1>2 DEF OrderLost
<1>3. CASE SendLive(p)
  BY <1>3 DEF SendLive, Receives, Redelivery
<1>4. ASSUME SendDirect(p)
      PROVE  \E answer \in {"due", "confirm", "ok"} :
               /\ Dispatched(p, answer)
               /\ \/ UNCHANGED operatorVars /\ answer # "confirm"
                  \/ \E status \in Outcomes :
                       /\ FirstDelivery(p, status)
                       /\ answer = "confirm" => book'[p] = "success"
  <2>1. PICK answer \in DirectAnswers(Known(p), book'[p]) : Dispatched(p, answer)
    BY <1>4 DEF SendDirect
  <2>2. /\ answer \in {"due", "confirm", "ok"}
        /\ answer = "confirm" => ~Known(p) /\ book'[p] = "success"
    BY <2>1 DEF DirectAnswers
  <2>3. Redelivery(p) \/ \E status \in Outcomes : FirstDelivery(p, status)
    BY <1>4 DEF SendDirect, Receives
  <2> QED BY <2>1, <2>2, <2>3 DEF Redelivery
<1>5. CASE SendOrange(p) \/ SendMoov(p)
  BY <1>4, <1>5 DEF SendOrange, SendMoov
<1>6. CASE SendWave(p)
  BY <1>4, <1>6 DEF SendWave
<1> QED BY <1>1, <1>2, <1>3, <1>5, <1>6 DEF SendPayout

LEMMA SendPayoutStep ==
  ASSUME DeliveryInv, NEW p \in Payouts, SendPayout(p),
         UNCHANGED <<gatewayVars, noticeVars, provider, channels>>
  PROVE  DeliveryInv'
<1> USE DEF DeliveryInv
<1>1. PICK answer \in {"due", "confirm", "ok"} :
           /\ Dispatched(p, answer)
           /\ \/ /\ UNCHANGED operatorVars
                 /\ answer = "confirm" => provider[p] = "mock"
              \/ \E status \in Outcomes :
                   /\ FirstDelivery(p, status)
                   /\ answer = "confirm" => book'[p] = "success"
  BY SendPayoutIs
<1>2. /\ mail[p] = "queued" /\ sends[p] + 1 \in 0..MaxAttempts
      /\ sends' = [sends EXCEPT ![p] = sends[p] + 1]
      /\ turn' = [turn EXCEPT ![p] = answer]
      /\ UNCHANGED mail
  BY <1>1 DEF Dispatched, Shape
<1>3. /\ UNCHANGED <<rows, booked, ignored, jobs, reports, lost, losses>>
      /\ UNCHANGED <<topic, inbox, provider, channels>>
  BY DEF gatewayVars, noticeVars
<1>4. CASE UNCHANGED operatorVars /\ (answer = "confirm" => provider[p] = "mock")
  <2>1. UNCHANGED <<book, executions, calls, restarts>>
    BY <1>4 DEF operatorVars
  <2>2. Shape'
    BY <1>2, <1>3, <2>1 DEF Shape
  <2>3. CallbacksShaped' /\ NothingUnordered'
    BY <1>2, <1>3, <2>1 DEF CallbacksShaped, NothingUnordered, Shape
  <2>4. RecordsTrue' /\ CallbacksTrue'
    BY <1>2, <1>3, <2>1
    DEF RecordsTrue, Forgettings, CallbacksTrue, RefusedForGood, Shape
  <2>5. BeliefsTrue' /\ OutcomeAccounted'
    BY <1>2, <1>3, <1>4, <2>1
    DEF BeliefsTrue, Paid, RefusedForGood, OutcomeAccounted, Known, Sightings,
        Shape
  <2>6. TransfersTrue' /\ TransferAccounted'
    BY <1>3, <2>1 DEF TransfersTrue, Completed, TransferAccounted, Sightings
  <2>7. NoticesTrue'
    BY <1>2, <1>3 DEF NoticesTrue, Reached, Shape
  <2> QED BY <2>2, <2>3, <2>4, <2>5, <2>6, <2>7
<1>5. ASSUME NEW status \in Outcomes, FirstDelivery(p, status),
             answer = "confirm" => book'[p] = "success"
      PROVE  DeliveryInv'
  <2> DEFINE moved == IF status = "success" THEN 1 ELSE 0
             call  == Callback(p, status, restarts)
  <2>1. /\ book[p] = "none"
        /\ book' = [book EXCEPT ![p] = status]
        /\ executions' = [executions EXCEPT ![p] = executions[p] + moved]
        /\ calls' = IF provider[p] = "live" THEN calls \cup {call} ELSE calls
        /\ UNCHANGED restarts
    BY <1>5 DEF FirstDelivery, Known
  <2>2. /\ call.about = p /\ call.status = status /\ call \in Callbacks
        /\ status \in {"success", "failed"}
    BY DEF Callback, Callbacks, Shape, Outcomes
  <2>3. Shape'
    BY <1>2, <1>3, <2>1 DEF Shape
  <2>4. CallbacksShaped' /\ NothingUnordered'
    BY <1>2, <1>3, <2>1, <2>2
    DEF CallbacksShaped, NothingUnordered, Shape, Outcomes
  <2>5. RecordsTrue'
    BY <1>2, <1>3, <2>1, <2>2 DEF RecordsTrue, Forgettings, Shape
  <2>6. CallbacksTrue'
    <3>1. ASSUME NEW c \in calls \cup jobs, c.about \in Payouts
          PROVE  /\ mail'[c.about] # "absent"
                 /\ c.status = "success" => executions'[c.about] > 0
                 /\ c.status = "failed" => RefusedForGood(c.about)'
      BY <1>2, <1>3, <2>1, <2>2, <3>1 DEF CallbacksTrue, RefusedForGood, Shape
    <3>2. ASSUME provider[p] = "live"
          PROVE  /\ mail'[p] # "absent"
                 /\ status = "success" => executions'[p] > 0
                 /\ status = "failed" => RefusedForGood(p)'
      BY <1>2, <1>3, <2>1, <3>2 DEF RefusedForGood, Shape
    <3> QED BY <1>3, <2>1, <2>2, <3>1, <3>2 DEF CallbacksTrue
  <2>7. BeliefsTrue'
    BY <1>2, <1>3, <1>5, <2>1, <2>2 DEF BeliefsTrue, Paid, RefusedForGood, Shape
  <2>8. OutcomeAccounted'
    BY <1>2, <1>3, <2>1, <2>2 DEF OutcomeAccounted, Known, Sightings, Shape, Outcomes
  <2>9. TransfersTrue' /\ TransferAccounted'
    BY <1>3, <2>1, <2>2 DEF TransfersTrue, Completed, TransferAccounted, Sightings
  <2>10. NoticesTrue'
    BY <1>2, <1>3 DEF NoticesTrue, Reached, Shape
  <2> QED BY <2>3, <2>4, <2>5, <2>6, <2>7, <2>8, <2>9, <2>10
<1> QED BY <1>1, <1>4, <1>5

(* The confirmation by the worker.                                         *)
LEMMA ConfirmStep ==
  ASSUME DeliveryInv, NEW p \in Payouts, ConfirmNow(p),
         UNCHANGED <<noticeVars, provider, channels>>
  PROVE  DeliveryInv'
<1> USE DEF DeliveryInv
<1>1. /\ mail[p] = "queued" /\ turn[p] = "confirm"
      /\ \E answer \in {"due", "ok"} : turn' = [turn EXCEPT ![p] = answer]
      /\ rows' \in {rows, [rows EXCEPT ![p] = RowConfirmed(rows[p])]}
      /\ UNCHANGED <<mail, sends, book, executions, restarts, calls>>
      /\ UNCHANGED <<booked, ignored, jobs, reports, lost, losses>>
      /\ UNCHANGED <<topic, inbox, provider, channels>>
  BY DEF ConfirmNow, Confirmed, operatorVars, noticeVars
<1>2. /\ rows'[p] \in CycleRows
      /\ rows[p].payout # "pending" => rows'[p] = rows[p]
      /\ rows'[p].payout \in {rows[p].payout, "confirmed"}
      /\ rows'[p].state # "committed"
  <2>1. rows[p] \in CycleRows /\ rows[p].state # "committed"
        /\ rows[p].payout \in {"pending", "confirmed", "failed"}
    BY <1>1 DEF Shape, NothingUnordered
  <2>2. /\ RowConfirmed(rows[p]) \in CycleRows
        /\ rows[p].payout # "pending" => RowConfirmed(rows[p]) = rows[p]
        /\ RowConfirmed(rows[p]).payout \in {rows[p].payout, "confirmed"}
        /\ RowConfirmed(rows[p]).state # "committed"
    BY <2>1, RowTypes DEF RowConfirmed, MayConfirm
  <2> QED BY <1>1, <2>1, <2>2 DEF Shape
<1>3. \A q \in Payouts \ {p} : rows'[q] = rows[q]
  BY <1>1 DEF Shape
<1>4. rows' \in [Payouts -> CycleRows]
  BY <1>1, <1>2 DEF Shape
<1>5. Shape'
  BY <1>1, <1>4 DEF Shape
<1>6. CallbacksShaped' /\ NothingUnordered'
  <2>1. CallbacksShaped'
    BY <1>1 DEF CallbacksShaped
  <2>2. \A e \in Events : mail'[e] = "absent" => sends'[e] = 0 /\ turn'[e] = "due"
    BY <1>1 DEF NothingUnordered, Shape
  <2>3. \A q \in Payouts :
          /\ mail[q] = "absent" => rows'[q] = rows[q]
          /\ mail[q] # "absent" =>
               /\ rows'[q].payout \in {"pending", "confirmed", "failed"}
               /\ rows'[q].state # "committed"
    BY <1>1, <1>2, <1>3 DEF NothingUnordered
  <2> QED BY <1>1, <2>1, <2>2, <2>3 DEF NothingUnordered
<1>7. RecordsTrue' /\ CallbacksTrue'
  BY <1>1 DEF RecordsTrue, Forgettings, CallbacksTrue, RefusedForGood
<1>8. Paid(p)
  BY <1>1 DEF BeliefsTrue
<1>9. BeliefsTrue'
  BY <1>1, <1>2, <1>3, <1>8 DEF BeliefsTrue, Paid, RefusedForGood, Shape
<1>10. OutcomeAccounted'
  BY <1>1, <1>2, <1>3 DEF OutcomeAccounted, Known, Sightings
<1>11. TransfersTrue' /\ TransferAccounted'
  BY <1>1, <1>2, <1>3
  DEF TransfersTrue, Completed, TransferAccounted, Sightings
<1>12. NoticesTrue'
  BY <1>1 DEF NoticesTrue, Reached, Shape
<1> QED BY <1>5, <1>6, <1>7, <1>9, <1>10, <1>11, <1>12

(* A notice is sent, an event marked or stranded: nothing else hears of it.*)
LEMMA OutboxFrame ==
  ASSUME DeliveryInv, Shape', NothingUnordered',
         UNCHANGED <<operatorVars, gatewayVars, provider>>,
         \A p \in Payouts : /\ sends'[p] = sends[p]
                            /\ mail[p] # "absent" => mail'[p] # "absent"
                            /\ turn'[p] = "confirm" => turn[p] = "confirm"
  PROVE  /\ CallbacksShaped' /\ RecordsTrue' /\ CallbacksTrue' /\ BeliefsTrue'
         /\ OutcomeAccounted' /\ TransfersTrue' /\ TransferAccounted'
<1> USE DEF DeliveryInv, operatorVars, gatewayVars
<1>1. CallbacksShaped' /\ RecordsTrue' /\ CallbacksTrue'
  BY DEF CallbacksShaped, RecordsTrue, Forgettings, CallbacksTrue,
         RefusedForGood
<1>2. BeliefsTrue' /\ OutcomeAccounted'
  BY DEF BeliefsTrue, Paid, RefusedForGood, OutcomeAccounted, Known, Sightings
<1>3. TransfersTrue' /\ TransferAccounted'
  BY DEF TransfersTrue, Completed, TransferAccounted, Sightings
<1> QED BY <1>1, <1>2, <1>3

(* How many channels there can be.                                         *)
LEMMA ChannelsCount ==
  ASSUME channels \subseteq {"whatsapp", "sms"}
  PROVE  /\ "whatsapp" \in channels => Cardinality(channels) >= 1
         /\ "sms" \in channels => Cardinality(channels) >= 1
         /\ {"whatsapp", "sms"} \subseteq channels => Cardinality(channels) = 2
         /\ Cardinality(channels) \in 0..2
<1>1. Cardinality({}) = 0
  BY FS_EmptySet
<1>2. Cardinality({"whatsapp"}) = 1 /\ Cardinality({"sms"}) = 1
  BY FS_Singleton
<1>3. IsFiniteSet({"whatsapp"})
  BY FS_Singleton
<1>4. Cardinality({"whatsapp"} \cup {"sms"}) = 2
  <2>1. Cardinality({"whatsapp"} \cup {"sms"})
          = IF "sms" \in {"whatsapp"} THEN Cardinality({"whatsapp"})
            ELSE Cardinality({"whatsapp"}) + 1
    BY ONLY <1>3, FS_AddElement
  <2> QED BY <1>2, <2>1
<1>5. Cardinality({"whatsapp", "sms"}) = 2
  <2>1. {"whatsapp", "sms"} = {"whatsapp"} \cup {"sms"}
    OBVIOUS
  <2> QED BY <1>4, <2>1
<1>6. \/ channels = {} \/ channels = {"whatsapp"} \/ channels = {"sms"}
      \/ channels = {"whatsapp", "sms"}
  OBVIOUS
<1>7. CASE channels = {}
  BY <1>1, <1>7
<1>8. CASE channels = {"whatsapp"}
  BY <1>2, <1>8
<1>9. CASE channels = {"sms"}
  BY <1>2, <1>9
<1>10. CASE channels = {"whatsapp", "sms"}
  BY <1>5, <1>10
<1> QED BY <1>6, <1>7, <1>8, <1>9, <1>10

(* What a notice leaves: an answer that is "ok" only if it was to be.      *)
LEMMA SendNoticeIs ==
  ASSUME DeliveryInv, NEW n \in Notices, SendNotice(n)
  PROVE  \E answer \in {"due", "ok"}, copies \in 0..2 :
           /\ Dispatched(n, answer)
           /\ inbox' = [inbox EXCEPT ![n] = inbox[n] + copies]
           /\ UNCHANGED topic
           /\ copies <= Cardinality(channels)
           /\ answer = "ok" =>
                copies > 0 \/ topic[n] \in Skipped \/ "sms" \notin channels
<1>0. inbox \in [Notices -> Nat] /\ channels \in SUBSET {"whatsapp", "sms"}
  BY DEF DeliveryInv, Shape
<1>1. \A try \in Attempts(n) : /\ try.copies \in {0, 1}
                               /\ try.answer \in {"due", "ok"}
                               /\ try.answer = "ok" => try.copies = 1
  BY DEF Attempts
<1>2. Leftovers(n) \subseteq IF "whatsapp" \in channels THEN {0, 1} ELSE {0}
  BY <1>1 DEF Leftovers
<1>3. /\ "whatsapp" \in channels => Cardinality(channels) >= 1
      /\ "sms" \in channels => Cardinality(channels) >= 1
      /\ {"whatsapp", "sms"} \subseteq channels => Cardinality(channels) = 2
      /\ Cardinality(channels) \in 0..2
  BY <1>0, ChannelsCount
<1>5. CASE SkipNotice(n) \/ BuildFails(n)
  <2>1. inbox' = [inbox EXCEPT ![n] = inbox[n] + 0]
    BY <1>0, <1>5 DEF SkipNotice, BuildFails, noticeVars
  <2> QED BY <1>3, <1>5, <2>1 DEF SkipNotice, BuildFails, noticeVars
<1>6. CASE SendWhatsApp(n)
  <2>1. PICK try \in Attempts(n) :
          try.answer = "ok" /\ Dispatched(n, "ok") /\ Reaches(n, try.copies)
    BY <1>6 DEF SendWhatsApp
  <2>2. try.copies = 1 /\ "whatsapp" \in channels
    BY <1>1, <1>6, <2>1 DEF SendWhatsApp
  <2> QED BY <1>3, <2>1, <2>2 DEF Reaches
<1>7. CASE SendSMS(n)
  <2>1. PICK c \in Leftovers(n), try \in Attempts(n) :
          Dispatched(n, try.answer) /\ Reaches(n, c + try.copies)
    BY <1>7 DEF SendSMS, SMSAnswer
  <2>2. "sms" \in channels
    BY <1>7 DEF SendSMS
  <2>3. /\ c \in {0, 1} /\ ("whatsapp" \notin channels => c = 0)
        /\ try.copies \in {0, 1} /\ try.answer \in {"due", "ok"}
        /\ try.answer = "ok" => try.copies = 1
    BY <1>1, <1>2, <2>1
  <2>4. c + try.copies \in 0..2 /\ c + try.copies <= Cardinality(channels)
    BY <1>3, <2>2, <2>3
  <2>5. try.answer = "ok" => c + try.copies > 0
    BY <2>3
  <2> QED BY <2>1, <2>3, <2>4, <2>5 DEF Reaches
<1>8. CASE LogOnly(n)
  <2>1. PICK c \in Leftovers(n) : Reaches(n, c)
    BY <1>8 DEF LogOnly
  <2>2. "sms" \notin channels /\ Dispatched(n, "ok")
    BY <1>8 DEF LogOnly
  <2>3. c \in {0, 1} /\ ("whatsapp" \notin channels => c = 0)
    BY <1>2, <2>1
  <2>4. c \in 0..2 /\ c <= Cardinality(channels)
    BY <1>3, <2>3
  <2> QED BY <2>1, <2>2, <2>4 DEF Reaches
<1> QED BY <1>5, <1>6, <1>7, <1>8 DEF SendNotice

LEMMA SendNoticeStep ==
  ASSUME DeliveryInv, NEW n \in Notices, SendNotice(n),
         UNCHANGED <<operatorVars, gatewayVars, provider, channels>>
  PROVE  DeliveryInv'
<1> USE DEF DeliveryInv
<1>1. PICK answer \in {"due", "ok"}, copies \in 0..2 :
           /\ Dispatched(n, answer)
           /\ inbox' = [inbox EXCEPT ![n] = inbox[n] + copies]
           /\ UNCHANGED topic
           /\ copies <= Cardinality(channels)
           /\ answer = "ok" =>
                copies > 0 \/ topic[n] \in Skipped \/ "sms" \notin channels
  BY SendNoticeIs
<1>2. /\ mail[n] = "queued" /\ sends[n] + 1 \in 0..MaxAttempts
      /\ sends' = [sends EXCEPT ![n] = sends[n] + 1]
      /\ turn' = [turn EXCEPT ![n] = answer]
      /\ UNCHANGED mail
  BY <1>1 DEF Dispatched, Shape
<1>3. n \notin Payouts
  OBVIOUS
<1>4. UNCHANGED <<book, executions, restarts, rows, booked, ignored, reports, losses>>
  BY DEF operatorVars, gatewayVars
<1>5. Shape'
  BY <1>1, <1>2, <1>4 DEF Shape
<1>6. NothingUnordered'
  BY <1>2, <1>4 DEF NothingUnordered, Shape
<1>7. NoticesTrue'
  BY <1>1, <1>2 DEF NoticesTrue, Reached, Shape
<1>8. \A p \in Payouts : sends'[p] = sends[p] /\ turn'[p] = turn[p]
  BY <1>2, <1>3 DEF Shape
<1> QED BY <1>2, <1>5, <1>6, <1>7, <1>8, OutboxFrame

LEMMA MarkStep ==
  ASSUME DeliveryInv, NEW e \in Events, MarkedDelivered(e) \/ GivenUp(e),
         UNCHANGED <<operatorVars, gatewayVars, noticeVars, provider, channels>>
  PROVE  DeliveryInv'
<1> USE DEF DeliveryInv
<1>1. /\ mail[e] = "queued"
      /\ \E end \in {"delivered", "dead"} :
           /\ mail' = [mail EXCEPT ![e] = end]
           /\ end = "delivered" => turn[e] = "ok"
      /\ turn' = [turn EXCEPT ![e] = "due"]
      /\ UNCHANGED sends
  BY DEF MarkedDelivered, GivenUp, Shape
<1>2. /\ UNCHANGED <<book, executions, restarts, rows, booked, ignored>>
      /\ UNCHANGED <<reports, losses, topic, inbox>>
  BY DEF operatorVars, gatewayVars, noticeVars
<1>3. Shape'
  BY <1>1, <1>2 DEF Shape, Ends
<1>4. NothingUnordered'
  BY <1>1, <1>2 DEF NothingUnordered, Shape
<1>5. NoticesTrue'
  BY <1>1, <1>2 DEF NoticesTrue, Reached, Shape
<1>6. \A p \in Payouts : /\ mail[p] # "absent" => mail'[p] # "absent"
                         /\ turn'[p] = "confirm" => turn[p] = "confirm"
  BY <1>1 DEF Shape
<1> QED BY <1>1, <1>3, <1>4, <1>5, <1>6, OutboxFrame

-------------------------------------------------------------------------------
(* Faults.                                                                 *)

LEMMA StrandStep ==
  ASSUME DeliveryInv, StrandEvents, UNCHANGED <<provider, channels>>
  PROVE  DeliveryInv'
<1> USE DEF DeliveryInv
<1>1. PICK S \in SUBSET Events : Stranding(S)
  BY DEF StrandEvents
<1>2. /\ losses' \in 0..MaxLosses
      /\ UNCHANGED <<book, executions, calls, restarts>>
      /\ UNCHANGED <<rows, booked, ignored, jobs, reports, lost, topic, inbox>>
  BY DEF StrandEvents, Shape, operatorVars, noticeVars
<1>3. /\ \A e \in S : mail[e] = "queued"
      /\ mail' = [e \in Events |-> IF e \in S THEN "stranded" ELSE mail[e]]
      /\ turn' = [e \in Events |-> IF e \in S THEN "due" ELSE turn[e]]
      /\ UNCHANGED sends
  BY <1>1 DEF Stranding
<1>4. Shape'
  BY <1>2, <1>3 DEF Shape, Ends
<1>5. CallbacksShaped' /\ NothingUnordered'
  BY <1>2, <1>3 DEF CallbacksShaped, NothingUnordered, Shape
<1>6. RecordsTrue' /\ CallbacksTrue'
  BY <1>2, <1>3 DEF RecordsTrue, Forgettings, CallbacksTrue, RefusedForGood, Shape
<1>7. BeliefsTrue' /\ OutcomeAccounted'
  BY <1>2, <1>3 DEF BeliefsTrue, Paid, RefusedForGood, OutcomeAccounted, Known,
                    Sightings
<1>8. TransfersTrue' /\ TransferAccounted'
  BY <1>2 DEF TransfersTrue, Completed, TransferAccounted, Sightings
<1>9. NoticesTrue'
  BY <1>2, <1>3 DEF NoticesTrue, Reached
<1> QED BY <1>4, <1>5, <1>6, <1>7, <1>8, <1>9

LEMMA RestartStep ==
  ASSUME DeliveryInv, SimulatorRestarts,
         UNCHANGED <<gatewayVars, noticeVars, provider, channels>>
  PROVE  DeliveryInv'
<1> USE DEF DeliveryInv
<1>1. /\ restarts' = restarts + 1 /\ restarts' \in 0..MaxRestarts
      /\ book' = [p \in Payouts |-> IF provider[p] = "live" THEN "none" ELSE book[p]]
      /\ calls' = {}
      /\ UNCHANGED <<executions, mail, sends, turn>>
      /\ UNCHANGED <<rows, booked, ignored, jobs, reports, lost, losses>>
      /\ UNCHANGED <<topic, inbox, provider, channels>>
  BY DEF SimulatorRestarts, Shape, outboxVars, gatewayVars, noticeVars
<1>2. Shape'
  BY <1>1 DEF Shape
<1>3. CallbacksShaped' /\ NothingUnordered'
  BY <1>1 DEF CallbacksShaped, NothingUnordered
<1>4. RecordsTrue'
  BY <1>1 DEF RecordsTrue, Forgettings, Shape
<1>5. CallbacksTrue'
  BY <1>1 DEF CallbacksTrue, RefusedForGood, Shape
<1>6. BeliefsTrue'
  BY <1>1 DEF BeliefsTrue, Paid, RefusedForGood, Shape
<1>7. OutcomeAccounted'
  BY <1>1 DEF OutcomeAccounted, Known
<1>8. TransfersTrue'
  BY <1>1 DEF TransfersTrue, Completed
<1>9. TransferAccounted'
  <2>1. \A t \in Transfers : Sightings(t)' = Sightings(t)
    BY <1>1 DEF Sightings, CallbacksShaped
  <2> QED BY <1>1, <2>1 DEF TransferAccounted
<1>10. NoticesTrue'
  BY <1>1 DEF NoticesTrue, Reached
<1> QED BY <1>2, <1>3, <1>4, <1>5, <1>6, <1>7, <1>8, <1>9, <1>10

-------------------------------------------------------------------------------
(* The gateway: callbacks come, and are lost or forwarded.                 *)

(* A callback that only moves, or is one more that is true, changes        *)
(* nothing else.                                                           *)
LEMMA CallbackFrame ==
  ASSUME DeliveryInv,
         UNCHANGED <<outboxVars, noticeVars, provider, channels>>,
         UNCHANGED <<book, executions, restarts, rows, booked, ignored>>,
         losses' \in 0..MaxLosses, reports' \in [Transfers -> Seq(Words)],
         CallbacksShaped', CallbacksTrue', TransfersTrue', TransferAccounted',
         \A p \in Payouts : \A c \in Sightings(p) : c.status \in Outcomes =>
           \E d \in Sightings(p)' : d.status \in Outcomes
  PROVE  DeliveryInv'
<1> USE DEF DeliveryInv, outboxVars, noticeVars
<1>1. Shape'
  BY DEF Shape
<1>2. NothingUnordered' /\ RecordsTrue'
  BY DEF NothingUnordered, RecordsTrue, Forgettings
<1>3. BeliefsTrue' /\ NoticesTrue'
  BY DEF BeliefsTrue, Paid, RefusedForGood, NoticesTrue, Reached
<1>4. OutcomeAccounted'
  BY DEF OutcomeAccounted, Known
<1> QED BY <1>1, <1>2, <1>3, <1>4

LEMMA NormalizedIs ==
  /\ \A status \in Outcomes : Normalized(status) = status
  /\ Normalized("pending") = "pending"
  /\ \A word \in Words : /\ Normalized(word) \in {"success", "failed", "pending"}
                         /\ Normalized(word) = "success" <=> word = "completed"
  BY DEF Outcomes, Words, Normalized

LEMMA AnswerStep ==
  ASSUME DeliveryInv, NEW call \in calls, AcknowledgePayoutStatus(call),
         UNCHANGED <<outboxVars, noticeVars, provider, channels>>
  PROVE  DeliveryInv'
<1> USE DEF DeliveryInv
<1>1. call \in Callbacks /\ call.about \in Payouts /\ call.status \in Outcomes
  BY DEF CallbacksShaped
<1>2. [call EXCEPT !.status = Normalized(call.status)] = call
  BY <1>1, NormalizedIs DEF Callbacks
<1>3. /\ calls' = calls \ {call} /\ jobs' = jobs \cup {call}
      /\ UNCHANGED <<book, executions, restarts, rows, booked, ignored>>
      /\ UNCHANGED <<reports, lost, losses>>
  BY <1>2 DEF AcknowledgePayoutStatus
<1>4. UNCHANGED mail
  BY DEF outboxVars
<1>5. CallbacksShaped'
  BY <1>1, <1>3 DEF CallbacksShaped
<1>6. CallbacksTrue'
  BY <1>3, <1>4 DEF CallbacksTrue, RefusedForGood
<1>7. TransfersTrue'
  BY <1>1, <1>3 DEF TransfersTrue, Completed
<1>8. \A about : Sightings(about)' = Sightings(about)
  BY <1>3 DEF Sightings
<1>9. TransferAccounted'
  BY <1>3, <1>8 DEF TransferAccounted
<1> QED BY <1>3, <1>5, <1>6, <1>7, <1>8, <1>9, CallbackFrame DEF Shape

LEMMA RefuseStep ==
  ASSUME DeliveryInv, NEW call \in calls, RefusePayoutStatus(call),
         UNCHANGED <<outboxVars, noticeVars, provider, channels>>
  PROVE  DeliveryInv'
<1> USE DEF DeliveryInv
<1>1. /\ calls' = calls \ {call} /\ lost' = lost \cup {call}
      /\ losses' \in 0..MaxLosses
      /\ UNCHANGED <<book, executions, restarts, rows, booked, ignored>>
      /\ UNCHANGED <<reports, jobs>>
  BY DEF RefusePayoutStatus, Loses, Shape
<1>2. UNCHANGED mail
  BY DEF outboxVars
<1>3. CallbacksShaped' /\ CallbacksTrue' /\ TransfersTrue'
  BY <1>1, <1>2
  DEF CallbacksShaped, CallbacksTrue, RefusedForGood, TransfersTrue, Completed
<1>4. \A about : Sightings(about)' = Sightings(about)
  BY <1>1 DEF Sightings
<1>5. TransferAccounted'
  BY <1>1, <1>4 DEF TransferAccounted
<1> QED BY <1>1, <1>3, <1>4, <1>5, CallbackFrame DEF Shape

LEMMA LoseJobStep ==
  ASSUME DeliveryInv, NEW job \in jobs, LoseJob(job),
         UNCHANGED <<outboxVars, noticeVars, provider, channels>>
  PROVE  DeliveryInv'
<1> USE DEF DeliveryInv
<1>1. /\ jobs' = jobs \ {job} /\ lost' = lost \cup {job}
      /\ losses' \in 0..MaxLosses
      /\ UNCHANGED <<book, executions, calls, restarts, rows, booked, ignored>>
      /\ UNCHANGED reports
  BY DEF LoseJob, Loses, operatorVars, Shape
<1>2. UNCHANGED mail
  BY DEF outboxVars
<1>3. CallbacksShaped' /\ CallbacksTrue' /\ TransfersTrue'
  BY <1>1, <1>2
  DEF CallbacksShaped, CallbacksTrue, RefusedForGood, TransfersTrue, Completed
<1>4. \A about : Sightings(about)' = Sightings(about)
  BY <1>1 DEF Sightings
<1>5. TransferAccounted'
  BY <1>1, <1>4 DEF TransferAccounted
<1> QED BY <1>1, <1>3, <1>4, <1>5, CallbackFrame DEF Shape

LEMMA UnfinishedStep ==
  ASSUME DeliveryInv, NEW p \in Payouts, AcknowledgeUnfinished(p),
         UNCHANGED <<outboxVars, noticeVars, provider, channels>>
  PROVE  DeliveryInv'
<1> USE DEF DeliveryInv
<1> DEFINE job == Callback(p, "pending", 0)
<1>1. /\ Known(p) /\ jobs' = jobs \cup {job}
      /\ UNCHANGED <<book, executions, calls, restarts, rows, booked, ignored>>
      /\ UNCHANGED <<reports, lost, losses>>
  BY NormalizedIs DEF AcknowledgeUnfinished, operatorVars
<1>2. job \in Callbacks /\ job.about = p /\ job.status = "pending"
  BY DEF Callback, Callbacks
<1>3. UNCHANGED mail /\ mail[p] # "absent"
  BY <1>1 DEF outboxVars, NothingUnordered, Known
<1>4. CallbacksShaped'
  BY <1>1, <1>2 DEF CallbacksShaped
<1>5. CallbacksTrue'
  BY <1>1, <1>2, <1>3 DEF CallbacksTrue, RefusedForGood
<1>6. TransfersTrue'
  BY <1>1, <1>2 DEF TransfersTrue, Completed
<1>7. \A about : Sightings(about) \subseteq Sightings(about)'
  BY <1>1 DEF Sightings
<1>8. TransferAccounted'
  BY <1>1, <1>7 DEF TransferAccounted
<1> QED BY <1>1, <1>4, <1>5, <1>6, <1>7, <1>8, CallbackFrame DEF Shape

LEMMA ReportStep ==
  ASSUME DeliveryInv, NEW t \in Transfers, NEW word \in Words,
         AcknowledgeTransfer(t, word),
         UNCHANGED <<outboxVars, noticeVars, provider, channels>>
  PROVE  DeliveryInv'
<1> USE DEF DeliveryInv
<1> DEFINE job == Callback(t, Normalized(word), Len(reports[t]))
<1>1. /\ jobs' = jobs \cup {job}
      /\ reports' = [reports EXCEPT ![t] = Append(reports[t], word)]
      /\ UNCHANGED <<book, executions, calls, restarts, rows, booked, ignored>>
      /\ UNCHANGED <<lost, losses>>
  BY DEF AcknowledgeTransfer, operatorVars
<1>2. reports[t] \in Seq(Words) /\ reports' \in [Transfers -> Seq(Words)]
  BY <1>1 DEF Shape
<1>3. /\ job.about = t /\ job.status = Normalized(word)
      /\ job \in Callbacks
  BY <1>2, NormalizedIs DEF Callback, Callbacks
<1>4. Completed(t)' <=> Completed(t) \/ word = "completed"
  <2>1. reports'[t] = Append(reports[t], word)
    BY <1>1, <1>2 DEF Shape
  <2>2. /\ Len(reports'[t]) = Len(reports[t]) + 1
        /\ DOMAIN reports'[t] = 1..(Len(reports[t]) + 1)
        /\ DOMAIN reports[t] = 1..Len(reports[t])
        /\ reports'[t][Len(reports[t]) + 1] = word
        /\ \A i \in 1..Len(reports[t]) : reports'[t][i] = reports[t][i]
    BY <1>2, <2>1
  <2>3. Len(reports[t]) \in Nat
    BY <1>2
  <2> QED BY <2>2, <2>3 DEF Completed
<1>5. \A u \in Transfers \ {t} : Completed(u)' <=> Completed(u)
  BY <1>1 DEF Completed, Shape
<1>6. UNCHANGED mail
  BY DEF outboxVars
<1>7. CallbacksShaped'
  BY <1>1, <1>3 DEF CallbacksShaped
<1>8. CallbacksTrue'
  BY <1>1, <1>3, <1>6 DEF CallbacksTrue, RefusedForGood
<1>9. TransfersTrue'
  BY <1>1, <1>3, <1>4, <1>5, NormalizedIs DEF TransfersTrue
<1>10. \A about : Sightings(about) \subseteq Sightings(about)'
  BY <1>1 DEF Sightings
<1>11. word = "completed" => \E c \in Sightings(t)' : c.status = "success"
  BY <1>1, <1>3, NormalizedIs DEF Sightings
<1>12. TransferAccounted'
  <2> SUFFICES ASSUME NEW u \in Transfers
               PROVE  /\ Completed(u)' =>
                           \/ u \in booked
                           \/ \E c \in Sightings(u)' : c.status = "success"
                           \/ u \in ignored /\ rows[CycleOf[u]].state # "committed"
                      /\ u \in booked => Completed(u)'
    BY <1>1 DEF TransferAccounted, Completed
  <2>1. /\ Completed(u) =>
             \/ u \in booked
             \/ \E c \in Sightings(u) : c.status = "success"
             \/ u \in ignored /\ rows[CycleOf[u]].state # "committed"
        /\ u \in booked => Completed(u)
    BY DEF TransferAccounted, Completed
  <2> QED BY <1>4, <1>5, <1>10, <1>11, <2>1
<1> QED BY <1>1, <1>2, <1>7, <1>8, <1>9, <1>10, <1>12, CallbackFrame DEF Shape

LEMMA ForwardPayoutStep ==
  ASSUME DeliveryInv, NEW job \in jobs, ForwardPayoutStatus(job),
         UNCHANGED <<outboxVars, noticeVars, provider, channels>>
  PROVE  DeliveryInv'
<1> USE DEF DeliveryInv
<1> DEFINE p == job.about
           after == RowAfter(rows[p], job.status)
<1>1. /\ p \in Payouts
      /\ rows' = [rows EXCEPT ![p] = after]
      /\ jobs' = jobs \ {job}
      /\ UNCHANGED <<book, executions, calls, restarts, booked, ignored>>
      /\ UNCHANGED <<reports, lost, losses>>
  BY DEF ForwardPayoutStatus, operatorVars
<1>2. /\ UNCHANGED <<mail, sends, turn, topic, inbox>>
  BY DEF outboxVars, noticeVars
<1>3. /\ mail[p] # "absent"
      /\ job.status = "success" => executions[p] > 0
      /\ job.status = "failed" => RefusedForGood(p)
  BY <1>1 DEF CallbacksTrue
<1>4. /\ rows[p] \in CycleRows
      /\ rows[p].payout \in {"pending", "confirmed", "failed"}
      /\ rows[p].state # "committed"
  BY <1>1, <1>3 DEF Shape, NothingUnordered
<1>5. /\ after \in CycleRows
      /\ after.payout \in {"pending", "confirmed", "failed"}
      /\ after.state # "committed"
      /\ after.payout \in {rows[p].payout, "confirmed", "failed"}
      /\ after.payout = "confirmed" =>
           rows[p].payout = "confirmed" \/ job.status = "success"
      /\ after.payout = "failed" =>
           rows[p].payout = "failed" \/ job.status = "failed"
      /\ rows[p].payout # "pending" => after.payout = rows[p].payout
      /\ job.status \in {"success", "failed"} => after.payout # "pending"
  <2>1. after \in CycleRows
    BY <1>4, RowTypes
  <2> QED BY <1>4, <2>1, RowAfterIs
<1> HIDE DEF after
<1>6. \A q \in Payouts : rows'[q] = IF q = p THEN after ELSE rows[q]
  BY <1>1 DEF Shape
<1>7. Shape'
  BY <1>1, <1>2, <1>5 DEF Shape
<1>8. CallbacksShaped' /\ RecordsTrue' /\ CallbacksTrue'
  BY <1>1, <1>2
  DEF CallbacksShaped, RecordsTrue, Forgettings, CallbacksTrue, RefusedForGood
<1>9. NothingUnordered'
  BY <1>1, <1>2, <1>3, <1>5, <1>6 DEF NothingUnordered
<1>10. BeliefsTrue'
  BY <1>1, <1>2, <1>3, <1>5, <1>6 DEF BeliefsTrue, Paid, RefusedForGood
<1>11. OutcomeAccounted'
  <2> SUFFICES ASSUME NEW q \in Payouts, provider[q] = "live", Known(q)
               PROVE  \/ rows'[q].payout \in {"confirmed", "failed"}
                      \/ \E c \in Sightings(q)' : c.status \in Outcomes
    BY <1>1 DEF OutcomeAccounted, Known
  <2>1. CASE rows[q].payout \in {"confirmed", "failed"}
    BY <1>5, <1>6, <2>1
  <2>2. ASSUME NEW c \in Sightings(q), c.status \in Outcomes
        PROVE  \/ rows'[q].payout \in {"confirmed", "failed"}
               \/ c \in Sightings(q)'
    BY <1>1, <1>5, <1>6, <2>2 DEF Sightings, Outcomes
  <2> QED BY <2>1, <2>2 DEF OutcomeAccounted
<1>12. TransfersTrue'
  BY <1>1 DEF TransfersTrue, Completed
<1>13. TransferAccounted'
  <2>1. \A t \in Transfers : Sightings(t)' = Sightings(t)
    BY <1>1 DEF Sightings
  <2>2. \A t \in Transfers : rows[CycleOf[t]].state # "committed"
                              => rows'[CycleOf[t]].state # "committed"
    BY <1>5, <1>6
  <2> QED BY <1>1, <2>1, <2>2 DEF TransferAccounted
<1>14. NoticesTrue'
  BY <1>2 DEF NoticesTrue, Reached
<1> QED BY <1>7, <1>8, <1>9, <1>10, <1>11, <1>12, <1>13, <1>14

LEMMA ForwardTransferStep ==
  ASSUME DeliveryInv, NEW job \in jobs, ForwardTransfer(job),
         UNCHANGED <<outboxVars, noticeVars, provider, channels>>
  PROVE  DeliveryInv'
<1> USE DEF DeliveryInv
<1> DEFINE t == job.about
<1>1. /\ t \in Transfers
      /\ jobs' = jobs \ {job}
      /\ UNCHANGED <<book, executions, calls, restarts, rows>>
      /\ UNCHANGED <<reports, lost, losses>>
  BY DEF ForwardTransfer, operatorVars
<1>2. UNCHANGED <<mail, sends, turn, topic, inbox>>
  BY DEF outboxVars, noticeVars
<1>3. /\ booked \subseteq booked' /\ booked' \subseteq booked \cup {t}
      /\ ignored \subseteq ignored' /\ ignored' \subseteq ignored \cup {t}
      /\ booked' # booked => job.status = "success"
      /\ job.status = "success" =>
           \/ t \in booked'
           \/ t \in ignored' /\ rows[CycleOf[t]].state # "committed"
  BY DEF ForwardTransfer
<1>4. t \notin Payouts
  BY <1>1
<1>5. Shape'
  BY <1>1, <1>2, <1>3 DEF Shape
<1>6. CallbacksShaped' /\ NothingUnordered' /\ RecordsTrue'
  BY <1>1, <1>2 DEF CallbacksShaped, NothingUnordered, RecordsTrue, Forgettings
<1>7. CallbacksTrue' /\ BeliefsTrue' /\ NoticesTrue'
  BY <1>1, <1>2
  DEF CallbacksTrue, BeliefsTrue, Paid, RefusedForGood, NoticesTrue, Reached
<1>8. OutcomeAccounted'
  <2>1. \A p \in Payouts : Sightings(p)' = Sightings(p)
    BY <1>1, <1>4 DEF Sightings
  <2> QED BY <1>1, <2>1 DEF OutcomeAccounted, Known
<1>9. TransfersTrue'
  BY <1>1 DEF TransfersTrue, Completed
<1>10. TransferAccounted'
  <2>1. job.status = "success" => Completed(t)
    BY <1>1 DEF TransfersTrue
  <2>2. \A u \in Transfers : \A c \in Sightings(u) :
          c \in Sightings(u)' \/ (c = job /\ u = t)
    BY <1>1 DEF Sightings
  <2>3. \A u \in Transfers : Completed(u)' <=> Completed(u)
    BY <1>1 DEF Completed
  <2> SUFFICES ASSUME NEW u \in Transfers
               PROVE  /\ Completed(u) =>
                           \/ u \in booked'
                           \/ \E c \in Sightings(u)' : c.status = "success"
                           \/ u \in ignored' /\ rows[CycleOf[u]].state # "committed"
                      /\ u \in booked' => Completed(u)
    BY <1>1, <2>3 DEF TransferAccounted, Completed
  <2>4. /\ Completed(u) =>
             \/ u \in booked
             \/ \E c \in Sightings(u) : c.status = "success"
             \/ u \in ignored /\ rows[CycleOf[u]].state # "committed"
        /\ u \in booked => Completed(u)
    BY DEF TransferAccounted, Completed
  <2> QED BY <1>3, <2>1, <2>2, <2>4
<1> QED BY <1>5, <1>6, <1>7, <1>8, <1>9, <1>10

-------------------------------------------------------------------------------

LEMMA DeliveryInvStep == DeliveryInv /\ [Next]_vars => DeliveryInv'
<1> SUFFICES ASSUME DeliveryInv, [Next]_vars PROVE DeliveryInv'
  OBVIOUS
<1>1. CASE KernelCommits
  <2>1. ASSUME NEW p \in Payouts, TriggerPayout(p), UNCHANGED noticeVars
        PROVE  DeliveryInv'
    BY <1>1, <2>1, TriggerStep DEF KernelCommits
  <2>2. ASSUME NEW n \in Notices, NEW type \in Topics, PostNotice(n, type),
               UNCHANGED <<provider, operatorVars, gatewayVars>>
        PROVE  DeliveryInv'
    BY <1>1, <2>2, PostNoticeStep DEF KernelCommits
  <2> QED BY <1>1, <2>1, <2>2 DEF KernelCommits
<1>2. CASE Fixed /\ OperatorReports
  BY <1>2, ReportStep, UnfinishedStep DEF Fixed, OperatorReports
<1>3. CASE Fixed /\ Faults
  <2>1. CASE SimulatorRestarts /\ UNCHANGED <<gatewayVars, noticeVars>>
    BY <1>3, <2>1, RestartStep DEF Fixed
  <2>2. CASE StrandEvents
    BY <1>3, <2>2, StrandStep DEF Fixed
  <2>3. ASSUME NEW call \in calls, RefusePayoutStatus(call),
               UNCHANGED <<outboxVars, noticeVars>>
        PROVE  DeliveryInv'
    BY <1>3, <2>3, RefuseStep DEF Fixed
  <2>4. ASSUME NEW job \in jobs, LoseJob(job),
               UNCHANGED <<outboxVars, noticeVars>>
        PROVE  DeliveryInv'
    BY <1>3, <2>4, LoseJobStep DEF Fixed
  <2> QED BY <1>3, <2>1, <2>2, <2>3, <2>4 DEF Faults
<1>4. ASSUME NEW e \in Events, Work(e) PROVE DeliveryInv'
  <2>1. CASE e \in Payouts /\ SendPayout(e) /\ UNCHANGED <<gatewayVars, noticeVars>>
    BY <1>4, <2>1, SendPayoutStep DEF Work, Fixed
  <2>2. CASE e \in Payouts /\ ConfirmNow(e) /\ UNCHANGED noticeVars
    BY <1>4, <2>2, ConfirmStep DEF Work, Fixed
  <2>3. CASE e \in Notices /\ SendNotice(e) /\ UNCHANGED <<operatorVars, gatewayVars>>
    BY <1>4, <2>3, SendNoticeStep DEF Work, Fixed
  <2>4. CASE Mark(e)
    BY <1>4, <2>4, MarkStep DEF Work, Fixed, Mark
  <2> QED BY <1>4, <2>1, <2>2, <2>3, <2>4 DEF Work, Send
<1>5. ASSUME NEW call \in calls, AnswerCall(call) PROVE DeliveryInv'
  BY <1>5, AnswerStep DEF AnswerCall, Fixed
<1>6. ASSUME NEW job \in jobs, Forward(job) PROVE DeliveryInv'
  BY <1>6, ForwardPayoutStep, ForwardTransferStep DEF Forward, Fixed
<1>7. CASE UNCHANGED vars
  <2>1. /\ UNCHANGED <<mail, sends, turn, provider, book, executions, calls>>
        /\ UNCHANGED <<restarts, rows, booked, ignored, jobs, reports, lost>>
        /\ UNCHANGED <<losses, channels, topic, inbox>>
    BY <1>7 DEF vars, outboxVars, operatorVars, gatewayVars, noticeVars
  <2> USE DEF DeliveryInv
  <2>2. Shape' /\ CallbacksShaped' /\ NothingUnordered'
    BY <2>1 DEF Shape, CallbacksShaped, NothingUnordered
  <2>3. RecordsTrue' /\ CallbacksTrue' /\ BeliefsTrue'
    BY <2>1 DEF RecordsTrue, Forgettings, CallbacksTrue, RefusedForGood,
                BeliefsTrue, Paid
  <2>4. OutcomeAccounted' /\ NoticesTrue'
    BY <2>1 DEF OutcomeAccounted, Known, Sightings, NoticesTrue, Reached
  <2>5. TransfersTrue' /\ TransferAccounted'
    BY <2>1 DEF TransfersTrue, Completed, TransferAccounted, Sightings
  <2> QED BY <2>2, <2>3, <2>4, <2>5
<1> QED BY <1>1, <1>2, <1>3, <1>4, <1>5, <1>6, <1>7 DEF Next

(* Whatever is retried, restarted or lost, nobody is told more of a payout *)
(* or a transfer than its operator did.                                    *)
THEOREM DeliveryInvariant == Spec => []DeliveryInv
  BY InitDeliveryInv, DeliveryInvStep, PTL DEF Spec

(* Every variable keeps its type.                                          *)
THEOREM DeliveryTypeCorrect == Spec => []TypeOK
<1>1. DeliveryInv => TypeOK
  <2> SUFFICES ASSUME DeliveryInv PROVE TypeOK
    OBVIOUS
  <2>1. executions \in [Payouts -> 0..(MaxRestarts + 1)]
    BY DEF DeliveryInv, Shape, RecordsTrue, Forgettings
  <2>2. \A c \in calls \cup jobs \cup lost :
          /\ c.about \in Payouts \cup Transfers
          /\ c.status \in {"success", "failed"} \cup Words
    BY DEF DeliveryInv, CallbacksShaped, Callbacks, Words
  <2> QED BY <2>1, <2>2 DEF DeliveryInv, Shape, TypeOK
<1> QED BY <1>1, DeliveryInvariant, PTL

(* SendPayout: an order is sent, timed out and sent again, but its money   *)
(* moves once, and once more at most for each time the operator forgets.   *)
THEOREM PayoutsMoveOnce == Spec => []MoneyMovesOnce
<1>1. DeliveryInv => MoneyMovesOnce
  BY DEF DeliveryInv, MoneyMovesOnce, RecordsTrue, Forgettings,
         NothingUnordered, Shape
<1> QED BY <1>1, DeliveryInvariant, PTL

(* confirm_payout and fail_payout, called by the worker and the gateway:   *)
(* the kernel closes what was paid and disputes what was refused.          *)
THEOREM KernelHearsTruth == Spec => []KernelKnowsTruth
<1>1. DeliveryInv => KernelKnowsTruth
  BY DEF DeliveryInv, KernelKnowsTruth, BeliefsTrue, Paid, RefusedForGood,
         RecordsTrue
<1> QED BY <1>1, DeliveryInvariant, PTL

(* HandlePayoutStatusCallback: an outcome on record is known, on its way   *)
(* or lost; nothing else becomes of it.                                    *)
THEOREM OutcomesAreAccounted == Spec => []OutcomeAccounted
<1>1. DeliveryInv => OutcomeAccounted
  BY DEF DeliveryInv
<1> QED BY <1>1, DeliveryInvariant, PTL

(* HandleMobileMoneyCallback: a completed transfer is booked, on its way,  *)
(* lost or too late, and nothing else is booked.                           *)
THEOREM TransfersAreAccounted == Spec => []TransferAccounted
<1>1. DeliveryInv => TransferAccounted
  BY DEF DeliveryInv
<1> QED BY <1>1, DeliveryInvariant, PTL

-------------------------------------------------------------------------------

(* A dispatch of a notice tries every channel once.                        *)
InboxBounded ==
  \A n \in Notices : inbox[n] <= sends[n] * Cardinality(channels)

LEMMA InboxBoundedStep ==
  DeliveryInv /\ InboxBounded /\ [Next]_vars => InboxBounded'
<1> SUFFICES ASSUME DeliveryInv, InboxBounded, [Next]_vars PROVE InboxBounded'
  OBVIOUS
<1>1. UNCHANGED channels
  BY DEF Next, vars, KernelCommits, Fixed, Work, AnswerCall, Forward
<1>2. ASSUME NEW n \in Notices, SendNotice(n) PROVE InboxBounded'
  <2>1. PICK answer \in {"due", "ok"}, copies \in 0..2 :
           /\ Dispatched(n, answer)
           /\ inbox' = [inbox EXCEPT ![n] = inbox[n] + copies]
           /\ copies <= Cardinality(channels)
    BY <1>2, SendNoticeIs
  <2>2. /\ inbox'[n] = inbox[n] + copies /\ sends'[n] = sends[n] + 1
        /\ \A m \in Notices \ {n} : inbox'[m] = inbox[m] /\ sends'[m] = sends[m]
    BY <2>1 DEF Dispatched, DeliveryInv, Shape
  <2>3. Cardinality(channels) \in Nat
    BY ChannelsCount DEF DeliveryInv, Shape
  <2>4. inbox[n] \in Nat /\ sends[n] \in Nat /\ copies \in Nat
    BY DEF DeliveryInv, Shape
  <2>5. (sends[n] + 1) * Cardinality(channels)
          = sends[n] * Cardinality(channels) + Cardinality(channels)
    BY <2>3, <2>4
  <2>6. sends[n] * Cardinality(channels) \in Nat
    BY <2>3, <2>4
  <2>7. inbox[n] <= sends[n] * Cardinality(channels)
    BY DEF InboxBounded
  <2>8. inbox'[n] <= sends'[n] * Cardinality(channels)
    BY <2>1, <2>2, <2>3, <2>4, <2>5, <2>6, <2>7
  <2> QED BY <1>1, <2>2, <2>8 DEF InboxBounded
<1>3. ASSUME \A n \in Notices : inbox'[n] = inbox[n] /\ sends'[n] = sends[n]
      PROVE  InboxBounded'
  BY <1>1, <1>3 DEF InboxBounded
<1>4. ASSUME NEW p \in Payouts, SendPayout(p), UNCHANGED noticeVars
      PROVE  InboxBounded'
  <2>1. \E answer : Dispatched(p, answer)
    BY <1>4, SendPayoutIs
  <2>2. sends' = [sends EXCEPT ![p] = sends[p] + 1] /\ UNCHANGED inbox
    BY <1>4, <2>1 DEF Dispatched, noticeVars
  <2>3. \A n \in Notices : inbox'[n] = inbox[n] /\ sends'[n] = sends[n]
    BY <2>2 DEF DeliveryInv, Shape
  <2> QED BY <1>3, <2>3
<1>5. ASSUME UNCHANGED <<sends, inbox>> PROVE InboxBounded'
  BY <1>3, <1>5
<1>6. CASE KernelCommits
  BY <1>5, <1>6
  DEF KernelCommits, TriggerPayout, PostNotice, Post, noticeVars
<1>7. CASE OperatorReports \/ Faults
  BY <1>5, <1>7
  DEF OperatorReports, Faults, SimulatorRestarts, StrandEvents, Stranding,
      outboxVars, noticeVars
<1>8. ASSUME NEW e \in Events, Work(e) PROVE InboxBounded'
  <2>1. CASE Mark(e)
    BY <1>5, <2>1 DEF Mark, MarkedDelivered, GivenUp, noticeVars
  <2>2. CASE ConfirmNow(e) /\ UNCHANGED noticeVars
    BY <1>5, <2>2 DEF ConfirmNow, Confirmed, noticeVars
  <2> QED BY <1>2, <1>4, <1>8, <2>1, <2>2 DEF Work, Send
<1>9. CASE UNCHANGED vars
  BY <1>5, <1>9 DEF vars, outboxVars, noticeVars
<1> QED
  BY <1>5, <1>6, <1>7, <1>8, <1>9
  DEF Next, AnswerCall, Forward, outboxVars, noticeVars

(* OutboxDispatcher: a notice marked delivered reached somebody unless it  *)
(* has no message or no SMS stands behind WhatsApp, and nobody gets more   *)
(* copies than channels were tried.                                        *)
THEOREM NoticesAreHonest == Spec => []NoticesHonest
<1>1. Init => InboxBounded
  <2>1. ASSUME Init PROVE InboxBounded
    <3>1. Cardinality(channels) \in Nat
      BY <2>1, ChannelsCount DEF Init, NoticesInit
    <3> QED BY <2>1, <3>1 DEF Init, NoticesInit, OutboxInit, InboxBounded
  <2> QED BY <2>1
<1>2. DeliveryInv /\ InboxBounded => NoticesHonest
  BY DEF DeliveryInv, NoticesTrue, Reached, InboxBounded, NoticesHonest
<1> QED BY <1>1, <1>2, InboxBoundedStep, DeliveryInvariant, PTL DEF Spec

-------------------------------------------------------------------------------

LEMMA OutboxUnused ==
  ASSUME UNCHANGED outboxVars
  PROVE  [OutboxNext]_outboxVars
OBVIOUS

(* Composed with operators, gateway and channels, the outbox still keeps   *)
(* its promise: payouts and notices leave each other's events alone, no    *)
(* callback and no restart touches an event, and what decides the answer   *)
(* of a dispatch never adds a dispatch, an end or a loss to those of       *)
(* processOne.                                                             *)
THEOREM DeliveryKeepsPromise == Spec => OutboxSpec
<1>1. Init => OutboxInit
  BY DEF Init
<1>2. [Next]_vars => [OutboxNext]_outboxVars
  <2> SUFFICES ASSUME [Next]_vars PROVE [OutboxNext]_outboxVars
    OBVIOUS
  <2>1. CASE KernelCommits
    <3>1. PICK e \in Events : Post(e)
      BY <2>1 DEF KernelCommits, TriggerPayout, PostNotice
    <3> QED BY <3>1 DEF OutboxNext
  <2>2. CASE OperatorReports \/ Faults
    <3>1. CASE StrandEvents
      BY <3>1 DEF StrandEvents, OutboxNext
    <3> QED
      BY <2>2, <3>1, OutboxUnused DEF OperatorReports, Faults, SimulatorRestarts
  <2>3. ASSUME NEW e \in Events, Work(e) PROVE Progress(e)
    <3>1. CASE e \in Payouts /\ SendPayout(e)
      BY <3>1, SendPayoutIs DEF Progress
    <3>2. CASE ConfirmNow(e)
      BY <3>2 DEF ConfirmNow, Progress
    <3>3. CASE e \in Notices /\ SendNotice(e)
      <4>1. \A try \in Attempts(e) : try.answer \in {"due", "ok"}
        BY DEF Attempts
      <4>2. \E answer \in {"due", "ok"} : Dispatched(e, answer)
        BY <3>3, <4>1 DEF SendNotice, SkipNotice, BuildFails, SendWhatsApp,
                          SendSMS, SMSAnswer, LogOnly
      <4> QED BY <4>2 DEF Progress
    <3>4. CASE Mark(e)
      BY <3>4 DEF Mark, Progress
    <3> QED BY <2>3, <3>1, <3>2, <3>3, <3>4 DEF Work, Send
  <2>4. ASSUME NEW call \in calls, AnswerCall(call) PROVE UNCHANGED outboxVars
    BY <2>4 DEF AnswerCall
  <2>5. ASSUME NEW job \in jobs, Forward(job) PROVE UNCHANGED outboxVars
    BY <2>5 DEF Forward
  <2>6. CASE UNCHANGED vars
    BY <2>6, OutboxUnused DEF vars
  <2> QED
    BY <2>1, <2>2, <2>3, <2>4, <2>5, <2>6, OutboxUnused DEF Next, OutboxNext
<1> QED BY <1>1, <1>2, PTL DEF Spec, OutboxSpec

(* As long as the simulator has not stopped, an order the worker takes for *)
(* accepted is one it has on record; and the worker never confirms a live  *)
(* payout to the kernel itself.                                            *)
OrderReceived ==
  \A p \in Payouts : provider[p] = "live" =>
    /\ turn[p] # "confirm"
    /\ restarts = 0 /\ (turn[p] = "ok" \/ mail[p] = "delivered") => Known(p)

(* Steps that neither dispatch a payout nor order one.                     *)
LEMMA OrderFrame ==
  ASSUME OrderReceived, UNCHANGED <<book, provider, restarts>>,
         \A p \in Payouts :
           /\ turn'[p] \in {turn[p], "due"}
           /\ mail'[p] = "delivered" => mail[p] = "delivered" \/ turn[p] = "ok"
  PROVE  OrderReceived'
BY DEF OrderReceived, Known

LEMMA OrderReceivedStep ==
  DeliveryInv /\ OrderReceived /\ [Next]_vars => OrderReceived'
<1> SUFFICES ASSUME DeliveryInv, OrderReceived, [Next]_vars PROVE OrderReceived'
  OBVIOUS
<1> USE DEF operatorVars, outboxVars, Fixed
<1>0. /\ mail \in [Events -> {"absent", "queued"} \cup Ends]
      /\ turn \in [Events -> {"due", "confirm", "ok"}]
      /\ provider \in [Payouts -> Providers \cup {"none"}]
      /\ book \in [Payouts -> {"none"} \cup Outcomes]
      /\ restarts \in 0..MaxRestarts
  BY DEF DeliveryInv, Shape
<1>1. ASSUME UNCHANGED <<book, provider, restarts, mail, turn>>
      PROVE  OrderReceived'
  BY <1>1, OrderFrame
<1>2. ASSUME NEW p \in Payouts, TriggerPayout(p) PROVE OrderReceived'
  <2>1. /\ mail[p] = "absent" /\ mail' = [mail EXCEPT ![p] = "queued"]
        /\ UNCHANGED <<turn, book, restarts>>
        /\ \A q \in Payouts \ {p} : provider'[q] = provider[q]
    BY <1>0, <1>2 DEF TriggerPayout, Post
  <2>2. mail'[p] = "queued" /\ turn'[p] = "due"
    BY <1>0, <2>1 DEF DeliveryInv, NothingUnordered
  <2>3. \A q \in Payouts \ {p} : mail'[q] = mail[q]
    BY <1>0, <2>1
  <2> QED BY <2>1, <2>2, <2>3 DEF OrderReceived, Known
<1>3. ASSUME NEW n \in Notices, NEW type \in Topics, PostNotice(n, type),
             UNCHANGED <<provider, operatorVars>>
      PROVE  OrderReceived'
  <2>1. \A p \in Payouts : mail'[p] = mail[p] /\ turn'[p] = turn[p]
    BY <1>0, <1>3 DEF PostNotice, Post
  <2> QED BY <1>3, <2>1, OrderFrame
<1>4. CASE SimulatorRestarts /\ UNCHANGED provider
  BY <1>0, <1>4 DEF SimulatorRestarts, OrderReceived
<1>5. CASE StrandEvents /\ UNCHANGED provider
  <2>1. \A p \in Payouts : /\ turn'[p] \in {turn[p], "due"}
                           /\ mail'[p] = "delivered" => mail[p] = "delivered"
    BY <1>0, <1>5 DEF StrandEvents, Stranding
  <2> QED BY <1>5, <2>1, OrderFrame DEF StrandEvents
<1>6. ASSUME NEW p \in Payouts, SendPayout(p), UNCHANGED provider
      PROVE  OrderReceived'
  <2>1. PICK answer \in {"due", "confirm", "ok"} : Dispatched(p, answer)
    BY <1>6, SendPayoutIs
  <2>2. /\ turn'[p] = answer /\ mail' = mail /\ mail[p] = "queued"
        /\ \A q \in Payouts \ {p} : turn'[q] = turn[q]
    BY <1>0, <2>1 DEF Dispatched
  <2>3. restarts' = restarts /\ \A q \in Payouts \ {p} : book'[q] = book[q]
    BY <1>0, <1>6, SendPayoutIs DEF FirstDelivery
  <2>4. provider[p] = "live" =>
          turn'[p] # "confirm" /\ (turn'[p] = "ok" => book'[p] # "none")
    <3> SUFFICES ASSUME provider[p] = "live"
                 PROVE  turn'[p] # "confirm"
                        /\ (turn'[p] = "ok" => book'[p] # "none")
      OBVIOUS
    <3>1. OrderLost(p) \/ SendLive(p)
      BY <1>6 DEF SendPayout, SendMock, SendOrange, SendMoov, SendWave
    <3>2. CASE OrderLost(p)
      <4>1. turn'[p] = "due"
        BY <1>0, <3>2 DEF OrderLost, Dispatched
      <4> QED BY <4>1
    <3>3. CASE SendLive(p)
      <4>1. turn'[p] \in {"ok", "due"}
        BY <1>0, <3>3 DEF SendLive, Dispatched
      <4>2. book'[p] # "none"
        BY <1>0, <3>3 DEF SendLive, Receives, Redelivery, FirstDelivery,
                          Known, Outcomes
      <4> QED BY <4>1, <4>2
    <3> QED BY <3>1, <3>2, <3>3
  <2> QED BY <1>6, <2>2, <2>3, <2>4 DEF OrderReceived, Known
<1>7. ASSUME NEW p \in Payouts, ConfirmNow(p), UNCHANGED provider
      PROVE  OrderReceived'
  <2>1. /\ turn[p] = "confirm" /\ UNCHANGED <<mail, book, restarts>>
        /\ \A q \in Payouts \ {p} : turn'[q] = turn[q]
    BY <1>0, <1>7 DEF ConfirmNow, Confirmed
  <2>2. provider'[p] # "live"
    BY <1>7, <2>1 DEF OrderReceived
  <2> QED BY <1>7, <2>1, <2>2 DEF OrderReceived, Known
<1>8. ASSUME NEW n \in Notices, SendNotice(n),
             UNCHANGED <<provider, operatorVars>>
      PROVE  OrderReceived'
  <2>1. PICK answer \in {"due", "ok"} : Dispatched(n, answer)
    BY <1>8, SendNoticeIs
  <2>2. mail' = mail /\ \A p \in Payouts : turn'[p] = turn[p]
    BY <1>0, <2>1 DEF Dispatched
  <2> QED BY <1>8, <2>2, OrderFrame
<1>9. ASSUME NEW e \in Events, Mark(e), UNCHANGED provider
      PROVE  OrderReceived'
  <2>1. \A p \in Payouts :
          /\ turn'[p] \in {turn[p], "due"}
          /\ mail'[p] = "delivered" => mail[p] = "delivered" \/ turn[p] = "ok"
    BY <1>0, <1>9 DEF Mark, MarkedDelivered, GivenUp
  <2> QED BY <1>9, <2>1, OrderFrame DEF Mark
<1>10. CASE KernelCommits
  BY <1>2, <1>3, <1>10 DEF KernelCommits
<1>11. CASE Fixed /\ OperatorReports
  BY <1>1, <1>11 DEF OperatorReports, AcknowledgeTransfer, AcknowledgeUnfinished
<1>12. CASE Fixed /\ Faults
  BY <1>1, <1>4, <1>5, <1>12 DEF Faults, RefusePayoutStatus, LoseJob
<1>13. ASSUME NEW e \in Events, Work(e) PROVE OrderReceived'
  BY <1>6, <1>7, <1>8, <1>9, <1>13 DEF Work, Send
<1>14. ASSUME NEW call \in calls, AnswerCall(call) PROVE OrderReceived'
  BY <1>1, <1>14 DEF AnswerCall, AcknowledgePayoutStatus
<1>15. ASSUME NEW job \in jobs, Forward(job) PROVE OrderReceived'
  BY <1>1, <1>15 DEF Forward, ForwardPayoutStatus, ForwardTransfer
<1>16. CASE UNCHANGED vars
  BY <1>1, <1>16 DEF vars
<1> QED BY <1>10, <1>11, <1>12, <1>13, <1>14, <1>15, <1>16 DEF Next

(* An order the outbox calls delivered has an outcome the kernel knows,    *)
(* that is on its way to it, or that was lost in a callback.               *)
DeliveredAnswered ==
  \A p \in Payouts :
    provider[p] = "live" /\ mail[p] = "delivered" /\ restarts = 0 =>
      \/ rows[p].payout \in {"confirmed", "failed"}
      \/ \E c \in Sightings(p) : c.status \in Outcomes

(* processOne and LiveHTTPProvider: while the simulator has not stopped,   *)
(* an order marked delivered is never one that nobody answered.            *)
THEOREM DeliveredOrdersAnswered == Spec => []DeliveredAnswered
<1>1. Init => OrderReceived
  BY DEF Init, OutboxInit, OperatorInit, OrderReceived
<1>2. DeliveryInv /\ OrderReceived => DeliveredAnswered
  BY DEF DeliveryInv, OutcomeAccounted, OrderReceived, DeliveredAnswered
<1> QED BY <1>1, <1>2, OrderReceivedStep, DeliveryInvariant, PTL DEF Spec

(* A payout is closed when its money moved once, disputed when it did not  *)
(* move.                                                                   *)
PaidExactlyOnce ==
  \A p \in Payouts :
    provider[p] # "mock" /\ (provider[p] = "live" => restarts = 0) =>
      /\ rows[p].payout = "confirmed" => executions[p] = 1
      /\ rows[p].payout = "failed" => executions[p] = 0

(* confirm_payout and fail_payout: with an operator that keeps its records *)
(* a confirmed payout moved its money exactly once and a failed one never, *)
(* whatever was retried, lost or late on the way.                          *)
THEOREM ConfirmedPaidOnce == Spec => []PaidExactlyOnce
<1>1. DeliveryInv => PaidExactlyOnce
  <2> SUFFICES ASSUME DeliveryInv, NEW p \in Payouts,
                      provider[p] # "mock",
                      provider[p] = "live" => restarts = 0
               PROVE  /\ rows[p].payout = "confirmed" => executions[p] = 1
                      /\ rows[p].payout = "failed" => executions[p] = 0
    BY DEF PaidExactlyOnce
  <2>1. executions[p] \in Nat /\ executions[p] <= 1
    BY DEF DeliveryInv, Shape, RecordsTrue, Forgettings
  <2> QED
    BY <2>1 DEF DeliveryInv, BeliefsTrue, Paid, RefusedForGood, RecordsTrue
<1> QED BY <1>1, DeliveryInvariant, PTL

===============================================================================
