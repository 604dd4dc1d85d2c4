------------------------- MODULE OutboxWorker_proofs -------------------------
(***************************************************************************)
(* Theorems about the outbox worker, for any number of events and workers, *)
(* any limits and any number of losses.                                    *)
(*                                                                         *)
(* What the rows say is right because of what the workers hold in memory:  *)
(* WorkerInv adds it.  A row in a batch has been sent as often as it has   *)
(* attempts, the row in hand once more as soon as it is dispatched, and a  *)
(* worker that is about to mark a row delivered has handed it over.        *)
(***************************************************************************)
EXTENDS OutboxWorker, FiniteSetTheorems, TLAPS

(* The event in hand is an event, and no longer in the batch.              *)
InHand ==
  \A w \in Workers : step[w] # "poll" =>
    current[w] \in Events /\ current[w] \notin batch[w]

(* Sends of the rows that are held, and of those nobody has claimed yet.   *)
HeldSends ==
  /\ \A w \in Workers :
       /\ \A e \in batch[w] : sends[e] = attempts[e]
       /\ step[w] = "send" => sends[current[w]] = attempts[current[w]]
       /\ step[w] \in {"confirm", "done", "error"} =>
            sends[current[w]] = attempts[current[w]] + 1
  /\ \A e \in Events : status[e] \in {"absent", "pending"} =>
       attempts[e] = 0 /\ sends[e] = 0

(* What a worker that will confirm, or mark delivered, has done.           *)
HandedOver ==
  \A w \in Workers :
    /\ step[w] = "confirm" => current[w] \in Immediate \cap accepted
    /\ step[w] = "done" =>
         /\ current[w] \in Payouts => current[w] \in accepted
         /\ current[w] \in Immediate => current[w] \in confirmed

WorkerInv ==
  /\ TypeOK
  /\ InHand
  /\ ClaimsExclusive
  /\ HeldSends
  /\ AttemptsCountSends
  /\ HandedOver
  /\ DeliveredMeansHandedOver

-------------------------------------------------------------------------------

LEMMA InitWorkerInv == Init => WorkerInv
  BY WorkerAssumption
  DEF Init, WorkerInv, TypeOK, InHand, ClaimsExclusive, Held, HeldSends,
      AttemptsCountSends, HandedOver, DeliveredMeansHandedOver, Statuses

LEMMA TypeStep == WorkerInv /\ [Next]_vars => TypeOK'
<1> SUFFICES ASSUME WorkerInv, [Next]_vars PROVE TypeOK'
  OBVIOUS
<1> USE WorkerAssumption DEF WorkerInv, TypeOK, Statuses
<1>1. ASSUME NEW e \in Events, Publish(e) PROVE TypeOK'
  BY <1>1 DEF Publish, targetVars
<1>2. ASSUME NEW e \in Events, BackoffElapses(e) PROVE TypeOK'
  BY <1>2 DEF BackoffElapses, targetVars
<1>3. ASSUME NEW w \in Workers, Claim(w) PROVE TypeOK'
  BY <1>3 DEF Claim, Claimable, targetVars
<1>4. ASSUME NEW w \in Workers, Begin(w) PROVE TypeOK'
  BY <1>4 DEF Begin, rowVars, targetVars
<1>5. ASSUME NEW w \in Workers, Dispatch(w) PROVE TypeOK'
  <2> step[w] \in {"send", "confirm"} /\ current[w] \in Events
    BY <1>5 DEF Dispatch, Notify, SendAccepted, SendFails, ConfirmSucceeds,
               ConfirmFails, InHand
  <2>1. CASE Notify(w)
    BY <2>1 DEF Notify, Sent, Goto, rowVars, HeldSends
  <2>2. CASE SendAccepted(w)
    BY <2>2 DEF SendAccepted, Sent, Goto, AfterSend, rowVars, HeldSends
  <2>3. CASE SendFails(w)
    BY <2>3 DEF SendFails, Sent, Goto, rowVars, HeldSends
  <2>4. CASE ConfirmSucceeds(w)
    BY <2>4 DEF ConfirmSucceeds, Goto, rowVars, HandedOver
  <2>5. CASE ConfirmFails(w)
    BY <2>5 DEF ConfirmFails, Goto, rowVars, HandedOver
  <2> QED BY <1>5, <2>1, <2>2, <2>3, <2>4, <2>5 DEF Dispatch
<1>6. ASSUME NEW w \in Workers, Mark(w) PROVE TypeOK'
  <2> current[w] \in Events
    BY <1>6 DEF Mark, MarkDelivered, ScheduleRetry, MarkDeadLetter, InHand
  <2> QED
    BY <1>6 DEF Mark, MarkDelivered, ScheduleRetry, MarkDeadLetter, LastAttempt,
               Finish, Goto, targetVars
<1>7. ASSUME NEW w \in Workers, MarkFails(w) PROVE TypeOK'
  BY <1>7 DEF MarkFails, Finish, Goto, rowVars, targetVars
<1>8. ASSUME NEW w \in Workers, Crash(w) PROVE TypeOK'
  BY <1>8 DEF Crash, Finish, Goto, rowVars, targetVars
<1>9. CASE UNCHANGED vars
  BY <1>9 DEF vars
<1> QED
  BY <1>1, <1>2, <1>3, <1>4, <1>5, <1>6, <1>7, <1>8, <1>9 DEF Next, Work

-------------------------------------------------------------------------------

(* The rest of the invariant.                                              *)
Custody ==
  /\ InHand
  /\ ClaimsExclusive
  /\ HeldSends
  /\ AttemptsCountSends
  /\ HandedOver
  /\ DeliveredMeansHandedOver

(* The row in hand is locked to its worker by its status alone.            *)
LEMMA InHandIsMine ==
  ASSUME WorkerInv, NEW w \in Workers, step[w] # "poll"
  PROVE  /\ current[w] \in Events
         /\ current[w] \notin batch[w]
         /\ status[current[w]] = "processing"
         /\ \A v \in Workers \ {w} : current[w] \notin Held(v)
  BY DEF WorkerInv, InHand, ClaimsExclusive, Held

LEMMA PublishStep ==
  ASSUME WorkerInv, NEW e \in Events, Publish(e)
  PROVE  Custody'
<1> USE WorkerAssumption DEF WorkerInv, TypeOK, Statuses, Publish, targetVars
<1>1. InHand'
  BY DEF InHand
<1>2. ClaimsExclusive'
  BY DEF ClaimsExclusive, Held
<1>3. HeldSends'
  BY DEF HeldSends
<1>4. AttemptsCountSends'
  BY DEF AttemptsCountSends, HeldSends
<1>5. HandedOver' /\ DeliveredMeansHandedOver'
  BY DEF HandedOver, DeliveredMeansHandedOver
<1> QED BY <1>1, <1>2, <1>3, <1>4, <1>5 DEF Custody

LEMMA BackoffStep ==
  ASSUME WorkerInv, NEW e \in Events, BackoffElapses(e)
  PROVE  Custody'
  BY DEF WorkerInv, BackoffElapses, targetVars, Custody, InHand, ClaimsExclusive,
         Held, HeldSends, AttemptsCountSends, HandedOver, DeliveredMeansHandedOver

(* A claim takes rows nobody holds.                                        *)
LEMMA ClaimStep ==
  ASSUME WorkerInv, NEW w \in Workers, Claim(w)
  PROVE  Custody'
<1> USE WorkerAssumption DEF WorkerInv, TypeOK, Statuses
<1> PICK claimed \in SUBSET Claimable :
      /\ batch' = [batch EXCEPT ![w] = claimed]
      /\ status' = [e \in Events |->
                      IF e \in claimed THEN "processing" ELSE status[e]]
  BY DEF Claim
<1>1. /\ step[w] = "poll" /\ batch[w] = {}
      /\ UNCHANGED <<attempts, current, step, accepted, confirmed, sends>>
  BY DEF Claim, targetVars
<1>2. \A e \in claimed : e \in Events /\ status[e] \in {"pending", "failed"}
  BY DEF Claimable
<1>3. InHand'
  <2> SUFFICES ASSUME NEW v \in Workers, step[v] # "poll"
               PROVE  current[v] \in Events /\ current[v] \notin batch'[v]
    BY <1>1 DEF InHand
  <2> QED BY <1>1 DEF InHand
<1>4. ClaimsExclusive'
  <2>1. Held(w)' = claimed
    BY <1>1 DEF Held
  <2>2. \A v \in Workers \ {w} : Held(v)' = Held(v)
    BY <1>1 DEF Held
  <2>3. \A v \in Workers : Held(v) \cap claimed = {}
    BY <1>2 DEF ClaimsExclusive
  <2>4. \A v \in Workers : \A e \in Held(v) : e \in Events
    BY DEF Held, InHand
  <2>5. ASSUME NEW v \in Workers, NEW e \in Held(v)'
        PROVE  status'[e] = "processing"
    BY <1>2, <2>1, <2>2, <2>4 DEF ClaimsExclusive
  <2>6. ASSUME NEW v \in Workers, NEW u \in Workers \ {v}
        PROVE  Held(v)' \cap Held(u)' = {}
    <3>1. CASE v = w  BY <3>1, <2>1, <2>2, <2>3
    <3>2. CASE u = w  BY <3>2, <2>1, <2>2, <2>3
    <3>3. CASE v # w /\ u # w  BY <3>3, <2>2 DEF ClaimsExclusive
    <3> QED BY <3>1, <3>2, <3>3
  <2> QED BY <2>5, <2>6 DEF ClaimsExclusive
<1>5. HeldSends'
  BY <1>1, <1>2 DEF HeldSends, AttemptsCountSends
<1>6. AttemptsCountSends'
  BY <1>1, <1>2 DEF AttemptsCountSends
<1>7. HandedOver' /\ DeliveredMeansHandedOver'
  BY <1>1 DEF HandedOver, DeliveredMeansHandedOver
<1> QED BY <1>3, <1>4, <1>5, <1>6, <1>7 DEF Custody

LEMMA BeginStep ==
  ASSUME WorkerInv, NEW w \in Workers, Begin(w)
  PROVE  Custody'
<1> USE WorkerAssumption DEF WorkerInv, TypeOK
<1> PICK e \in batch[w] :
      /\ batch' = [batch EXCEPT ![w] = @ \ {e}]
      /\ current' = [current EXCEPT ![w] = e]
  BY DEF Begin
<1>1. /\ step[w] = "poll" /\ step' = [step EXCEPT ![w] = "send"]
      /\ UNCHANGED <<status, attempts, accepted, confirmed, sends>>
  BY DEF Begin, rowVars, targetVars
<1>2. InHand'
  BY <1>1 DEF InHand
<1>3. ClaimsExclusive'
  <2>1. \A v \in Workers : Held(v)' = Held(v)
    BY <1>1 DEF Held
  <2> QED BY <1>1, <2>1 DEF ClaimsExclusive
<1>4. HeldSends'
  BY <1>1 DEF HeldSends
<1>5. AttemptsCountSends' /\ DeliveredMeansHandedOver'
  BY <1>1 DEF AttemptsCountSends, DeliveredMeansHandedOver
<1>6. HandedOver'
  BY <1>1 DEF HandedOver
<1> QED BY <1>2, <1>3, <1>4, <1>5, <1>6 DEF Custody

-------------------------------------------------------------------------------

(* A dispatch leaves the rows and what is held alone.                      *)
LEMMA DispatchKeepsHolds ==
  ASSUME WorkerInv, NEW w \in Workers, Dispatch(w)
  PROVE  InHand' /\ ClaimsExclusive'
<1> USE DEF WorkerInv, TypeOK
<1>1. /\ step[w] \in {"send", "confirm"}
      /\ \E next \in {"confirm", "done", "error"} :
           step' = [step EXCEPT ![w] = next]
      /\ UNCHANGED <<status, batch, current>>
  BY DEF Dispatch, Notify, SendAccepted, SendFails, ConfirmSucceeds,
         ConfirmFails, Goto, AfterSend, rowVars
<1>2. \A v \in Workers : Held(v)' = Held(v)
  BY <1>1 DEF Held
<1> QED BY <1>1, <1>2 DEF InHand, ClaimsExclusive

(* It counts as a send of the row in hand, once.                           *)
LEMMA SendCounted ==
  ASSUME WorkerInv, NEW w \in Workers,
         step[w] = "send", Sent(w),
         NEW next \in {"confirm", "done", "error"}, Goto(w, next),
         UNCHANGED <<status, attempts, batch, current>>
  PROVE  HeldSends' /\ AttemptsCountSends'
<1> USE DEF WorkerInv, TypeOK
<1>1. /\ current[w] \in Events /\ current[w] \notin batch[w]
      /\ status[current[w]] = "processing"
      /\ \A v \in Workers \ {w} : current[w] \notin Held(v)
  BY InHandIsMine
<1>2. /\ sends' = [sends EXCEPT ![current[w]] = @ + 1]
      /\ step' = [step EXCEPT ![w] = next]
      /\ sends[current[w]] = attempts[current[w]]
  BY DEF Sent, Goto, HeldSends
<1>3. HeldSends'
  <2>1. ASSUME NEW v \in Workers, v # w
        PROVE  /\ \A e \in batch[v] : sends'[e] = sends[e]
               /\ step[v] # "poll" => sends'[current[v]] = sends[current[v]]
    BY <1>1, <1>2, <2>1 DEF Held, InHand
  <2>2. \A e \in batch[w] : sends'[e] = sends[e]
    BY <1>1, <1>2
  <2>3. sends'[current[w]] = attempts[current[w]] + 1
    BY <1>1, <1>2
  <2>4. \A e \in Events : status[e] \in {"absent", "pending"} =>
          sends'[e] = sends[e]
    BY <1>1, <1>2
  <2> QED BY <1>1, <1>2, <2>1, <2>2, <2>3, <2>4 DEF HeldSends
<1>4. AttemptsCountSends'
  BY <1>1, <1>2 DEF AttemptsCountSends
<1> QED BY <1>3, <1>4

LEMMA DispatchStep ==
  ASSUME WorkerInv, NEW w \in Workers, Dispatch(w)
  PROVE  Custody'
<1> USE WorkerAssumption DEF WorkerInv, TypeOK, rowVars
<1>1. InHand' /\ ClaimsExclusive'
  BY DispatchKeepsHolds
<1>2. HeldSends' /\ AttemptsCountSends'
  <2>1. CASE Notify(w)
    BY <2>1, SendCounted DEF Notify
  <2>2. CASE SendAccepted(w)
    BY <2>2, SendCounted DEF SendAccepted, AfterSend
  <2>3. CASE SendFails(w)
    BY <2>3, SendCounted DEF SendFails
  <2>4. CASE ConfirmSucceeds(w)
    BY <2>4 DEF ConfirmSucceeds, Goto, HeldSends, AttemptsCountSends
  <2>5. CASE ConfirmFails(w)
    BY <2>5 DEF ConfirmFails, Goto, HeldSends, AttemptsCountSends
  <2> QED BY <2>1, <2>2, <2>3, <2>4, <2>5 DEF Dispatch
<1>3. HandedOver'
  <2>1. CASE Notify(w)
    BY <2>1 DEF Notify, Goto, HandedOver
  <2>2. CASE SendAccepted(w)
    BY <2>2 DEF SendAccepted, Goto, AfterSend, HandedOver
  <2>3. CASE SendFails(w)
    BY <2>3 DEF SendFails, Goto, HandedOver
  <2>4. CASE ConfirmSucceeds(w)
    BY <2>4 DEF ConfirmSucceeds, Goto, HandedOver
  <2>5. CASE ConfirmFails(w)
    BY <2>5 DEF ConfirmFails, Goto, HandedOver
  <2> QED BY <2>1, <2>2, <2>3, <2>4, <2>5 DEF Dispatch
<1>4. DeliveredMeansHandedOver'
  <2>1. /\ status' = status
        /\ accepted \subseteq accepted' /\ confirmed \subseteq confirmed'
        /\ confirmed' \subseteq confirmed \cup {current[w]}
        /\ confirmed' # confirmed => step[w] = "confirm"
    BY DEF Dispatch, Notify, SendAccepted, SendFails, ConfirmSucceeds,
           ConfirmFails
  <2>2. confirmed' \subseteq accepted'
    BY <2>1 DEF HandedOver, DeliveredMeansHandedOver
  <2>3. \A e \in Events : sends[e] > 0 => sends'[e] > 0
    <3>1. CASE sends' = sends
      BY <3>1
    <3>2. CASE Sent(w)
      BY <3>2 DEF Sent
    <3> QED BY <3>1, <3>2 DEF Dispatch, Notify, SendAccepted, SendFails,
                                ConfirmSucceeds, ConfirmFails
  <2> QED BY <2>1, <2>2, <2>3 DEF DeliveredMeansHandedOver
<1> QED BY <1>1, <1>2, <1>3, <1>4 DEF Custody

-------------------------------------------------------------------------------

(* A worker that lets go of what it holds disturbs nobody.                 *)
LEMMA ReleaseKeepsHolds ==
  ASSUME WorkerInv, NEW w \in Workers, Finish(w),
         \A v \in Workers : batch'[v] \subseteq batch[v],
         \A e \in Events \ {current[w]} : status'[e] = status[e],
         step[w] # "poll" \/ status' = status
  PROVE  InHand' /\ ClaimsExclusive'
<1> USE DEF WorkerInv, TypeOK
<1>1. /\ step' = [step EXCEPT ![w] = "poll"]
      /\ current' = [current EXCEPT ![w] = NoEvent]
  BY DEF Finish, Goto
<1>2. InHand'
  BY <1>1 DEF InHand
<1>3. \A v \in Workers : Held(v)' \subseteq Held(v)
  BY <1>1 DEF Held
<1>4. Held(w)' \subseteq batch[w]
  BY <1>1 DEF Held
<1>5. ASSUME NEW v \in Workers, NEW e \in Held(v)'
      PROVE  status'[e] = "processing"
  <2>1. e \in Held(v) /\ status[e] = "processing"
    BY <1>3 DEF ClaimsExclusive
  <2>2. e \in Events
    BY <2>1 DEF Held, InHand
  <2>3. CASE step[w] = "poll"
    BY <2>1, <2>3
  <2>4. CASE step[w] # "poll"
    BY <1>4, <2>1, <2>2, <2>4, InHandIsMine
  <2> QED BY <2>3, <2>4
<1> QED BY <1>2, <1>3, <1>5 DEF ClaimsExclusive

LEMMA MarkStep ==
  ASSUME WorkerInv, NEW w \in Workers, Mark(w)
  PROVE  Custody'
<1> USE WorkerAssumption DEF WorkerInv, TypeOK, Statuses
<1>1. /\ step[w] \in {"done", "error"} /\ Finish(w)
      /\ UNCHANGED <<batch, accepted, confirmed, sends>>
      /\ step' = [step EXCEPT ![w] = "poll"]
      /\ current' = [current EXCEPT ![w] = NoEvent]
  BY DEF Mark, MarkDelivered, ScheduleRetry, MarkDeadLetter, Finish, Goto,
         targetVars
<1>2. /\ current[w] \in Events /\ current[w] \notin batch[w]
      /\ status[current[w]] = "processing"
      /\ \A v \in Workers \ {w} : current[w] \notin Held(v)
      /\ sends[current[w]] = attempts[current[w]] + 1
  BY <1>1, InHandIsMine DEF HeldSends
<1>3. \E next \in {"delivered", "failed", "dead_letter"} :
        status' = [status EXCEPT ![current[w]] = next]
  BY DEF Mark, MarkDelivered, ScheduleRetry, MarkDeadLetter
<1>4. InHand' /\ ClaimsExclusive'
  BY <1>1, <1>3, ReleaseKeepsHolds
<1>5. \A e \in Events \ {current[w]} :
        attempts'[e] = attempts[e] /\ status'[e] = status[e]
  BY <1>3 DEF Mark, MarkDelivered, ScheduleRetry, MarkDeadLetter
<1>6. HeldSends'
  <2>1. ASSUME NEW v \in Workers
        PROVE  /\ current[w] \notin batch[v]
               /\ v # w /\ step[v] # "poll" => current[v] # current[w]
    BY <1>2 DEF Held
  <2>2. ASSUME NEW v \in Workers
        PROVE  \A e \in batch'[v] : sends'[e] = attempts'[e]
    BY <1>1, <1>5, <2>1 DEF HeldSends
  <2>3. ASSUME NEW v \in Workers, step'[v] # "poll"
        PROVE  /\ v # w /\ current'[v] = current[v] /\ step'[v] = step[v]
               /\ attempts'[current[v]] = attempts[current[v]]
    BY <1>1, <1>5, <2>1, <2>3 DEF InHand
  <2>4. \A e \in Events : status'[e] \in {"absent", "pending"} =>
          attempts'[e] = 0 /\ sends'[e] = 0
    BY <1>1, <1>2, <1>3, <1>5 DEF HeldSends
  <2> QED BY <1>1, <2>2, <2>3, <2>4 DEF HeldSends
<1>7. AttemptsCountSends'
  <2>1. CASE MarkDelivered(w)
    BY <1>1, <1>2, <2>1 DEF MarkDelivered, AttemptsCountSends
  <2>2. CASE ScheduleRetry(w)
    BY <1>1, <1>2, <2>2 DEF ScheduleRetry, AttemptsCountSends
  <2>3. CASE MarkDeadLetter(w)
    BY <1>1, <1>2, <2>3 DEF MarkDeadLetter, LastAttempt, AttemptsCountSends
  <2> QED BY <2>1, <2>2, <2>3 DEF Mark
<1>8. HandedOver'
  BY <1>1 DEF HandedOver
<1>9. DeliveredMeansHandedOver'
  <2>1. CASE MarkDelivered(w)
    BY <1>1, <1>2, <2>1 DEF MarkDelivered, HandedOver, DeliveredMeansHandedOver
  <2>2. CASE ScheduleRetry(w) \/ MarkDeadLetter(w)
    BY <1>1, <1>2, <2>2
    DEF ScheduleRetry, MarkDeadLetter, DeliveredMeansHandedOver
  <2> QED BY <2>1, <2>2 DEF Mark
<1> QED BY <1>4, <1>6, <1>7, <1>8, <1>9 DEF Custody

(* A lost batch leaves its rows as they are: nobody will claim them.       *)
LEMMA LossStep ==
  ASSUME WorkerInv, NEW w \in Workers, MarkFails(w) \/ Crash(w)
  PROVE  Custody'
<1> USE DEF WorkerInv, TypeOK
<1>1. /\ Finish(w)
      /\ step' = [step EXCEPT ![w] = "poll"]
      /\ current' = [current EXCEPT ![w] = NoEvent]
      /\ \A v \in Workers : batch'[v] \subseteq batch[v]
      /\ UNCHANGED <<status, attempts, accepted, confirmed, sends>>
  BY DEF MarkFails, Crash, Finish, Goto, rowVars, targetVars
<1>2. InHand' /\ ClaimsExclusive'
  BY <1>1, ReleaseKeepsHolds
<1>3. HeldSends'
  BY <1>1 DEF HeldSends
<1>4. AttemptsCountSends' /\ HandedOver' /\ DeliveredMeansHandedOver'
  BY <1>1 DEF AttemptsCountSends, HandedOver, DeliveredMeansHandedOver
<1> QED BY <1>2, <1>3, <1>4 DEF Custody

-------------------------------------------------------------------------------

LEMMA WorkerInvStep == WorkerInv /\ [Next]_vars => WorkerInv'
<1> SUFFICES ASSUME WorkerInv, [Next]_vars PROVE WorkerInv'
  OBVIOUS
<1>1. TypeOK'
  BY TypeStep
<1>2. Custody'
  <2>1. CASE UNCHANGED vars
    BY <2>1
    DEF vars, WorkerInv, Custody, InHand, ClaimsExclusive, Held, HeldSends,
        AttemptsCountSends, HandedOver, DeliveredMeansHandedOver
  <2>2. CASE Next
    BY <2>2, PublishStep, BackoffStep, ClaimStep, BeginStep, DispatchStep,
       MarkStep, LossStep
    DEF Next, Work
  <2> QED BY <2>1, <2>2
<1> QED BY <1>1, <1>2 DEF WorkerInv, Custody

(* Everything below is part of this invariant or follows from it.          *)
THEOREM WorkerInvariant == Spec => []WorkerInv
  BY InitWorkerInv, WorkerInvStep, PTL DEF Spec

(* Every variable keeps its type, however many events and workers.         *)
THEOREM WorkerTypeCorrect == Spec => []TypeOK
  BY WorkerInvariant, PTL DEF WorkerInv

(* No two workers hold a row, and no worker holds a row others may claim   *)
(* or consider settled (SKIP LOCKED and the statuses of claimPending).     *)
THEOREM ClaimsAreExclusive == Spec => []ClaimsExclusive
  BY WorkerInvariant, PTL DEF WorkerInv

(* The column attempts tells how often an event was sent, whatever crashed *)
(* (scheduleRetry, markDeadLetter): MaxAttempts bounds the sends.          *)
THEOREM SendsAreCounted == Spec => []AttemptsCountSends
  BY WorkerInvariant, PTL DEF WorkerInv

(* markDelivered is reached only after the operator, and for the mock the  *)
(* kernel, have what the event asks for.                                   *)
THEOREM DeliveredIsHandedOver == Spec => []DeliveredMeansHandedOver
  BY WorkerInvariant, PTL DEF WorkerInv

(* A row selected by checkPayoutRetryExceeded counts the sends of its      *)
(* payout, and every payout that waits after that many is selected.        *)
LEMMA SelectedExactly ==
  ASSUME WorkerInv, NEW e \in Payouts
  PROVE  /\ e \in RetryExceeded <=> sends[e] >= AlarmAttempts /\ Waits(e)
         /\ e \in RetryExceeded => attempts[e] = sends[e]
<1> USE WorkerAssumption DEF WorkerInv, TypeOK, Statuses
<1>1. status[e] = "failed" => sends[e] = attempts[e]
  BY DEF AttemptsCountSends
<1>2. status[e] # "processing" => \A w \in Workers : e \notin Held(w)
  BY DEF ClaimsExclusive
<1>3. status[e] \in {"absent", "pending"} => sends[e] = 0
  BY DEF HeldSends
<1>4. e \in Events /\ status[e] \in Statuses /\ sends[e] \in Nat
  OBVIOUS
<1> QED BY <1>1, <1>2, <1>3, <1>4 DEF RetryExceeded, Waits, Settled, Stranded

(* checkPayoutRetryExceeded reads rows only and reports a bounded number:  *)
(* whichever it reports were sent too often and wait, and those left out   *)
(* were sent no more often than any reported.                              *)
THEOREM AlarmsReportTheWorst == Spec => []AlarmsReportWorst
<1>1. ASSUME WorkerInv, NEW report \in RetryReports
      PROVE  /\ \A e \in report : sends[e] >= AlarmAttempts /\ Waits(e)
             /\ \A e \in Payouts \ report :
                  sends[e] >= AlarmAttempts /\ Waits(e) =>
                    /\ Cardinality(report) = ReportLimit
                    /\ \A f \in report : sends[f] >= sends[e]
  <2>1. /\ report \subseteq RetryExceeded
        /\ report = RetryExceeded \/ Cardinality(report) = ReportLimit
        /\ \A f \in report, e \in RetryExceeded \ report : attempts[f] >= attempts[e]
    BY <1>1 DEF RetryReports
  <2>2. RetryExceeded \subseteq Payouts
    BY DEF RetryExceeded
  <2>3. \A e \in report : sends[e] >= AlarmAttempts /\ Waits(e)
    BY <1>1, <2>1, <2>2, SelectedExactly
  <2>4. ASSUME NEW e \in Payouts \ report, sends[e] >= AlarmAttempts, Waits(e)
        PROVE  /\ Cardinality(report) = ReportLimit
               /\ \A f \in report : sends[f] >= sends[e]
    <3>1. e \in RetryExceeded /\ attempts[e] = sends[e]
      BY <1>1, <2>4, SelectedExactly
    <3>2. \A f \in report : attempts[f] = sends[f]
      BY <1>1, <2>1, <2>2, SelectedExactly
    <3> QED BY <2>1, <3>1, <3>2
  <2> QED BY <2>3, <2>4
<1>2. WorkerInv => AlarmsReportWorst
  BY <1>1 DEF AlarmsReportWorst
<1> QED BY <1>2, WorkerInvariant, PTL

-------------------------------------------------------------------------------
(* The worker implements OutboxPromise.  What a reader sees of an event    *)
(* depends on its row, on who holds it and on how far the holder is.       *)

LEMMA MailFrame ==
  ASSUME NEW e \in Events, status'[e] = status[e],
         \A w \in Workers : e \in Held(w)' <=> e \in Held(w)
  PROVE  MailOf(e)' = MailOf(e)
  BY DEF MailOf, Stranded

LEMMA MailHeld ==
  ASSUME WorkerInv, NEW w \in Workers, NEW e \in Held(w)
  PROVE  MailOf(e) = "queued"
<1>1. status[e] = "processing" /\ ~Stranded(e)
  BY DEF WorkerInv, ClaimsExclusive, Stranded
<1> QED BY <1>1 DEF MailOf

LEMMA TurnFrame ==
  ASSUME NEW e \in Events,
         \A w \in Workers, at \in {"confirm", "done"} :
           current'[w] = e /\ step'[w] = at <=> current[w] = e /\ step[w] = at
  PROVE  TurnOf(e)' = TurnOf(e)
  BY DEF TurnOf

(* The turn of an event in hand is where its holder is.                    *)
TurnAt(at) ==
  IF at = "confirm" THEN "confirm" ELSE IF at = "done" THEN "ok" ELSE "due"

LEMMA TurnMine ==
  ASSUME WorkerInv, NEW w \in Workers, step[w] # "poll"
  PROVE  TurnOf(current[w]) = TurnAt(step[w])
<1>1. \A v \in Workers \ {w} : step[v] # "poll" => current[v] # current[w]
  BY InHandIsMine DEF Held
<1> QED BY <1>1 DEF TurnOf, TurnAt

LEMMA Stutters ==
  ASSUME \A e \in Events : MailOf(e)' = MailOf(e) /\ TurnOf(e)' = TurnOf(e),
         sends' = sends
  PROVE  UNCHANGED Promise!outboxVars
  BY DEF Promise!outboxVars

LEMMA PromiseInit == Init => Promise!OutboxInit
  BY DEF Init, Promise!OutboxInit, MailOf, Stranded, TurnOf

LEMMA PublishPosts ==
  ASSUME WorkerInv, NEW e \in Events, Publish(e)
  PROVE  Promise!Post(e)
<1> USE DEF WorkerInv, TypeOK, Publish, targetVars
<1>1. \A w \in Workers : Held(w)' = Held(w)
  BY DEF Held
<1>2. MailOf(e) = "absent" /\ MailOf(e)' = "queued"
  BY DEF MailOf, Stranded
<1>3. \A f \in Events \ {e} : MailOf(f)' = MailOf(f)
  BY <1>1, MailFrame
<1>4. \A f \in Events : TurnOf(f)' = TurnOf(f)
  BY TurnFrame
<1> QED BY <1>2, <1>3, <1>4 DEF Promise!Post

LEMMA BackoffStutters ==
  ASSUME WorkerInv, NEW e \in Events, BackoffElapses(e)
  PROVE  UNCHANGED Promise!outboxVars
<1> USE DEF WorkerInv, TypeOK, BackoffElapses, targetVars
<1>1. \A w \in Workers : Held(w)' = Held(w)
  BY DEF Held
<1> QED BY <1>1, MailFrame, TurnFrame, Stutters

LEMMA ClaimStutters ==
  ASSUME WorkerInv, NEW w \in Workers, Claim(w)
  PROVE  UNCHANGED Promise!outboxVars
<1> USE DEF WorkerInv, TypeOK
<1> PICK claimed \in SUBSET Claimable :
      /\ batch' = [batch EXCEPT ![w] = claimed]
      /\ status' = [e \in Events |->
                      IF e \in claimed THEN "processing" ELSE status[e]]
  BY DEF Claim
<1>1. step[w] = "poll" /\ batch[w] = {} /\ UNCHANGED <<current, step, sends>>
  BY DEF Claim, targetVars
<1>2. Held(w)' = claimed /\ Held(w) = {}
  BY <1>1 DEF Held
<1>3. \A v \in Workers \ {w} : Held(v)' = Held(v)
  BY <1>1 DEF Held
<1>4. ASSUME NEW e \in Events
      PROVE  MailOf(e)' = MailOf(e)
  <2>1. CASE e \in claimed
    <3>1. MailOf(e) = "queued"
      BY <2>1 DEF Claimable, MailOf, Stranded
    <3>2. MailOf(e)' = "queued"
      BY <1>2, <2>1 DEF MailOf, Stranded
    <3> QED BY <3>1, <3>2
  <2>2. CASE e \notin claimed
    BY <1>2, <1>3, <2>2, MailFrame
  <2> QED BY <2>1, <2>2
<1>5. \A e \in Events : TurnOf(e)' = TurnOf(e)
  BY <1>1, TurnFrame
<1> QED BY <1>1, <1>4, <1>5, Stutters

LEMMA BeginStutters ==
  ASSUME WorkerInv, NEW w \in Workers, Begin(w)
  PROVE  UNCHANGED Promise!outboxVars
<1> USE DEF WorkerInv, TypeOK
<1> PICK b \in batch[w] :
      /\ batch' = [batch EXCEPT ![w] = @ \ {b}]
      /\ current' = [current EXCEPT ![w] = b]
  BY DEF Begin
<1>1. /\ step[w] = "poll" /\ step' = [step EXCEPT ![w] = "send"]
      /\ UNCHANGED <<status, sends>>
  BY DEF Begin, rowVars, targetVars
<1>2. \A v \in Workers : Held(v)' = Held(v)
  BY <1>1 DEF Held
<1>3. \A e \in Events : MailOf(e)' = MailOf(e)
  BY <1>1, <1>2, MailFrame
<1>4. \A e \in Events : TurnOf(e)' = TurnOf(e)
  BY <1>1, TurnFrame
<1> QED BY <1>1, <1>3, <1>4, Stutters

(* A dispatch concerns the event in hand and nobody else.                  *)
LEMMA DispatchTurns ==
  ASSUME WorkerInv, NEW w \in Workers, step[w] # "poll",
         NEW next \in {"confirm", "done", "error"}, Goto(w, next),
         UNCHANGED <<status, batch, current>>
  PROVE  /\ \A e \in Events : MailOf(e)' = MailOf(e)
         /\ MailOf(current[w]) = "queued"
         /\ \A e \in Events : TurnOf(e)' =
              IF e = current[w] THEN TurnAt(next) ELSE TurnOf(e)
<1> USE DEF WorkerInv, TypeOK
<1>1. step' = [step EXCEPT ![w] = next]
  BY DEF Goto
<1>2. \A v \in Workers : Held(v)' = Held(v)
  BY <1>1 DEF Held
<1>3. current[w] \in Held(w)
  BY DEF Held
<1>4. \A v \in Workers \ {w} : step[v] # "poll" => current[v] # current[w]
  BY InHandIsMine DEF Held
<1>5. TurnOf(current[w])' = TurnAt(next)
  BY <1>1, <1>4 DEF TurnOf, TurnAt
<1>6. \A e \in Events \ {current[w]} : TurnOf(e)' = TurnOf(e)
  BY <1>1, TurnFrame
<1> QED BY <1>2, <1>3, <1>5, <1>6, MailFrame, MailHeld

LEMMA SendDispatches ==
  ASSUME WorkerInv, NEW w \in Workers, step[w] = "send", Sent(w),
         NEW next \in {"confirm", "done", "error"}, Goto(w, next),
         UNCHANGED <<status, batch, current>>
  PROVE  Promise!Dispatched(current[w], TurnAt(next))
<1>1. current[w] \in Events /\ TurnOf(current[w]) = "due"
  BY InHandIsMine, TurnMine DEF TurnAt
<1>2. sends[current[w]] < MaxAttempts
  BY WorkerAssumption, <1>1 DEF WorkerInv, TypeOK, HeldSends
<1> QED BY <1>1, <1>2, DispatchTurns DEF Promise!Dispatched, Sent

LEMMA ConfirmConfirms ==
  ASSUME WorkerInv, NEW w \in Workers, step[w] = "confirm",
         NEW next \in {"done", "error"}, Goto(w, next),
         UNCHANGED <<status, batch, current, sends>>
  PROVE  Promise!Confirmed(current[w], TurnAt(next))
<1>1. current[w] \in Events /\ TurnOf(current[w]) = "confirm"
  BY InHandIsMine, TurnMine DEF TurnAt
<1> QED BY <1>1, DispatchTurns DEF Promise!Confirmed

LEMMA DispatchProgresses ==
  ASSUME WorkerInv, NEW w \in Workers, Dispatch(w)
  PROVE  \E e \in Events : Promise!Progress(e)
<1> SUFFICES Promise!Progress(current[w])
  BY InHandIsMine DEF Dispatch, Notify, SendAccepted, SendFails,
                      ConfirmSucceeds, ConfirmFails
<1>1. TurnAt("confirm") = "confirm" /\ TurnAt("done") = "ok"
      /\ TurnAt("error") = "due"
  BY DEF TurnAt
<1>2. CASE Notify(w)
  BY <1>1, <1>2, SendDispatches DEF Notify, rowVars, Promise!Progress
<1>3. CASE SendAccepted(w)
  <2>1. AfterSend(current[w]) \in {"confirm", "done"}
    BY DEF AfterSend
  <2> QED BY <1>1, <1>3, <2>1, SendDispatches
          DEF SendAccepted, rowVars, Promise!Progress
<1>4. CASE SendFails(w)
  BY <1>1, <1>4, SendDispatches DEF SendFails, rowVars, Promise!Progress
<1>5. CASE ConfirmSucceeds(w)
  BY <1>1, <1>5, ConfirmConfirms DEF ConfirmSucceeds, rowVars, Promise!Progress
<1>6. CASE ConfirmFails(w)
  BY <1>1, <1>6, ConfirmConfirms DEF ConfirmFails, rowVars, Promise!Progress
<1> QED BY <1>2, <1>3, <1>4, <1>5, <1>6 DEF Dispatch

(* When a worker lets go, nothing changes for what it keeps and for what   *)
(* it never had; what it lets go is in nobody's hands.                     *)
LEMMA ReleaseTurns ==
  ASSUME WorkerInv, NEW w \in Workers, Finish(w),
         \A v \in Workers : batch'[v] \subseteq batch[v],
         \A v \in Workers \ {w} : batch'[v] = batch[v]
  PROVE  /\ Held(w)' = batch'[w]
         /\ \A e \in Held(w) \ batch'[w] :
              /\ e \in Events /\ TurnOf(e)' = "due"
              /\ \A v \in Workers : e \notin Held(v)'
         /\ \A e \in Events : e \notin Held(w) \ batch'[w] =>
              /\ TurnOf(e)' = TurnOf(e)
              /\ status'[e] = status[e] => MailOf(e)' = MailOf(e)
<1> USE DEF WorkerInv, TypeOK
<1>1. /\ step' = [step EXCEPT ![w] = "poll"]
      /\ current' = [current EXCEPT ![w] = NoEvent]
  BY DEF Finish, Goto
<1>2. Held(w)' = batch'[w]
  BY <1>1 DEF Held
<1>3. \A v \in Workers \ {w} : Held(v)' = Held(v)
  BY <1>1 DEF Held
<1>4. ASSUME NEW e \in Held(w) \ batch'[w]
      PROVE  /\ e \in Events /\ TurnOf(e)' = "due"
             /\ \A v \in Workers : e \notin Held(v)'
  <2>1. e \in Events
    BY DEF Held, InHand
  <2>2. \A v \in Workers : e \notin Held(v)'
    BY <1>2, <1>3 DEF ClaimsExclusive
  <2>3. \A v \in Workers : current'[v] = e => step'[v] = "poll"
    BY <2>2 DEF Held
  <2> QED BY <2>1, <2>2, <2>3 DEF TurnOf
<1>5. ASSUME NEW e \in Events, e \notin Held(w) \ batch'[w]
      PROVE  /\ TurnOf(e)' = TurnOf(e)
             /\ status'[e] = status[e] => MailOf(e)' = MailOf(e)
  <2>1. \A v \in Workers : e \in Held(v)' <=> e \in Held(v)
    BY <1>2, <1>3, <1>5 DEF Held
  <2>2. current[w] = e => step[w] = "poll"
    BY <1>5 DEF Held, InHand
  <2>3. TurnOf(e)' = TurnOf(e)
    BY <1>1, <2>2, TurnFrame
  <2> QED BY <2>1, <2>3, MailFrame
<1> QED BY <1>2, <1>4, <1>5

LEMMA MarkRefines ==
  ASSUME WorkerInv, NEW w \in Workers, Mark(w)
  PROVE  [Promise!OutboxNext]_(Promise!outboxVars)
<1> USE WorkerAssumption DEF WorkerInv, TypeOK, Statuses
<1>1. /\ step[w] \in {"done", "error"} /\ Finish(w)
      /\ UNCHANGED <<batch, sends>>
  BY DEF Mark, MarkDelivered, ScheduleRetry, MarkDeadLetter, targetVars
<1> PICK c \in Events : c = current[w]
  BY <1>1, InHandIsMine
<1>2. c \in Held(w) \ batch'[w] /\ sends[c] = attempts[c] + 1
  BY <1>1, InHandIsMine DEF HeldSends, Held
<1>3. MailOf(c) = "queued" /\ TurnOf(c) = TurnAt(step[w])
  BY <1>1, <1>2, MailHeld, TurnMine
<1>4. /\ TurnOf(c)' = "due"
      /\ \A e \in Events \ {c} : TurnOf(e)' = TurnOf(e)
  BY <1>1, <1>2, ReleaseTurns DEF Held
<1>5. \A e \in Events \ {c} : status'[e] = status[e] => MailOf(e)' = MailOf(e)
  BY <1>1, ReleaseTurns DEF Held
<1>6. CASE MarkDelivered(w)
  <2>1. MailOf(c)' = "delivered" /\ TurnOf(c) = "ok"
    BY <1>2, <1>3, <1>6 DEF MarkDelivered, MailOf, TurnAt
  <2>2. \A e \in Events \ {c} : MailOf(e)' = MailOf(e)
    BY <1>5, <1>6 DEF MarkDelivered
  <2>3. Promise!MarkedDelivered(c)
    BY <1>1, <1>2, <1>3, <1>4, <2>1, <2>2 DEF Promise!MarkedDelivered
  <2> QED BY <1>2, <2>3 DEF Promise!OutboxNext, Promise!Progress
<1>7. CASE ScheduleRetry(w)
  <2>1. MailOf(c)' = "queued" /\ TurnOf(c) = "due"
    BY <1>2, <1>3, <1>7 DEF ScheduleRetry, MailOf, Stranded, TurnAt
  <2>2. \A e \in Events \ {c} : MailOf(e)' = MailOf(e)
    BY <1>5, <1>7 DEF ScheduleRetry
  <2> QED BY <1>1, <1>3, <1>4, <2>1, <2>2, Stutters
<1>8. CASE MarkDeadLetter(w)
  <2>1. MailOf(c)' = "dead" /\ TurnOf(c) = "due"
    BY <1>2, <1>3, <1>8 DEF MarkDeadLetter, MailOf, TurnAt
  <2>2. \A e \in Events \ {c} : MailOf(e)' = MailOf(e)
    BY <1>5, <1>8 DEF MarkDeadLetter
  <2>3. sends[c] = MaxAttempts
    BY <1>2, <1>8 DEF MarkDeadLetter, LastAttempt
  <2>4. MailOf(c) = "queued" /\ sends' = sends /\ UNCHANGED TurnOf(c)
    BY <1>1, <1>2, <1>3, <1>4, <2>1
  <2>5. Promise!GivenUp(c)
    BY <1>2, <1>4, <2>1, <2>2, <2>3, <2>4 DEF Promise!GivenUp
  <2> QED BY <1>2, <2>5 DEF Promise!OutboxNext, Promise!Progress
<1> QED BY <1>6, <1>7, <1>8 DEF Mark

LEMMA LossStrands ==
  ASSUME WorkerInv, NEW w \in Workers, MarkFails(w) \/ Crash(w)
  PROVE  Promise!Stranding(Held(w) \ batch'[w]) /\ Held(w) \subseteq Events
<1> USE DEF WorkerInv, TypeOK
<1> DEFINE S == Held(w) \ batch'[w]
<1>1. /\ Finish(w) /\ UNCHANGED <<status, sends>>
      /\ \A v \in Workers : batch'[v] \subseteq batch[v]
      /\ \A v \in Workers \ {w} : batch'[v] = batch[v]
  BY DEF MarkFails, Crash, rowVars, targetVars
<1>2. Held(w) \subseteq Events
  BY DEF Held, InHand
<1>3. \A e \in S : MailOf(e) = "queued"
  BY MailHeld
<1>4. ASSUME NEW e \in S
      PROVE  MailOf(e)' = "stranded" /\ TurnOf(e)' = "due"
  <2>1. status'[e] = "processing"
    BY <1>1 DEF ClaimsExclusive
  <2>2. TurnOf(e)' = "due" /\ \A v \in Workers : e \notin Held(v)'
    BY <1>1, ReleaseTurns
  <2> QED BY <2>1, <2>2 DEF MailOf, Stranded
<1>5. \A e \in Events \ S : MailOf(e)' = MailOf(e) /\ TurnOf(e)' = TurnOf(e)
  BY <1>1, ReleaseTurns
<1> QED BY <1>1, <1>2, <1>3, <1>4, <1>5 DEF Promise!Stranding

LEMMA PromiseStep ==
  WorkerInv /\ [Next]_vars => [Promise!OutboxNext]_(Promise!outboxVars)
<1> SUFFICES ASSUME WorkerInv, [Next]_vars
             PROVE  [Promise!OutboxNext]_(Promise!outboxVars)
  OBVIOUS
<1> USE DEF Promise!OutboxNext
<1>1. ASSUME NEW e \in Events, Publish(e) PROVE Promise!OutboxNext
  BY <1>1, PublishPosts
<1>2. ASSUME NEW w \in Workers, Dispatch(w) PROVE Promise!OutboxNext
  BY <1>2, DispatchProgresses
<1>3. ASSUME NEW w \in Workers, MarkFails(w) \/ Crash(w)
      PROVE  Promise!OutboxNext
  <2>1. Held(w) \ batch'[w] \in SUBSET Events
    BY <1>3, LossStrands
  <2> QED BY <1>3, <2>1, LossStrands
<1>4. CASE UNCHANGED vars
  <2>1. \A w \in Workers : Held(w)' = Held(w)
    BY <1>4 DEF vars, Held
  <2> QED BY <1>4, <2>1, MailFrame, TurnFrame, Stutters DEF vars
<1> QED
  BY <1>1, <1>2, <1>3, <1>4, BackoffStutters, ClaimStutters, BeginStutters,
     MarkRefines
  DEF Next, Work

(* The worker with its table, its crashes and its competitors is an        *)
(* outbox as OutboxPromise, and with it Delivery, describes it.            *)
THEOREM ImplementsPromise == Spec => KeepsOutboxPromise
  BY PromiseInit, PromiseStep, WorkerInvariant, PTL
  DEF Spec, KeepsOutboxPromise, Promise!OutboxSpec

-------------------------------------------------------------------------------
(* What a loss costs, and what is safe without one.                        *)

(* A row that is delivered or given up is never claimed, sent or marked    *)
(* again, whatever the workers that had it lost.                           *)
SettledIsFinal ==
  [][\A e \in Events : Settled(e) =>
       status'[e] = status[e] /\ sends'[e] = sends[e]]_vars

(* Every event the kernel has committed and that is not settled is in      *)
(* somebody's care: the next tick may claim it, its delay runs, or a       *)
(* worker has it.                                                          *)
InCare(e) ==
  \/ e \in Claimable
  \/ status[e] = "failed" /\ e \notin ripe
  \/ \E w \in Workers : e \in Held(w)

CareWithoutLosses ==
  losses = 0 =>
    \A e \in Events : status[e] # "absent" => Settled(e) \/ InCare(e)

StrandedEvents == {e \in Events : Stranded(e)}

(* Each crash or failed update strands one batch at most.                  *)
StrandedBounded ==
  /\ IsFiniteSet(StrandedEvents)
  /\ Cardinality(StrandedEvents) <= losses * BatchSize

BatchesBounded ==
  \A w \in Workers :
    IsFiniteSet(Held(w)) /\ Cardinality(Held(w)) <= BatchSize

PendingIsRipe == \A e \in Events : status[e] = "pending" => e \in ripe

(* processOne ends with a mark of the row in hand, which is `processing`:  *)
(* no worker marks or sends a row that another has settled.                *)
THEOREM SettledForGood == Spec => SettledIsFinal
<1> DEFINE A == \A e \in Events : Settled(e) =>
                  status'[e] = status[e] /\ sends'[e] = sends[e]
<1>1. WorkerInv /\ [Next]_vars => [A]_vars
  <2> SUFFICES ASSUME WorkerInv, Next, NEW e \in Events, Settled(e)
               PROVE  status'[e] = status[e] /\ sends'[e] = sends[e]
    OBVIOUS
  <2> USE DEF WorkerInv, TypeOK
  <2>1. status[e] \in {"delivered", "dead_letter"}
    BY DEF Settled
  <2>2. ASSUME NEW f \in Events, Publish(f) \/ BackoffElapses(f)
        PROVE  status'[e] = status[e] /\ sends'[e] = sends[e]
    BY <2>1, <2>2 DEF Publish, BackoffElapses, targetVars
  <2>3. ASSUME NEW w \in Workers, Claim(w)
        PROVE  status'[e] = status[e] /\ sends'[e] = sends[e]
    BY <2>1, <2>3 DEF Claim, Claimable, targetVars
  <2>4. ASSUME NEW w \in Workers, Begin(w) \/ MarkFails(w) \/ Crash(w)
        PROVE  status'[e] = status[e] /\ sends'[e] = sends[e]
    BY <2>4 DEF Begin, MarkFails, Crash, rowVars, targetVars
  <2>5. ASSUME NEW w \in Workers, step[w] # "poll" PROVE e # current[w]
    BY <2>1, <2>5, InHandIsMine
  <2>6. ASSUME NEW w \in Workers, Dispatch(w)
        PROVE  status'[e] = status[e] /\ sends'[e] = sends[e]
    BY <2>5, <2>6
    DEF Dispatch, Notify, SendAccepted, SendFails, ConfirmSucceeds,
        ConfirmFails, Sent, rowVars
  <2>7. ASSUME NEW w \in Workers, Mark(w)
        PROVE  status'[e] = status[e] /\ sends'[e] = sends[e]
    BY <2>5, <2>7
    DEF Mark, MarkDelivered, ScheduleRetry, MarkDeadLetter, targetVars
  <2> QED
    BY <2>2, <2>3, <2>4, <2>6, <2>7 DEF Next, Work
<1> QED
  BY <1>1, WorkerInvariant, PTL DEF Spec, SettledIsFinal

(* Only a crash or a failed update leaves a row to nobody; it loses one    *)
(* batch, and the others keep theirs.                                      *)
LEMMA OnlyLossesStrand ==
  ASSUME WorkerInv, [Next]_vars
  PROVE  \/ losses' = losses /\ \A e \in Events : Stranded(e)' => Stranded(e)
         \/ /\ losses' = losses + 1 /\ losses \in Nat
            /\ \E w \in Workers :
                 StrandedEvents' \subseteq StrandedEvents \cup Held(w)
<1> USE DEF WorkerInv, TypeOK
<1>1. ASSUME losses' = losses,
             NEW c \in SUBSET Events,
             \A e \in Events \ c : status'[e] = status[e],
             \A e \in c : ~Stranded(e)',
             \A e \in Events \ c : \A w \in Workers :
               e \in Held(w) => e \in Held(w)'
      PROVE  losses' = losses /\ \A e \in Events : Stranded(e)' => Stranded(e)
  BY <1>1 DEF Stranded
<1>2. ASSUME NEW f \in Events, Publish(f)
      PROVE  losses' = losses /\ \A e \in Events : Stranded(e)' => Stranded(e)
  <2>1. {f} \in SUBSET Events /\ \A e \in {f} : ~Stranded(e)'
    BY <1>2 DEF Publish, Stranded
  <2> QED
    BY <1>1, <1>2, <2>1 DEF Publish, Held
<1>3. ASSUME NEW f \in Events, BackoffElapses(f)
      PROVE  losses' = losses /\ \A e \in Events : Stranded(e)' => Stranded(e)
  BY <1>3 DEF BackoffElapses, Stranded, Held
<1>4. ASSUME NEW w \in Workers, Claim(w)
      PROVE  losses' = losses /\ \A e \in Events : Stranded(e)' => Stranded(e)
  <2> PICK claimed \in SUBSET Claimable :
        /\ batch' = [batch EXCEPT ![w] = claimed]
        /\ status' = [e \in Events |->
                        IF e \in claimed THEN "processing" ELSE status[e]]
    BY <1>4 DEF Claim
  <2>1. /\ step[w] = "poll" /\ batch[w] = {} /\ claimed \in SUBSET Events
        /\ UNCHANGED <<current, step, losses>>
    BY <1>4 DEF Claim, Claimable
  <2>2. Held(w)' = claimed /\ \A v \in Workers \ {w} : Held(v)' = Held(v)
    BY <2>1 DEF Held
  <2>3. \A e \in claimed : ~Stranded(e)'
    BY <2>2 DEF Stranded
  <2>4. \A e \in Events \ claimed : \A v \in Workers :
          e \in Held(v) => e \in Held(v)'
    BY <2>1, <2>2 DEF Held
  <2> QED
    BY <1>1, <2>1, <2>3, <2>4
<1>5. ASSUME NEW w \in Workers, Begin(w)
      PROVE  losses' = losses /\ \A e \in Events : Stranded(e)' => Stranded(e)
  <2>1. \A v \in Workers : Held(v)' = Held(v)
    BY <1>5 DEF Begin, Held
  <2> QED
    BY <1>5, <2>1 DEF Begin, rowVars, Stranded
<1>6. ASSUME NEW w \in Workers, Dispatch(w)
      PROVE  losses' = losses /\ \A e \in Events : Stranded(e)' => Stranded(e)
  <2>1. /\ step[w] \in {"send", "confirm"}
        /\ \E next \in {"confirm", "done", "error"} :
             step' = [step EXCEPT ![w] = next]
        /\ UNCHANGED <<status, batch, current, losses>>
    BY <1>6 DEF Dispatch, Notify, SendAccepted, SendFails, ConfirmSucceeds,
                ConfirmFails, Goto, AfterSend, rowVars
  <2>2. \A v \in Workers : Held(v)' = Held(v)
    BY <2>1 DEF Held
  <2> QED
    BY <2>1, <2>2 DEF Stranded
<1>7. ASSUME NEW w \in Workers, Mark(w)
      PROVE  losses' = losses /\ \A e \in Events : Stranded(e)' => Stranded(e)
  <2>1. /\ step[w] # "poll" /\ step' = [step EXCEPT ![w] = "poll"]
        /\ current' = [current EXCEPT ![w] = NoEvent]
        /\ UNCHANGED <<batch, losses>>
    BY <1>7 DEF Mark, MarkDelivered, ScheduleRetry, MarkDeadLetter, Finish,
                Goto
  <2>2. /\ current[w] \in Events
        /\ \A e \in Events \ {current[w]} : status'[e] = status[e]
        /\ status'[current[w]] # "processing"
    BY <1>7, <2>1, InHandIsMine
    DEF Mark, MarkDelivered, ScheduleRetry, MarkDeadLetter
  <2>3. /\ {current[w]} \in SUBSET Events
        /\ \A e \in {current[w]} : ~Stranded(e)'
    BY <2>2 DEF Stranded
  <2>4. \A e \in Events \ {current[w]} : \A v \in Workers :
          e \in Held(v) => e \in Held(v)'
    BY <2>1 DEF Held
  <2> QED
    BY <1>1, <2>1, <2>2, <2>3, <2>4
<1>8. ASSUME NEW w \in Workers, MarkFails(w) \/ Crash(w)
      PROVE  /\ losses' = losses + 1
             /\ StrandedEvents' \subseteq StrandedEvents \cup Held(w)
  <2>1. /\ losses' = losses + 1 /\ status' = status
        /\ step' = [step EXCEPT ![w] = "poll"]
        /\ current' = [current EXCEPT ![w] = NoEvent]
        /\ \A v \in Workers \ {w} : batch'[v] = batch[v]
    BY <1>8 DEF MarkFails, Crash, Finish, Goto, rowVars
  <2>2. \A v \in Workers \ {w} : Held(v)' = Held(v)
    BY <2>1 DEF Held
  <2>3. \A e \in Events : Stranded(e)' => Stranded(e) \/ e \in Held(w)
    BY <2>1, <2>2 DEF Stranded
  <2> QED
    BY <2>1, <2>3 DEF StrandedEvents
<1>9. CASE UNCHANGED vars
  BY <1>9 DEF vars, Stranded, Held
<1>10. losses \in Nat
  BY WorkerAssumption
<1> QED
  BY <1>2, <1>3, <1>4, <1>5, <1>6, <1>7, <1>8, <1>9, <1>10 DEF Next, Work

(* Without a crash or a failed update, no event is forgotten: the safety   *)
(* half of SettledUnlessStranded, without the fairness.                    *)
THEOREM NothingForgottenWithoutLosses == Spec => []CareWithoutLosses
<1> DEFINE NoneStranded == losses = 0 => \A e \in Events : ~Stranded(e)
<1>1. Init => NoneStranded /\ PendingIsRipe
  BY DEF Init, Stranded, PendingIsRipe
<1>2. WorkerInv /\ NoneStranded /\ [Next]_vars => NoneStranded'
  <2> SUFFICES ASSUME WorkerInv, NoneStranded, [Next]_vars, losses' = 0,
                      NEW e \in Events, Stranded(e)'
               PROVE  FALSE
    OBVIOUS
  <2>1. losses' = losses /\ (Stranded(e)' => Stranded(e))
    BY OnlyLossesStrand
  <2> QED
    BY <2>1
<1>3. WorkerInv /\ PendingIsRipe /\ [Next]_vars => PendingIsRipe'
  <2> SUFFICES ASSUME WorkerInv, PendingIsRipe, [Next]_vars,
                      NEW e \in Events, status'[e] = "pending"
               PROVE  e \in ripe'
    BY DEF PendingIsRipe
  <2> USE DEF WorkerInv, TypeOK, PendingIsRipe
  <2>1. ASSUME NEW f \in Events, Publish(f) \/ BackoffElapses(f)
        PROVE  e \in ripe'
    BY <2>1 DEF Publish, BackoffElapses
  <2>2. ASSUME NEW w \in Workers,
               Claim(w) \/ Begin(w) \/ MarkFails(w) \/ Crash(w)
        PROVE  e \in ripe'
    BY <2>2 DEF Claim, Begin, MarkFails, Crash, rowVars
  <2>3. ASSUME NEW w \in Workers, Dispatch(w)
        PROVE  e \in ripe'
    BY <2>3 DEF Dispatch, Notify, SendAccepted, SendFails, ConfirmSucceeds,
                ConfirmFails, rowVars
  <2>4. ASSUME NEW w \in Workers, Mark(w)
        PROVE  e \in ripe'
    BY <2>4 DEF Mark, MarkDelivered, ScheduleRetry, MarkDeadLetter
  <2>5. CASE UNCHANGED vars
    BY <2>5 DEF vars
  <2> QED
    BY <2>1, <2>2, <2>3, <2>4, <2>5 DEF Next, Work
<1>4. WorkerInv /\ NoneStranded /\ PendingIsRipe => CareWithoutLosses
  <2> SUFFICES ASSUME WorkerInv, NoneStranded, PendingIsRipe, losses = 0,
                      NEW e \in Events, status[e] # "absent", ~Settled(e)
               PROVE  InCare(e)
    BY DEF CareWithoutLosses
  <2>1. status[e] \in {"pending", "failed", "processing"}
    BY DEF WorkerInv, TypeOK, Statuses, Settled
  <2>2. status[e] = "processing" => \E w \in Workers : e \in Held(w)
    BY DEF Stranded
  <2> QED
    BY <2>1, <2>2 DEF InCare, Claimable, PendingIsRipe
<1> HIDE DEF NoneStranded
<1> QED
  BY <1>1, <1>2, <1>3, <1>4, WorkerInvariant, PTL DEF Spec

(* A worker never has more than a batch in its care.                       *)
LEMMA NextKeepsBatches ==
  ASSUME IsFiniteSet(Events), WorkerInv, BatchesBounded, [Next]_vars
  PROVE  BatchesBounded'
<1> USE DEF WorkerInv, TypeOK
<1>1. ASSUME \A w \in Workers : Held(w)' \subseteq Held(w)
      PROVE  BatchesBounded'
  <2> SUFFICES ASSUME NEW w \in Workers
               PROVE  IsFiniteSet(Held(w)')
                      /\ Cardinality(Held(w)') <= BatchSize
    BY DEF BatchesBounded
  <2>1. IsFiniteSet(Held(w)) /\ Cardinality(Held(w)) <= BatchSize
    BY DEF BatchesBounded
  <2>2. Held(w)' \in SUBSET Held(w)
    BY <1>1
  <2>3. IsFiniteSet(Held(w)')
        /\ Cardinality(Held(w)') <= Cardinality(Held(w))
    BY <2>1, <2>2, FS_Subset
  <2>4. Cardinality(Held(w)) \in Nat /\ Cardinality(Held(w)') \in Nat
    BY <2>1, <2>3, FS_CardinalityType
  <2> QED
    BY <2>1, <2>3, <2>4, WorkerAssumption
<1>2. ASSUME NEW w \in Workers, Claim(w)
      PROVE  BatchesBounded'
  <2> PICK claimed \in SUBSET Claimable :
        Cardinality(claimed) <= BatchSize
        /\ batch' = [batch EXCEPT ![w] = claimed]
    BY <1>2 DEF Claim
  <2>1. /\ step[w] = "poll" /\ claimed \in SUBSET Events
        /\ UNCHANGED <<current, step>>
    BY <1>2 DEF Claim, Claimable
  <2>2. Held(w)' = claimed /\ \A v \in Workers \ {w} : Held(v)' = Held(v)
    BY <2>1 DEF Held
  <2>3. IsFiniteSet(claimed)
    BY <2>1, FS_Subset
  <2> QED
    BY <2>2, <2>3 DEF BatchesBounded
<1>3. ASSUME NEW w \in Workers, Begin(w)
      PROVE  BatchesBounded'
  <2>1. \A v \in Workers : Held(v)' \subseteq Held(v)
    BY <1>3 DEF Begin, Held
  <2> QED
    BY <1>1, <2>1
<1>4. ASSUME NEW w \in Workers, Dispatch(w)
      PROVE  BatchesBounded'
  <2>1. /\ step[w] \in {"send", "confirm"}
        /\ \A v \in Workers \ {w} : step'[v] = step[v]
        /\ UNCHANGED <<batch, current>>
    BY <1>4 DEF Dispatch, Notify, SendAccepted, SendFails, ConfirmSucceeds,
                ConfirmFails, Goto
  <2>2. \A v \in Workers : Held(v)' \subseteq Held(v)
    BY <2>1 DEF Held
  <2> QED
    BY <1>1, <2>2
<1>5. ASSUME NEW w \in Workers, Mark(w) \/ MarkFails(w) \/ Crash(w)
      PROVE  BatchesBounded'
  <2>1. /\ step' = [step EXCEPT ![w] = "poll"]
        /\ \A v \in Workers \ {w} : current'[v] = current[v]
        /\ \A v \in Workers : batch'[v] \subseteq batch[v]
    BY <1>5 DEF Mark, MarkDelivered, ScheduleRetry, MarkDeadLetter,
                MarkFails, Crash, Finish, Goto
  <2>2. \A v \in Workers : Held(v)' \subseteq Held(v)
    BY <2>1 DEF Held
  <2> QED
    BY <1>1, <2>2
<1>6. CASE UNCHANGED <<batch, current, step>>
  BY <1>1, <1>6 DEF Held
<1> QED
  BY <1>2, <1>3, <1>4, <1>5, <1>6
  DEF Next, Work, Publish, BackoffElapses, vars

(* A crash or a failed update strands the rows its worker had, at most a   *)
(* batch: the rows that nobody will ever claim again are counted by what   *)
(* was lost.                                                               *)
THEOREM LossesBoundStranded ==
  IsFiniteSet(Events) /\ Spec => []StrandedBounded
<1> SUFFICES ASSUME IsFiniteSet(Events) PROVE Spec => []StrandedBounded
  OBVIOUS
<1>1. Init => BatchesBounded /\ StrandedBounded
  <2> SUFFICES ASSUME Init PROVE BatchesBounded /\ StrandedBounded
    OBVIOUS
  <2>1. StrandedEvents = {} /\ \A w \in Workers : Held(w) = {}
    BY DEF Init, StrandedEvents, Stranded, Held
  <2>2. losses * BatchSize = 0
    BY WorkerAssumption DEF Init
  <2> QED
    BY <2>1, <2>2, FS_EmptySet, WorkerAssumption
    DEF BatchesBounded, StrandedBounded
<1>2. WorkerInv /\ BatchesBounded /\ [Next]_vars => BatchesBounded'
  BY NextKeepsBatches
<1>3. WorkerInv /\ BatchesBounded /\ StrandedBounded /\ [Next]_vars
        => StrandedBounded'
  <2> SUFFICES ASSUME WorkerInv, BatchesBounded, StrandedBounded, [Next]_vars
               PROVE  StrandedBounded'
    OBVIOUS
  <2>1. /\ IsFiniteSet(StrandedEvents)
        /\ Cardinality(StrandedEvents) <= losses * BatchSize
        /\ Cardinality(StrandedEvents) \in Nat
    BY FS_CardinalityType DEF StrandedBounded
  <2>2. losses \in Nat /\ BatchSize \in Nat
    BY WorkerAssumption DEF WorkerInv, TypeOK
  <2>3. losses * BatchSize \in Nat
        /\ (losses + 1) * BatchSize = losses * BatchSize + BatchSize
    BY <2>2
  <2>4. CASE losses' = losses
             /\ \A e \in Events : Stranded(e)' => Stranded(e)
    <3>1. StrandedEvents' \in SUBSET StrandedEvents
      BY <2>4 DEF StrandedEvents
    <3>2. /\ IsFiniteSet(StrandedEvents')
          /\ Cardinality(StrandedEvents') <= Cardinality(StrandedEvents)
          /\ Cardinality(StrandedEvents') \in Nat
      BY <2>1, <3>1, FS_Subset, FS_CardinalityType
    <3>3. Cardinality(StrandedEvents') <= losses' * BatchSize
      BY <2>1, <2>3, <2>4, <3>2
    <3> QED
      BY <3>2, <3>3 DEF StrandedBounded
  <2>5. ASSUME losses' = losses + 1, NEW w \in Workers,
               StrandedEvents' \subseteq StrandedEvents \cup Held(w)
        PROVE  StrandedBounded'
    <3> DEFINE both == StrandedEvents \cup Held(w)
    <3>1. IsFiniteSet(Held(w)) /\ Cardinality(Held(w)) <= BatchSize
          /\ Cardinality(Held(w)) \in Nat
      BY FS_CardinalityType DEF BatchesBounded
    <3>2. IsFiniteSet(both) /\ Cardinality(both) =
            Cardinality(StrandedEvents) + Cardinality(Held(w))
            - Cardinality(StrandedEvents \cap Held(w))
      BY <2>1, <3>1, FS_Union
    <3>3. Cardinality(StrandedEvents \cap Held(w)) \in Nat
      BY <2>1, FS_Subset, FS_CardinalityType
    <3>4. StrandedEvents' \in SUBSET both
      BY <2>5
    <3> HIDE DEF both
    <3>5. /\ IsFiniteSet(StrandedEvents')
          /\ Cardinality(StrandedEvents') <= Cardinality(both)
          /\ Cardinality(StrandedEvents') \in Nat
          /\ Cardinality(both) \in Nat
      BY <3>2, <3>4, FS_Subset, FS_CardinalityType
    <3>6. Cardinality(StrandedEvents') <= losses * BatchSize + BatchSize
      BY <2>1, <2>2, <2>3, <3>1, <3>2, <3>3, <3>5
    <3>7. Cardinality(StrandedEvents') <= losses' * BatchSize
      BY <2>3, <2>5, <3>6
    <3> QED
      BY <3>5, <3>7 DEF StrandedBounded
  <2> QED
    BY <2>4, <2>5, OnlyLossesStrand
<1> QED
  BY <1>1, <1>2, <1>3, WorkerInvariant, PTL DEF Spec

===============================================================================
