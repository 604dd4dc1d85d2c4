----------------------------- MODULE OutboxPromise -----------------------------
(***************************************************************************)
(* What the outbox promises of each event the kernel commits, without      *)
(* workers, claims or backoff: it is dispatched at most MaxAttempts times, *)
(* one dispatch at a time, and ends delivered after a dispatch that went   *)
(* well or dead after MaxAttempts that did not.  Losing the worker or one  *)
(* of its updates strands the events it holds.                             *)
(*                                                                         *)
(* OutboxWorker implements this module; Delivery builds on it.             *)
(***************************************************************************)
EXTENDS Naturals

CONSTANTS
  Events,      \* outbox events
  MaxAttempts  \* dispatches before dead_letter

VARIABLES
  mail,   \* where each event is
  sends,  \* dispatches of each event
  turn    \* due: to be dispatched; confirm: accepted, to be confirmed to the
          \* kernel; ok: to be marked delivered

outboxVars == <<mail, sends, turn>>

Ends == {"delivered", "dead", "stranded"}

-------------------------------------------------------------------------------

OutboxInit ==
  /\ mail = [e \in Events |-> "absent"]
  /\ sends = [e \in Events |-> 0]
  /\ turn = [e \in Events |-> "due"]

Post(e) ==
  /\ mail[e] = "absent"
  /\ mail' = [mail EXCEPT ![e] = "queued"]
  /\ UNCHANGED <<sends, turn>>

(* A dispatch and what it answers: "due" when it failed.                   *)
Dispatched(e, answer) ==
  /\ mail[e] = "queued" /\ turn[e] = "due"
  /\ sends[e] < MaxAttempts
  /\ sends' = [sends EXCEPT ![e] = @ + 1]
  /\ turn' = [turn EXCEPT ![e] = answer]
  /\ UNCHANGED mail

Confirmed(e, answer) ==
  /\ mail[e] = "queued" /\ turn[e] = "confirm"
  /\ turn' = [turn EXCEPT ![e] = answer]
  /\ UNCHANGED <<mail, sends>>

MarkedDelivered(e) ==
  /\ mail[e] = "queued" /\ turn[e] = "ok"
  /\ mail' = [mail EXCEPT ![e] = "delivered"]
  /\ turn' = [turn EXCEPT ![e] = "due"]
  /\ UNCHANGED sends

GivenUp(e) ==
  /\ mail[e] = "queued" /\ turn[e] = "due"
  /\ sends[e] = MaxAttempts
  /\ mail' = [mail EXCEPT ![e] = "dead"]
  /\ UNCHANGED <<sends, turn>>

(* The events of a lost worker, or of a failed update.                     *)
Stranding(S) ==
  /\ \A e \in S : mail[e] = "queued"
  /\ mail' = [e \in Events |-> IF e \in S THEN "stranded" ELSE mail[e]]
  /\ turn' = [e \in Events |-> IF e \in S THEN "due" ELSE turn[e]]
  /\ UNCHANGED sends

-------------------------------------------------------------------------------

Progress(e) ==
  \/ \E answer \in {"due", "confirm", "ok"} : Dispatched(e, answer)
  \/ \E answer \in {"due", "ok"} : Confirmed(e, answer)
  \/ MarkedDelivered(e)
  \/ GivenUp(e)

OutboxNext ==
  \/ \E e \in Events : Post(e) \/ Progress(e)
  \/ \E S \in SUBSET Events : Stranding(S)

OutboxSpec == OutboxInit /\ [][OutboxNext]_outboxVars

===============================================================================
