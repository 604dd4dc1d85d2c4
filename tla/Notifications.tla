----------------------------- MODULE Notifications -----------------------------
(***************************************************************************)
(* `notification.OutboxDispatcher`, the dispatcher meant to replace the    *)
(* stub of the outbox worker: it builds a message from an event and sends  *)
(* it by WhatsApp, or else by SMS.  The channels are external: they refuse *)
(* a message without a recipient, may fail, and may fail after the message *)
(* has left.                                                               *)
(***************************************************************************)
EXTENDS OutboxPromise

CONSTANTS
  Notices  \* events for notification-svc

ASSUME NotificationAssumption == Notices \subseteq Events

VARIABLES
  channels,  \* channels configured, fixed
  topic,     \* event type of each notice
  inbox      \* messages that have reached somebody about each notice

noticeVars == <<topic, inbox>>

(* Event types of the kernel by what the dispatcher can do with them: no   *)
(* message, a recipient it refuses to do without, none in the payload, one *)
(* in the payload.                                                         *)
Skipped == {"wallet.bound"}
Unbuildable == {"contribution.quarantined"}
Unaddressed == {"payout.confirmed", "payout.failed", "pro_rata.dispatched"}
Addressed == {"contribution.received"}

Topics == Skipped \cup Unbuildable \cup Unaddressed \cup Addressed

-------------------------------------------------------------------------------

NoticesInit ==
  /\ channels \in SUBSET {"whatsapp", "sms"}
  /\ topic = [n \in Notices |-> "none"]
  /\ inbox = [n \in Notices |-> 0]

PostNotice(n, type) ==
  /\ Post(n)
  /\ topic' = [topic EXCEPT ![n] = type]
  /\ UNCHANGED inbox

Reaches(n, copies) ==
  /\ inbox' = [inbox EXCEPT ![n] = @ + copies]
  /\ UNCHANGED topic

(* What a channel does with a message: it delivers it, or delivers it and  *)
(* appears to fail, or fails.                                              *)
Attempts(n) ==
  {[copies |-> 0, answer |-> "due"]} \cup
  IF topic[n] \in Addressed
    THEN {[copies |-> 1, answer |-> "ok"], [copies |-> 1, answer |-> "due"]}
    ELSE {}

(* Copies left behind by a WhatsApp that was tried and failed.             *)
Leftovers(n) ==
  IF "whatsapp" \in channels
    THEN {try.copies : try \in {a \in Attempts(n) : a.answer = "due"}} ELSE {0}

Sendable(n) == topic[n] \in Unaddressed \cup Addressed

SkipNotice(n) ==
  /\ topic[n] \in Skipped
  /\ Dispatched(n, "ok")
  /\ UNCHANGED noticeVars

BuildFails(n) ==
  /\ topic[n] \in Unbuildable
  /\ Dispatched(n, "due")
  /\ UNCHANGED noticeVars

SendWhatsApp(n) ==
  /\ Sendable(n) /\ "whatsapp" \in channels
  /\ \E try \in Attempts(n) :
       /\ try.answer = "ok"
       /\ Dispatched(n, "ok")
       /\ Reaches(n, try.copies)

(* Mutant: an SMS that fails is only logged.                               *)
SMSAnswerIgnored(try) == "ok"

SMSAnswer(try) == try.answer

SendSMS(n) ==
  /\ Sendable(n) /\ "sms" \in channels
  /\ \E c \in Leftovers(n), try \in Attempts(n) :
       /\ Dispatched(n, SMSAnswer(try))
       /\ Reaches(n, c + try.copies)

(* Without SMS a message that WhatsApp did not take is logged, and that    *)
(* counts as sent.                                                         *)
LogOnly(n) ==
  /\ Sendable(n) /\ "sms" \notin channels
  /\ Dispatched(n, "ok")
  /\ \E c \in Leftovers(n) : Reaches(n, c)

SendNotice(n) ==
  SkipNotice(n) \/ BuildFails(n) \/ SendWhatsApp(n) \/ SendSMS(n) \/ LogOnly(n)

===============================================================================
