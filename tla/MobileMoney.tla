------------------------------ MODULE MobileMoney ------------------------------
(***************************************************************************)
(* Sending a payout: the providers of the outbox worker and the operator   *)
(* behind them.  The provider of a payout is                               *)
(*   mock     `MockProvider`: moves nothing, to be confirmed at once;      *)
(*   live     `LiveHTTPProvider`: an aggregator, played by the simulator;  *)
(*   orange_money, moov_money, wave   packages that talk to the operator   *)
(*            itself and which no registry holds yet: the direct ones.     *)
(* The simulator remembers the orders in memory, by idempotency key, fixes *)
(* the outcome of an order when it first receives it and then calls back   *)
(* once.  A direct operator remembers for good; it answers 409 to a key it *)
(* knows, and calls back at an address that is not a route of the gateway: *)
(* nothing comes of it.                                                    *)
(***************************************************************************)
EXTENDS OutboxPromise

CONSTANTS
  Payouts,     \* events that order a payout
  MaxRestarts  \* bound: restarts of the simulator

ASSUME MobileMoneyAssumption == Payouts \subseteq Events /\ MaxRestarts \in Nat

VARIABLES
  provider,    \* provider of each payout, "none" before it is ordered
  book,        \* outcome the operator has on record for each payout
  executions,  \* history: times the operator moved the money of each payout
  calls,       \* callbacks the simulator has still to make
  restarts     \* restarts so far

operatorVars == <<book, executions, calls, restarts>>

Outcomes == {"success", "failed"}

Providers == {"mock", "live", "orange_money", "moov_money", "wave"}

(* A callback about a payout or a transfer, the n-th of its kind.          *)
Callback(about, status, n) == [about |-> about, status |-> status, n |-> n]

-------------------------------------------------------------------------------

OperatorInit ==
  /\ provider = [p \in Payouts |-> "none"]
  /\ book = [p \in Payouts |-> "none"]
  /\ executions = [p \in Payouts |-> 0]
  /\ calls = {}
  /\ restarts = 0

(* Mutant: an order is recorded anew whenever it is received.              *)
NeverKnown(p) == FALSE

Known(p) == book[p] # "none"

FirstDelivery(p, status) ==
  /\ ~Known(p)
  /\ book' = [book EXCEPT ![p] = status]
  /\ executions' = [executions EXCEPT ![p] = @ + IF status = "success" THEN 1 ELSE 0]
  /\ calls' = IF provider[p] = "live"
                THEN calls \cup {Callback(p, status, restarts)} ELSE calls
  /\ UNCHANGED restarts

Redelivery(p) == Known(p) /\ UNCHANGED operatorVars

(* The operator receives an order.                                         *)
Receives(p) ==
  Redelivery(p) \/ \E status \in Outcomes : FirstDelivery(p, status)

-------------------------------------------------------------------------------
(* SendPayout.  Every failure, a timeout included, is an error to the      *)
(* worker, whatever the operator did.                                      *)

SendMock(p) ==
  /\ provider[p] = "mock"
  /\ \E answer \in {"confirm", "due"} : Dispatched(p, answer)
  /\ UNCHANGED operatorVars

(* Unsupported provider, no configuration, operator out of reach, order    *)
(* refused.                                                                *)
OrderLost(p) ==
  /\ provider[p] # "mock"
  /\ Dispatched(p, "due")
  /\ UNCHANGED operatorVars

SendLive(p) ==
  /\ provider[p] = "live"
  /\ Receives(p)
  /\ \E answer \in {"ok", "due"} : Dispatched(p, answer)

(* A known key, or an order the operator has not finished or refuses with  *)
(* status FAILED, is accepted; a finished one is to be confirmed at once.  *)
DirectAnswers(known, status) ==
  IF ~known /\ status = "success" THEN {"ok", "confirm", "due"} ELSE {"ok", "due"}

SendDirect(p) ==
  /\ Receives(p)
  /\ \E answer \in DirectAnswers(Known(p), book'[p]) : Dispatched(p, answer)

SendOrange(p) == provider[p] = "orange_money" /\ SendDirect(p)

SendMoov(p) == provider[p] = "moov_money" /\ SendDirect(p)

(* Wave says 422 of a key it knows, and of an order it cannot process: the *)
(* worker takes both for accepted.                                         *)
SendWave(p) ==
  /\ provider[p] = "wave"
  /\ \/ SendDirect(p)
     \/ ~Known(p) /\ Dispatched(p, "ok") /\ UNCHANGED operatorVars

SendPayout(p) ==
  SendMock(p) \/ OrderLost(p) \/ SendLive(p) \/ SendOrange(p) \/ SendMoov(p)
  \/ SendWave(p)

(* The simulator stops: its records, and the callbacks it was about to     *)
(* make, were in memory.                                                   *)
SimulatorRestarts ==
  /\ restarts < MaxRestarts
  /\ restarts' = restarts + 1
  /\ book' = [p \in Payouts |-> IF provider[p] = "live" THEN "none" ELSE book[p]]
  /\ calls' = {}
  /\ UNCHANGED <<executions, outboxVars>>

===============================================================================
