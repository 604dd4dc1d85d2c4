------------------------------ MODULE MCDelivery ------------------------------
(***************************************************************************)
(* Delivery for TLC.                                                       *)
(***************************************************************************)
EXTENDS Delivery

CONSTANTS p1

(* Every transfer is for the cycle of p1.                                  *)
CycleOfTransfers == [t \in Transfers |-> p1]

===============================================================================
