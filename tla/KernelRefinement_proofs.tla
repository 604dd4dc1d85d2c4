------------------------ MODULE KernelRefinement_proofs ------------------------
(***************************************************************************)
(* The kernel implements TontinePromise, for any number of cycles,         *)
(* transfers, references and overlapping tasks.  Only the two commits      *)
(* change what the promise speaks of; that they do so as it allows follows *)
(* from the inductive invariant of the kernel: the key and the reference   *)
(* an open transaction holds are free, and its entry is still justified.   *)
(***************************************************************************)
EXTENDS KernelRefinement, Kernel_proofs

USE KernelAssumption

(* What the promise sees is a function of the cycles and the ledger.       *)
LEMMA TablesStutter ==
  ASSUME UNCHANGED <<cycles, ledger>>
  PROVE  UNCHANGED Promise!promiseVars
<1>1. \A event : Booked(event)' = Booked(event)
  BY DEF Booked
<1>2. \A c \in Cycles : DebitOf(c)' = DebitOf(c)
  BY DEF DebitOf, Initiations
<1>3. \A c \in Cycles : PhaseOf(c)' = PhaseOf(c)
  BY DEF PhaseOf
<1> QED
  BY <1>1, <1>2, <1>3 DEF Promise!promiseVars

(* The debit of a cycle depends on its initiations only.                   *)
LEMMA DebitFrame ==
  ASSUME NEW c, Initiations(c)' = Initiations(c)
  PROVE  DebitOf(c)' = DebitOf(c)
<1> DEFINE First(S) == CHOOSE e \in S : TRUE
<1>1. DebitOf(c) = IF Initiations(c) = {} THEN 0 ELSE First(Initiations(c)).amount
  BY DEF DebitOf
<1>2. DebitOf(c)'
        = IF Initiations(c)' = {} THEN 0 ELSE First(Initiations(c)').amount
  BY DEF DebitOf
<1> HIDE DEF First
<1> QED
  BY <1>1, <1>2

(* The debit of a cycle is the amount of its only initiation.              *)
LEMMA DebitIs ==
  ASSUME Inductive, NEW c \in Cycles, NEW e \in Initiations(c)
  PROVE  DebitOf(c) = e.amount /\ DebitOf(c) > 0
<1>1. Initiations(c) = {e} /\ Threshold[c] <= e.amount
  BY BackedByInductive DEF PaidOnceAndBacked
<1>2. e.amount \in Nat
  BY DEF Initiations, Inductive, TypeOK, Entries
<1>3. (CHOOSE f \in Initiations(c) : TRUE) = e
  BY <1>1
<1> QED
  BY <1>1, <1>2, <1>3 DEF DebitOf

(* Nothing is booked, paid or disputed at first.                           *)
LEMMA PromiseInit == Init => Promise!Init
<1> SUFFICES ASSUME Init PROVE Promise!Init
  OBVIOUS
<1>1. \A event : Booked(event) = {}
  BY DEF Init, Booked
<1>2. \A c \in Cycles : DebitOf(c) = 0
  BY DEF Init, DebitOf, Initiations
<1>3. \A c \in Cycles : PhaseOf(c) = "collecting"
  BY DEF Init, PhaseOf
<1>4. \A c \in Cycles : cycles[c].collected = 0
  BY DEF Init
<1> QED
  BY <1>1, <1>2, <1>3, <1>4 DEF Promise!Init

-------------------------------------------------------------------------------

(* The COMMIT of a contribution credits or holds a transfer that was       *)
(* neither credited nor held.                                              *)
LEMMA ContributionRefines ==
  ASSUME Inductive, NEW t \in Tasks, CommitContribution(t),
         NEW e, e = entry[t]
  PROVE  Promise!Next
<1>1. pc[t] = "commit" /\ e \in Entries /\ Justified(e)
      /\ e.event \in ContributionEvents
  BY DEF CommitContribution, Inductive, TasksJustified
<1>2. e.id \in TxRefs /\ e.cycle = CycleOf[e.id] /\ e.amount = AmountOf[e.id]
  BY <1>1 DEF Justified
<1>3. ledger' = ledger \cup {e}
  BY DEF CommitContribution, Record
<1>4. \A f \in Credits : f.id # e.id
  <2> SUFFICES ASSUME NEW f \in Credits PROVE f.id # e.id
    OBVIOUS
  <2>1. RowOf(f) \in contributions /\ RowOf(f).ref = f.id
    BY DEF Inductive, BooksAgree, RowOf
  <2>2. \A row \in contributions : row.ref # e.id
    BY <1>1 DEF Inductive, RefsExclusive, Inserted
  <2> QED
    BY <2>1, <2>2
<1>5. e.id \notin Booked("contribution_received")
                    \cup Booked("contribution_quarantined")
  BY <1>4 DEF Booked, Credits, ContributionEvents
<1>6. \A c \in Cycles : DebitOf(c)' = DebitOf(c)
  <2>1. \A c \in Cycles : Initiations(c)' = Initiations(c)
    BY <1>1, <1>3 DEF Initiations, ContributionEvents
  <2> QED
    BY <2>1, DebitFrame
<1>7. \A c \in Cycles : /\ cycles'[c].state = cycles[c].state
                        /\ c # e.cycle
                             => cycles'[c].collected = cycles[c].collected
                        /\ c = e.cycle
                             => cycles'[c].collected
                                  = cycles[c].collected + Collected(e)
  BY <1>1 DEF CommitContribution, Inductive, TypeOK, CycleRows
<1>8. \A c \in Cycles : PhaseOf(c)' = PhaseOf(c)
  BY <1>7 DEF PhaseOf
<1>9. \A event : Booked(event)' =
        IF event = e.event THEN Booked(event) \cup {e.id} ELSE Booked(event)
  BY <1>2, <1>3 DEF Booked
<1>10. CASE e.event = "contribution_received"
  <2>1. \A c \in Cycles :
          cycles'[c].collected =
            [[d \in Cycles |-> cycles[d].collected]
               EXCEPT ![CycleOf[e.id]] = @ + AmountOf[e.id]][c]
    BY <1>2, <1>7, <1>10 DEF Collected
  <2>2. Promise!Credit(e.id)
    BY <1>5, <1>6, <1>8, <1>9, <1>10, <2>1 DEF Promise!Credit
  <2> QED
    BY <1>2, <2>2 DEF Promise!Next
<1>11. CASE e.event = "contribution_quarantined"
  <2>1. \A c \in Cycles : cycles'[c].collected = cycles[c].collected
    BY <1>7, <1>11 DEF Collected, Inductive, TypeOK, CycleRows
  <2>2. Promise!Hold(e.id)
    BY <1>5, <1>6, <1>8, <1>9, <1>11, <2>1 DEF Promise!Hold
  <2> QED
    BY <1>2, <2>2 DEF Promise!Next
<1> QED
  BY <1>1, <1>10, <1>11 DEF ContributionEvents

(* The COMMIT of a payout pays, settles or disputes the cycle, or repeats  *)
(* what was already settled.                                               *)
LEMMA PayoutRefines ==
  ASSUME Inductive, NEW t \in Tasks, CommitPayout(t),
         NEW e, e = entry[t]
  PROVE  [Promise!Next]_(Promise!promiseVars)
<1> DEFINE d == e.cycle
<1>1. pc[t] = "commit" /\ e \in Entries /\ Justified(e)
      /\ e.event \in PayoutEvents
  BY DEF CommitPayout, Inductive, TasksJustified
<1>2. d \in Cycles /\ e.amount \in Nat
  BY <1>1 DEF Entries
<1>3. ledger' = ledger \cup {e}
  BY DEF CommitPayout, Record
<1>4. cycles'[d].state = StateOf(PayoutStateAfter(e.event))
  BY <1>2 DEF CommitPayout, Inductive, TypeOK, CycleRows, UpdatedRow,
              WithPayoutState
<1>5. \A c \in Cycles : cycles'[c].collected = cycles[c].collected
  BY <1>2 DEF CommitPayout, Inductive, TypeOK, CycleRows, UpdatedRow,
              WithPayoutState
<1>6. \A c \in Cycles \ {d} : PhaseOf(c)' = PhaseOf(c)
  BY DEF PhaseOf, CommitPayout, Inductive, TypeOK
<1>7. \A event \in ContributionEvents : Booked(event)' = Booked(event)
  BY <1>1, <1>3 DEF Booked, PayoutEvents, ContributionEvents
<1>8. \A c \in Cycles \ {d} : DebitOf(c)' = DebitOf(c)
  <2>1. \A c \in Cycles \ {d} : Initiations(c)' = Initiations(c)
    BY <1>3 DEF Initiations
  <2> QED
    BY <2>1, DebitFrame
<1>9. cycles[d].state = "closed" => cycles'[d].state = "closed"
  BY <1>2 DEF CommitPayout, TriggerAllows, Inductive, TypeOK
<1>10. cycles[d].state \in {"committed", "payout_triggered", "closed", "disputed"}
  BY <1>2 DEF Inductive, LedgerExplainsCycle, StateOf
<1>11. /\ UNCHANGED [c \in Cycles |-> cycles[c].collected]
       /\ UNCHANGED Booked("contribution_received")
       /\ UNCHANGED Booked("contribution_quarantined")
  BY <1>5, <1>7 DEF ContributionEvents
<1>12. CASE e.event = "payout_initiated"
  <2>1. e.amount \in Threshold[d]..cycles[d].collected
    BY <1>1, <1>2, <1>12 DEF Justified, Inductive, TypeOK, CycleRows
  <2>2. Initiations(d) = {}
    <3> SUFFICES ASSUME NEW f \in Initiations(d) PROVE FALSE
      OBVIOUS
    <3>1. f \in ledger /\ Key(f) = Key(e)
      BY <1>1, <1>12 DEF Initiations, Inductive, LedgerJustified, Justified, Key
    <3>2. \A g \in ledger : Key(g) # Key(e)
      BY <1>1 DEF Inductive, KeysExclusive
    <3> QED
      BY <3>1, <3>2
  <2>3. Initiations(d)' = {e}
    BY <1>3, <1>12, <2>2 DEF Initiations
  <2>4. DebitOf(d) = 0 /\ DebitOf(d)' = e.amount
    BY <2>2, <2>3 DEF DebitOf
  <2>5. PhaseOf(d)' = "paying"
    BY <1>4, <1>12 DEF PhaseOf, StateOf, PayoutStateAfter
  <2>6. PhaseOf(d) \in {"collecting", "disputed"}
    <3>1. cycles[d].state # "closed"
      BY <1>4, <1>9, <1>12 DEF StateOf, PayoutStateAfter
    <3>2. cycles[d].state # "payout_triggered"
      BY <1>2, <2>2 DEF Inductive, LedgerExplainsCycle, Has, Initiations
    <3> QED
      BY <1>10, <3>1, <3>2 DEF PhaseOf
  <2>7. Threshold[d] <= e.amount /\ e.amount <= cycles[d].collected
    BY <1>1, <1>12 DEF Justified
  <2>8. Promise!Pay(d, e.amount)
    BY <1>2, <1>6, <1>8, <1>11, <2>4, <2>5, <2>6, <2>7 DEF Promise!Pay
  <2> QED
    BY <1>2, <2>1, <2>8 DEF Promise!Next
<1>13. ASSUME e.event # "payout_initiated"
       PROVE  UNCHANGED [c \in Cycles |-> DebitOf(c)]
  <2>1. Initiations(d)' = Initiations(d)
    BY <1>3, <1>13 DEF Initiations
  <2> QED
    BY <1>8, <2>1, DebitFrame
<1>14. CASE e.event = "payout_confirmed"
  <2>1. Has("payout_initiated", d)
    BY <1>1, <1>14 DEF Justified
  <2>2. PICK f \in Initiations(d) : TRUE
    BY <2>1 DEF Has, Initiations
  <2>3. DebitOf(d) > 0
    BY <1>2, <2>2, DebitIs
  <2>4. cycles[d].state # "committed"
    BY <1>2, <2>2 DEF Inductive, LedgerExplainsCycle
  <2>5. PhaseOf(d)' = "settled"
    BY <1>4, <1>14 DEF PhaseOf, StateOf, PayoutStateAfter
  <2>6. CASE cycles[d].state = "closed"
    <3>1. PhaseOf(d) = "settled"
      BY <2>6 DEF PhaseOf
    <3>2. UNCHANGED [c \in Cycles |-> PhaseOf(c)]
      BY <1>6, <2>5, <3>1
    <3> QED
      BY <1>11, <1>13, <1>14, <3>2 DEF Promise!promiseVars
  <2>7. CASE cycles[d].state # "closed"
    <3>1. PhaseOf(d) \in {"paying", "disputed"}
      BY <1>10, <2>4, <2>7 DEF PhaseOf
    <3>2. Promise!Settle(d)
      BY <1>2, <1>6, <1>11, <1>13, <1>14, <2>3, <2>5, <3>1 DEF Promise!Settle
    <3> QED
      BY <1>2, <3>2 DEF Promise!Next
  <2> QED
    BY <2>6, <2>7
<1>15. CASE e.event = "payout_failed"
  <2>1. PhaseOf(d)' = "disputed"
    BY <1>4, <1>15 DEF PhaseOf, StateOf, PayoutStateAfter
  <2>2. PhaseOf(d) # "settled"
    BY <1>4, <1>9, <1>10, <1>15 DEF PhaseOf, StateOf, PayoutStateAfter
  <2>3. Promise!Dispute(d)
    BY <1>2, <1>6, <1>11, <1>13, <1>15, <2>1, <2>2 DEF Promise!Dispute
  <2> QED
    BY <1>2, <2>3 DEF Promise!Next
<1> QED
  BY <1>1, <1>12, <1>14, <1>15 DEF PayoutEvents

(* Every step of the kernel is a step of the promise or leaves it alone.   *)
LEMMA StepRefines ==
  Inductive /\ [Next]_vars => [Promise!Next]_(Promise!promiseVars)
<1> SUFFICES ASSUME Inductive, [Next]_vars
             PROVE  [Promise!Next]_(Promise!promiseVars)
  OBVIOUS
<1>1. CASE UNCHANGED <<cycles, ledger>>
  BY <1>1, TablesStutter
<1>2. ASSUME NEW t \in Tasks, CommitContribution(t)
      PROVE  [Promise!Next]_(Promise!promiseVars)
  BY <1>2, ContributionRefines
<1>3. ASSUME NEW t \in Tasks, CommitPayout(t)
      PROVE  [Promise!Next]_(Promise!promiseVars)
  BY <1>3, PayoutRefines
<1> QED
  BY <1>1, <1>2, <1>3
  DEF Next, vars, DueDatePasses, Read, Transact, HandleCallback, EvaluateCycle,
      ConfirmPayout, FailPayout, Decide, AppendEntry, AppendDuplicate,
      InsertContribution, InsertRejected, UpdateRejected, Rollback, Crash

(* The services over their tables, with all the requests in flight, keep   *)
(* the promise made to the members: a transfer taken into account once,    *)
(* one backed payout per cycle, settled for good.                          *)
THEOREM KernelKeepsPromise == Spec => KeepsPromise
  BY PromiseInit, StepRefines, AlwaysInductive, PTL
  DEF Spec, KeepsPromise, Promise!Spec

===============================================================================
