---------------------------- MODULE Kernel_proofs ----------------------------
(***************************************************************************)
(* Theorems about the kernel, for any number of cycles, transfers,         *)
(* operator references and overlapping tasks.                              *)
(*                                                                         *)
(* The safety properties of Kernel are not inductive: they speak of what   *)
(* is committed, and what is committed depends on what the open            *)
(* transactions hold.  Inductive adds it: every entry a task carries was   *)
(* justified when it was decided and stays so, and the open transactions   *)
(* exclude each other on the two UNIQUE keys.                              *)
(***************************************************************************)
EXTENDS Kernel, NaturalFacts, TLAPS

(* Why an entry may be in the ledger, now and for ever.                    *)
Justified(e) ==
  /\ e.event \in ContributionEvents =>
       /\ e.id \in TxRefs
       /\ e.cycle = CycleOf[e.id]
       /\ e.amount = AmountOf[e.id]
  /\ e.event = "payout_initiated" =>
       /\ e.id = e.cycle
       /\ Threshold[e.cycle] <= e.amount
       /\ e.amount <= cycles[e.cycle].collected
  /\ e.event = "payout_confirmed" => Has("payout_initiated", e.cycle)

TasksJustified ==
  \A t \in Tasks :
    /\ pc[t] # "idle" => entry[t] \in Entries /\ Justified(entry[t])
    /\ pc[t] = "insert" => entry[t].event \in ContributionEvents

LedgerJustified == \A e \in ledger : Justified(e)

(* The UNIQUE idempotency key, over committed rows and open transactions.  *)
KeysExclusive ==
  /\ \A e, f \in ledger : Key(e) = Key(f) => e = f
  /\ \A t \in Tasks : pc[t] \in {"insert", "commit"} =>
       /\ \A e \in ledger : Key(e) # Key(entry[t])
       /\ \A u \in InFlight(t) : Key(entry[u]) # Key(entry[t])

Inserted(t) == pc[t] = "commit" /\ entry[t].event \in ContributionEvents

(* The UNIQUE provider_tx_ref, over committed rows and open transactions.  *)
RefsExclusive ==
  \A t \in Tasks : Inserted(t) =>
    /\ \A row \in contributions : row.ref # entry[t].id
    /\ \A u \in Tasks \ {t} : Inserted(u) => entry[u].id # entry[t].id

(* The inductive invariant: the safety properties, and what the open       *)
(* transactions hold.  Two tasks may carry the same key or the same        *)
(* transfer before their INSERT, never after it.                           *)
Inductive ==
  /\ TypeOK
  /\ TasksJustified
  /\ LedgerJustified
  /\ KeysExclusive
  /\ RefsExclusive
  /\ BooksAgree
  /\ LedgerExplainsCycle
  /\ OutboxMirrorsLedger

-------------------------------------------------------------------------------

USE KernelAssumption

(* A task without a request carries nothing that could be booked.          *)
LEMMA NoEntryIsNoEntry == NoEntry \notin Entries
  BY DEF NoEntry, Entries, Events, ContributionEvents, PayoutEvents

(* A justification is never taken back: the ledger only grows, and so does *)
(* what a cycle has collected.                                             *)
LEMMA JustifiedStable ==
  ASSUME TypeOK, TypeOK', ledger \subseteq ledger',
         \A c \in Cycles : cycles[c].collected <= cycles'[c].collected,
         NEW e \in Entries, Justified(e)
  PROVE  Justified(e)'
<1>1. e.cycle \in Cycles /\ e.amount \in Nat
  BY DEF Entries
<1>2. Has("payout_initiated", e.cycle) => Has("payout_initiated", e.cycle)'
  BY DEF Has
<1>3. cycles[e.cycle].collected \in Nat /\ cycles'[e.cycle].collected \in Nat
  BY <1>1 DEF TypeOK, CycleRows
<1>4. e.amount <= cycles[e.cycle].collected
        => e.amount <= cycles'[e.cycle].collected
  BY <1>1, <1>3
<1> QED
  BY <1>2, <1>4 DEF Justified

-------------------------------------------------------------------------------
(* Types.                                                                  *)

(* The tables start empty and the cycles committed.                        *)
LEMMA InitTypeOK == Init => TypeOK
  BY DEF Init, TypeOK, CycleRows, CycleStates, PayoutStates

(* A task that has read carries the entry it decided on.                   *)
LEMMA DecideTypeOK ==
  ASSUME TypeOK, NEW t \in Tasks, NEW e \in Entries, Decide(t, e)
  PROVE  TypeOK'
  BY DEF TypeOK, Decide

(* A task that ends a request is idle and carries nothing.                 *)
LEMMA LeaveTypeOK ==
  ASSUME TypeOK, NEW t \in Tasks, Leave(t)
  PROVE  /\ pc' \in [Tasks -> {"idle", "begin", "insert", "commit"}]
         /\ entry' \in [Tasks -> Entries \cup {NoEntry}]
  BY DEF TypeOK, Leave

(* What each read decides on is an entry, justified by what was read.      *)
LEMMA ReadDecides ==
  ASSUME TypeOK, LedgerExplainsCycle, NEW t \in Tasks, Read(t)
  PROVE  \E e \in Entries : Justified(e) /\ Decide(t, e)
<1>1. ASSUME NEW r \in TxRefs, HandleCallback(t, r)
      PROVE  \E e \in Entries : Justified(e) /\ Decide(t, e)
  <2>1. PICK event \in ContributionEvents :
          Decide(t, [event |-> event, cycle |-> CycleOf[r], id |-> r,
                     amount |-> AmountOf[r]])
    BY <1>1 DEF HandleCallback
  <2> DEFINE e == [event |-> event, cycle |-> CycleOf[r], id |-> r,
                   amount |-> AmountOf[r]]
  <2>2. e \in Entries
    BY DEF Entries, Events, Ids
  <2>3. Justified(e)
    BY DEF Justified, ContributionEvents
  <2> QED
    BY <2>1, <2>2, <2>3
<1>2. ASSUME NEW c \in Cycles, EvaluateCycle(t, c)
      PROVE  \E e \in Entries : Justified(e) /\ Decide(t, e)
  <2> DEFINE e == [event |-> "payout_initiated", cycle |-> c, id |-> c,
                   amount |-> cycles[c].collected]
  <2>1. cycles[c].collected \in Nat /\ Threshold[c] <= cycles[c].collected
    BY <1>2 DEF EvaluateCycle, Eligible, TypeOK, CycleRows
  <2>2. e \in Entries
    BY <2>1 DEF Entries, Events, PayoutEvents, Ids
  <2>3. Justified(e)
    BY <2>1 DEF Justified, ContributionEvents
  <2> QED
    BY <1>2, <2>2, <2>3 DEF EvaluateCycle
<1>3. ASSUME NEW x \in OpRefs, ConfirmPayout(t, x)
      PROVE  \E e \in Entries : Justified(e) /\ Decide(t, e)
  <2> DEFINE e == [event |-> "payout_confirmed", cycle |-> PayoutOf[x],
                   id |-> x, amount |-> 0]
  <2>1. Has("payout_initiated", PayoutOf[x])
    BY <1>3 DEF ConfirmPayout, MayConfirm, LedgerExplainsCycle, StateOf
  <2>2. e \in Entries
    BY DEF Entries, Events, PayoutEvents, Ids
  <2>3. Justified(e)
    BY <2>1 DEF Justified, ContributionEvents
  <2> QED
    BY <1>3, <2>2, <2>3 DEF ConfirmPayout
<1>4. ASSUME NEW x \in OpRefs, FailPayout(t, x)
      PROVE  \E e \in Entries : Justified(e) /\ Decide(t, e)
  <2> DEFINE e == [event |-> "payout_failed", cycle |-> PayoutOf[x],
                   id |-> x, amount |-> 0]
  <2>1. e \in Entries /\ Justified(e)
    BY DEF Entries, Events, PayoutEvents, Ids, Justified, ContributionEvents
  <2> QED
    BY <1>4, <2>1 DEF FailPayout
<1> QED
  BY <1>1, <1>2, <1>3, <1>4 DEF Read

-------------------------------------------------------------------------------
(* Steps that leave the tables alone.                                      *)

(* Conjuncts about tables only, in a step that leaves the tables alone.    *)
LEMMA TablesUnchanged ==
  ASSUME Inductive, UNCHANGED <<cycles, contributions, ledger, outbox>>
  PROVE  /\ LedgerJustified'
         /\ (\A e, f \in ledger : Key(e) = Key(f) => e = f)'
         /\ BooksAgree'
         /\ LedgerExplainsCycle'
         /\ OutboxMirrorsLedger'
         /\ \A e : Justified(e) => Justified(e)'
<1>1. \A e : Justified(e)' <=> Justified(e)
  BY DEF Justified, Has
<1>2. BooksAgree'
  BY DEF Inductive, BooksAgree, Credits
<1>3. LedgerExplainsCycle'
  BY DEF Inductive, LedgerExplainsCycle, Initiations, Has
<1> QED
  BY <1>1, <1>2, <1>3
  DEF Inductive, LedgerJustified, KeysExclusive, OutboxMirrorsLedger

(* The end of the reads: nothing is held yet, and what will be booked is   *)
(* justified by what was read.                                             *)
LEMMA DecideKeepsInductive ==
  ASSUME Inductive, NEW t \in Tasks, NEW e \in Entries, Justified(e),
         Decide(t, e)
  PROVE  Inductive'
<1>1. TypeOK'
  BY DecideTypeOK DEF Inductive
<1>2. pc[t] = "idle" /\ pc'[t] = "begin" /\ entry'[t] = e
  BY DEF Decide, Inductive, TypeOK
<1>3. \A u \in Tasks \ {t} : pc'[u] = pc[u] /\ entry'[u] = entry[u]
  BY DEF Decide, Inductive, TypeOK
<1>4. UNCHANGED <<cycles, contributions, ledger, outbox>>
  BY DEF Decide
<1>5. TasksJustified'
  BY <1>2, <1>3, <1>4, TablesUnchanged DEF Inductive, TasksJustified
<1>6. KeysExclusive'
  BY <1>2, <1>3, <1>4 DEF Inductive, KeysExclusive, InFlight
<1>7. RefsExclusive'
  BY <1>2, <1>3, <1>4 DEF Inductive, RefsExclusive, Inserted
<1> QED
  BY <1>1, <1>4, <1>5, <1>6, <1>7, TablesUnchanged DEF Inductive

(* A rollback or a crash.                                                  *)
LEMMA LeaveKeepsInductive ==
  ASSUME Inductive, TypeOK', NEW t \in Tasks, Leave(t),
         UNCHANGED <<cycles, contributions, ledger, outbox>>
  PROVE  Inductive'
<1>1. pc'[t] = "idle"
  BY DEF Leave, Inductive, TypeOK
<1>2. \A u \in Tasks \ {t} : pc'[u] = pc[u] /\ entry'[u] = entry[u]
  BY DEF Leave, Inductive, TypeOK
<1>3. TasksJustified'
  BY <1>1, <1>2, TablesUnchanged DEF Inductive, TasksJustified
<1>4. KeysExclusive'
  BY <1>1, <1>2 DEF Inductive, KeysExclusive, InFlight
<1>5. RefsExclusive'
  BY <1>1, <1>2 DEF Inductive, RefsExclusive, Inserted
<1> QED
  BY <1>3, <1>4, <1>5, TablesUnchanged DEF Inductive

(* A refused key, row or transition: nothing was written.                  *)
LEMMA RollbackKeepsInductive ==
  ASSUME Inductive, NEW t \in Tasks, Rollback(t)
  PROVE  Inductive'
<1>1. TypeOK'
  BY LeaveTypeOK DEF Inductive, Rollback, TypeOK
<1> QED
  BY <1>1, LeaveKeepsInductive DEF Rollback

(* A request lost before its COMMIT: nothing was written.                  *)
LEMMA CrashKeepsInductive ==
  ASSUME Inductive, NEW t \in Tasks, Crash(t)
  PROVE  Inductive'
<1>1. crashes' \in 0..MaxCrashes
  BY DEF Inductive, TypeOK, Crash
<1>2. TypeOK'
  BY <1>1, LeaveTypeOK DEF Inductive, Crash, TypeOK
<1> QED
  BY <1>2, LeaveKeepsInductive DEF Crash

(* The INSERT of a ledger entry: its key is held from now on.              *)
LEMMA AppendKeepsInductive ==
  ASSUME Inductive, NEW t \in Tasks, AppendEntry(t)
  PROVE  Inductive'
<1>1. TypeOK'
  BY DEF Inductive, TypeOK, AppendEntry
<1>2. /\ pc[t] = "begin"
      /\ pc'[t] = "insert" => entry[t].event \in ContributionEvents
      /\ pc'[t] = "commit" => entry[t].event \notin ContributionEvents
      /\ pc'[t] \in {"insert", "commit"}
  BY DEF Inductive, TypeOK, AppendEntry
<1>3. \A u \in Tasks \ {t} : pc'[u] = pc[u]
  BY DEF Inductive, TypeOK, AppendEntry
<1>4. UNCHANGED <<cycles, contributions, ledger, outbox, entry>>
  BY DEF AppendEntry
<1>5. TasksJustified'
  BY <1>2, <1>3, <1>4, TablesUnchanged DEF Inductive, TasksJustified
<1>6. KeysExclusive'
  <2>1. \A e \in ledger : Key(e) # Key(entry[t])
    BY DEF AppendEntry, Keys
  <2>2. \A u \in InFlight(t) : Key(entry[u]) # Key(entry[t])
    BY DEF AppendEntry
  <2> QED
    BY <1>2, <1>3, <1>4, <2>1, <2>2 DEF Inductive, KeysExclusive, InFlight
<1>7. RefsExclusive'
  BY <1>2, <1>3, <1>4 DEF Inductive, RefsExclusive, Inserted
<1> QED
  BY <1>1, <1>4, <1>5, <1>6, <1>7, TablesUnchanged DEF Inductive

(* The INSERT of a contribution: its reference is held from now on.        *)
LEMMA InsertKeepsInductive ==
  ASSUME Inductive, NEW t \in Tasks, InsertContribution(t)
  PROVE  Inductive'
<1>1. TypeOK'
  BY DEF Inductive, TypeOK, InsertContribution
<1>2. pc[t] = "insert" /\ pc'[t] = "commit"
  BY DEF Inductive, TypeOK, InsertContribution
<1>3. \A u \in Tasks \ {t} : pc'[u] = pc[u]
  BY DEF Inductive, TypeOK, InsertContribution
<1>4. UNCHANGED <<cycles, contributions, ledger, outbox, entry>>
  BY DEF InsertContribution
<1>5. TasksJustified'
  BY <1>2, <1>3, <1>4, TablesUnchanged DEF Inductive, TasksJustified
<1>6. KeysExclusive'
  BY <1>2, <1>3, <1>4 DEF Inductive, KeysExclusive, InFlight
<1>7. RefsExclusive'
  <2>1. \A row \in contributions : row.ref # entry[t].id
    BY DEF InsertContribution
  <2>2. \A u \in Tasks \ {t} : Inserted(u) => entry[u].id # entry[t].id
    BY DEF InsertContribution, InFlight, Inserted
  <2> QED
    BY <1>2, <1>3, <1>4, <2>1, <2>2 DEF Inductive, RefsExclusive, Inserted
<1> QED
  BY <1>1, <1>4, <1>5, <1>6, <1>7, TablesUnchanged DEF Inductive

-------------------------------------------------------------------------------
(* Commits.                                                                *)

(* What both commits do to the ledger, the outbox and the open             *)
(* transactions.                                                           *)
Commits(t) ==
  /\ pc[t] = "commit"
  /\ ledger' = ledger \cup {entry[t]}
  /\ outbox' = outbox \cup {Key(entry[t])}
  /\ Leave(t)
  /\ UNCHANGED <<due, crashes>>

(* What the COMMIT of any operation does to the ledger and its keys.       *)
LEMMA CommitsKeeps ==
  ASSUME Inductive, NEW t \in Tasks, Commits(t), TypeOK',
         \A c \in Cycles : cycles[c].collected <= cycles'[c].collected
  PROVE  /\ entry[t] \in Entries
         /\ Justified(entry[t])
         /\ TasksJustified'
         /\ LedgerJustified'
         /\ KeysExclusive'
         /\ OutboxMirrorsLedger'
<1>1. pc'[t] = "idle"
  BY DEF Commits, Leave, Inductive, TypeOK
<1>2. \A u \in Tasks \ {t} : pc'[u] = pc[u] /\ entry'[u] = entry[u]
  BY DEF Commits, Leave, Inductive, TypeOK
<1>3. entry[t] \in Entries /\ Justified(entry[t])
  BY DEF Commits, Inductive, TasksJustified
<1>4. \A e \in Entries : Justified(e) => Justified(e)'
  BY JustifiedStable DEF Commits, Inductive
<1>5. TasksJustified'
  BY <1>1, <1>2, <1>4 DEF Inductive, TasksJustified
<1>6. LedgerJustified'
  BY <1>3, <1>4 DEF Inductive, LedgerJustified, Commits, TypeOK
<1>7. KeysExclusive'
  <2>1. \A e \in ledger : Key(e) # Key(entry[t])
    BY DEF Inductive, KeysExclusive, Commits
  <2>2. (\A e, f \in ledger : Key(e) = Key(f) => e = f)'
    <3> SUFFICES ASSUME NEW e \in ledger', NEW f \in ledger', Key(e) = Key(f)
                 PROVE  e = f
      BY DEF Key
    <3>1. CASE e \in ledger /\ f \in ledger
      BY <3>1 DEF Inductive, KeysExclusive
    <3>2. CASE e = entry[t] \/ f = entry[t]
      BY <3>2, <2>1 DEF Commits
    <3> QED
      BY <3>1, <3>2 DEF Commits
  <2>3. ASSUME NEW u \in Tasks, pc'[u] \in {"insert", "commit"}
        PROVE  /\ \A e \in ledger' : Key(e) # Key(entry'[u])
               /\ \A v \in InFlight(u)' : Key(entry'[v]) # Key(entry'[u])
    <3>1. u # t /\ pc[u] \in {"insert", "commit"} /\ entry'[u] = entry[u]
      BY <1>1, <1>2, <2>3
    <3>2. t \in InFlight(u)
      BY <3>1 DEF InFlight, Commits
    <3>3. Key(entry[t]) # Key(entry[u])
      BY <3>1, <3>2 DEF Inductive, KeysExclusive
    <3>4. \A e \in ledger : Key(e) # Key(entry[u])
      BY <3>1 DEF Inductive, KeysExclusive
    <3>5. \A v \in InFlight(u)' : v \in InFlight(u) /\ entry'[v] = entry[v]
      BY <1>1, <1>2 DEF InFlight
    <3>6. \A v \in InFlight(u) : Key(entry[v]) # Key(entry[u])
      BY <3>1 DEF Inductive, KeysExclusive
    <3> QED
      BY <3>1, <3>3, <3>4, <3>5, <3>6 DEF Commits
  <2> QED
    BY <2>2, <2>3 DEF KeysExclusive, Key
<1>8. OutboxMirrorsLedger'
  BY DEF Inductive, OutboxMirrorsLedger, Commits, Keys
<1> QED
  BY <1>3, <1>5, <1>6, <1>7, <1>8

(* The COMMIT of a contribution, reconciled or quarantined.                *)
LEMMA ContributionKeepsInductive ==
  ASSUME Inductive, NEW t \in Tasks, CommitContribution(t),
         NEW e, e = entry[t]
  PROVE  Inductive'
<1>1. pc[t] = "commit" /\ e \in Entries /\ Justified(e)
      /\ e.event \in ContributionEvents
  BY DEF CommitContribution, Inductive, TasksJustified
<1>2. e.id \in TxRefs /\ e.cycle \in Cycles /\ e.amount \in Nat /\ Collected(e) \in Nat
  BY <1>1 DEF Justified, Entries, Collected
<1>3. \A c \in Cycles :
        /\ cycles'[c].collected \in Nat
        /\ cycles[c].collected <= cycles'[c].collected
        /\ cycles'[c].state = cycles[c].state
        /\ cycles'[c].payout = cycles[c].payout
  BY <1>2 DEF CommitContribution, Inductive, TypeOK, CycleRows
<1>4. RowOf(e) \in Rows /\ RowOf(e).ref = e.id
  BY <1>2 DEF RowOf, Rows, Entries
<1>5. cycles' \in [Cycles -> CycleRows]
  <2> DEFINE row == [cycles[e.cycle] EXCEPT !.collected = @ + Collected(e)]
  <2>1. cycles \in [Cycles -> CycleRows] /\ row \in CycleRows
    <3>1. cycles \in [Cycles -> CycleRows]
      BY DEF Inductive, TypeOK
    <3>2. cycles[e.cycle] \in CycleRows
      BY <1>2, <3>1
    <3>3. row \in CycleRows
      BY <1>2, <3>2 DEF CycleRows
    <3> QED
      BY <3>1, <3>3
  <2>2. cycles' = [cycles EXCEPT ![e.cycle] = row]
    BY DEF CommitContribution
  <2> QED
    BY <1>2, <2>1, <2>2
<1>6. Key(e) \in Events \X Ids
  BY <1>1 DEF Key, Entries
<1>7. TypeOK'
  BY <1>1, <1>4, <1>5, <1>6, LeaveTypeOK
  DEF CommitContribution, Record, Inductive, TypeOK
<1>8. Commits(t)
  BY DEF CommitContribution, Record, Commits
<1>9. /\ TasksJustified' /\ LedgerJustified'
      /\ KeysExclusive' /\ OutboxMirrorsLedger'
  BY <1>3, <1>7, <1>8, CommitsKeeps
<1>10. contributions' = contributions \cup {RowOf(e)}
  BY DEF CommitContribution
<1>11. Credits' = Credits \cup {e}
  BY <1>1 DEF Credits, CommitContribution, Record
<1>12. \A row \in contributions : row.ref # e.id
  BY <1>1 DEF Inductive, RefsExclusive, Inserted
<1>13. RefsExclusive'
  <2>1. pc'[t] = "idle"
    BY DEF CommitContribution, Leave, Inductive, TypeOK
  <2>2. \A u \in Tasks \ {t} : pc'[u] = pc[u] /\ entry'[u] = entry[u]
    BY DEF CommitContribution, Leave, Inductive, TypeOK
  <2>3. \A u \in Tasks \ {t} : Inserted(u) => entry[u].id # e.id
    BY <1>1 DEF Inductive, RefsExclusive, Inserted
  <2> QED
    BY <1>4, <1>10, <2>1, <2>2, <2>3 DEF Inductive, RefsExclusive, Inserted
<1>14. BooksAgree'
  <2>1. \A f \in Credits : f.id # e.id
    <3> SUFFICES ASSUME NEW f \in Credits
                 PROVE  f.id # e.id
      OBVIOUS
    <3>1. RowOf(f) \in contributions
      BY DEF Inductive, BooksAgree
    <3>2. RowOf(f).ref = f.id
      BY DEF RowOf
    <3> QED
      BY <1>12, <3>1, <3>2
  <2>2. \A f, g \in Credits' : f.id = g.id => f = g
    BY <1>11, <2>1 DEF Inductive, BooksAgree
  <2>3. contributions' = {RowOf(f) : f \in Credits'}
    BY <1>10, <1>11 DEF Inductive, BooksAgree
  <2> QED
    BY <2>2, <2>3 DEF BooksAgree, RowOf
<1>15. LedgerExplainsCycle'
  <2>1. \A c \in Cycles : Initiations(c)' = Initiations(c)
    BY <1>1 DEF Initiations, CommitContribution, Record, ContributionEvents
  <2>2. \A c \in Cycles : \A event : Has(event, c) => Has(event, c)'
    BY DEF Has, CommitContribution, Record
  <2> QED
    BY <1>3, <2>1, <2>2 DEF Inductive, LedgerExplainsCycle
<1> QED
  BY <1>7, <1>9, <1>13, <1>14, <1>15 DEF Inductive

(* The COMMIT of a payout initiated, confirmed or failed.                  *)
LEMMA PayoutKeepsInductive ==
  ASSUME Inductive, NEW t \in Tasks, CommitPayout(t),
         NEW e, e = entry[t]
  PROVE  Inductive'
<1> DEFINE p == PayoutStateAfter(e.event)
<1>1. pc[t] = "commit" /\ e \in Entries /\ Justified(e)
      /\ e.event \in PayoutEvents
  BY DEF CommitPayout, Inductive, TasksJustified
<1>2. e.cycle \in Cycles /\ e.event \notin ContributionEvents
  BY <1>1 DEF Entries, PayoutEvents, ContributionEvents
<1>3. /\ cycles'[e.cycle].state = StateOf(p)
      /\ cycles'[e.cycle].payout = p
      /\ cycles'[e.cycle].collected = cycles[e.cycle].collected
  BY <1>2 DEF CommitPayout, Inductive, TypeOK, CycleRows, UpdatedRow,
              WithPayoutState
<1>4. \A c \in Cycles \ {e.cycle} : cycles'[c] = cycles[c]
  BY DEF CommitPayout, Inductive, TypeOK
<1>5. p \in PayoutStates /\ StateOf(p) \in CycleStates
  BY <1>1 DEF PayoutEvents, PayoutStateAfter, PayoutStates, StateOf, CycleStates
<1>6. cycles' \in [Cycles -> CycleRows]
  <2>1. UpdatedRow(e) \in CycleRows
    BY <1>2, <1>5 DEF UpdatedRow, WithPayoutState, Inductive, TypeOK, CycleRows
  <2> QED
    BY <2>1, <1>2 DEF CommitPayout, Inductive, TypeOK
<1>7. Key(e) \in Events \X Ids
  BY <1>1 DEF Key, Entries
<1>8. TypeOK'
  BY <1>1, <1>6, <1>7, LeaveTypeOK DEF CommitPayout, Record, Inductive, TypeOK
<1>9. \A c \in Cycles : cycles[c].collected <= cycles'[c].collected
  BY <1>3, <1>4 DEF Inductive, TypeOK, CycleRows
<1>10. Commits(t)
  BY DEF CommitPayout, Record, Commits
<1>11. /\ TasksJustified' /\ LedgerJustified'
       /\ KeysExclusive' /\ OutboxMirrorsLedger'
  BY <1>8, <1>9, <1>10, CommitsKeeps
<1>12. Credits' = Credits /\ contributions' = contributions
  BY <1>2 DEF Credits, CommitPayout, Record
<1>13. BooksAgree'
  BY <1>12 DEF Inductive, BooksAgree, RowOf
<1>14. RefsExclusive'
  <2>1. pc'[t] = "idle"
    BY DEF CommitPayout, Leave, Inductive, TypeOK
  <2>2. \A u \in Tasks \ {t} : pc'[u] = pc[u] /\ entry'[u] = entry[u]
    BY DEF CommitPayout, Leave, Inductive, TypeOK
  <2> QED
    BY <1>12, <2>1, <2>2 DEF Inductive, RefsExclusive, Inserted
<1>15. LedgerExplainsCycle'
  <2>1. \A c \in Cycles : \A event : Has(event, c) => Has(event, c)'
    BY DEF Has, CommitPayout, Record
  <2>2. \A c \in Cycles \ {e.cycle} : Initiations(c)' = Initiations(c)
    BY DEF Initiations, CommitPayout, Record
  <2>3. Has(e.event, e.cycle)'
    BY DEF Has, CommitPayout, Record
  <2>4. ASSUME NEW c \in Cycles \ {e.cycle}
        PROVE  /\ cycles'[c].state = StateOf(cycles'[c].payout)
               /\ cycles'[c].state = "committed" => Initiations(c)' = {}
               /\ cycles'[c].state \in {"payout_triggered", "closed"}
                    => Has("payout_initiated", c)'
               /\ cycles'[c].state = "closed" => Has("payout_confirmed", c)'
               /\ cycles'[c].state = "disputed" => Has("payout_failed", c)'
    BY <1>4, <2>1, <2>2 DEF Inductive, LedgerExplainsCycle
  <2>5. CASE e.event = "payout_initiated"
    <3>1. cycles'[e.cycle].state = "payout_triggered"
      BY <1>3, <2>5 DEF PayoutStateAfter, StateOf
    <3> QED
      BY <1>3, <2>3, <2>4, <2>5, <3>1 DEF LedgerExplainsCycle
  <2>6. CASE e.event = "payout_confirmed"
    <3>1. cycles'[e.cycle].state = "closed"
      BY <1>3, <2>6 DEF PayoutStateAfter, StateOf
    <3>2. Has("payout_initiated", e.cycle)'
      BY <1>1, <1>2, <2>1, <2>6 DEF Justified
    <3> QED
      BY <1>3, <2>3, <2>4, <2>6, <3>1, <3>2 DEF LedgerExplainsCycle
  <2>7. CASE e.event = "payout_failed"
    <3>1. cycles'[e.cycle].state = "disputed"
      BY <1>3, <2>7 DEF PayoutStateAfter, StateOf
    <3> QED
      BY <1>3, <2>3, <2>4, <2>7, <3>1 DEF LedgerExplainsCycle
  <2> QED
    BY <1>1, <2>5, <2>6, <2>7 DEF PayoutEvents
<1> QED
  BY <1>8, <1>11, <1>13, <1>14, <1>15 DEF Inductive

-------------------------------------------------------------------------------
(* The invariant, and what it gives.                                       *)

(* The invariant holds initially.                                          *)
LEMMA InitInductive == Init => Inductive
<1> SUFFICES ASSUME Init PROVE Inductive
  OBVIOUS
<1>1. TypeOK
  BY InitTypeOK
<1>2. TasksJustified /\ LedgerJustified /\ KeysExclusive /\ RefsExclusive
  BY DEF Init, TasksJustified, LedgerJustified, KeysExclusive, RefsExclusive,
         Inserted
<1>3. BooksAgree /\ OutboxMirrorsLedger
  BY DEF Init, BooksAgree, Credits, OutboxMirrorsLedger, Keys
<1>4. LedgerExplainsCycle
  BY DEF Init, LedgerExplainsCycle, Initiations, Has, StateOf
<1> QED
  BY <1>1, <1>2, <1>3, <1>4 DEF Inductive

(* Every step keeps the invariant.                                         *)
LEMMA NextKeepsInductive == Inductive /\ [Next]_vars => Inductive'
<1> SUFFICES ASSUME Inductive, [Next]_vars PROVE Inductive'
  OBVIOUS
<1>1. ASSUME NEW c \in Cycles, DueDatePasses(c) PROVE Inductive'
  <2>1. /\ UNCHANGED <<cycles, contributions, ledger, outbox>>
        /\ UNCHANGED <<pc, entry, crashes>>
        /\ due' \subseteq Cycles
    BY <1>1 DEF DueDatePasses, Inductive, TypeOK
  <2>2. TypeOK'
    BY <2>1 DEF Inductive, TypeOK
  <2> QED
    BY <2>1, <2>2, TablesUnchanged
    DEF Inductive, TasksJustified, KeysExclusive, InFlight, RefsExclusive,
        Inserted
<1>2. ASSUME NEW t \in Tasks, Read(t) PROVE Inductive'
  BY <1>2, ReadDecides, DecideKeepsInductive DEF Inductive
<1>3. ASSUME NEW t \in Tasks, Transact(t) PROVE Inductive'
  <2>1. CASE AppendEntry(t)
    BY <2>1, AppendKeepsInductive
  <2>2. CASE AppendDuplicate(t) \/ InsertRejected(t) \/ UpdateRejected(t)
    BY <2>2, RollbackKeepsInductive
    DEF AppendDuplicate, InsertRejected, UpdateRejected
  <2>3. CASE InsertContribution(t)
    BY <2>3, InsertKeepsInductive
  <2>4. CASE CommitContribution(t)
    BY <2>4, ContributionKeepsInductive
  <2>5. CASE CommitPayout(t)
    BY <2>5, PayoutKeepsInductive
  <2> QED
    BY <1>3, <2>1, <2>2, <2>3, <2>4, <2>5 DEF Transact
<1>4. ASSUME NEW t \in Tasks, Crash(t) PROVE Inductive'
  BY <1>4, CrashKeepsInductive
<1>5. CASE UNCHANGED vars
  <2>1. /\ UNCHANGED <<cycles, contributions, ledger, outbox>>
        /\ UNCHANGED <<due, pc, entry, crashes>>
    BY <1>5 DEF vars
  <2>2. TypeOK'
    BY <2>1 DEF Inductive, TypeOK
  <2> QED
    BY <2>1, <2>2, TablesUnchanged
    DEF Inductive, TasksJustified, KeysExclusive, InFlight, RefsExclusive,
        Inserted
<1> QED
  BY <1>1, <1>2, <1>3, <1>4, <1>5 DEF Next

(* The inductive invariant holds in every reachable state.                 *)
THEOREM AlwaysInductive == Spec => []Inductive
<1> QED
  BY InitInductive, NextKeepsInductive, PTL DEF Spec

(* Every row, entry and task keeps its type.                               *)
THEOREM TypeCorrect == Spec => []TypeOK
<1>1. Inductive => TypeOK
  BY DEF Inductive
<1> QED
  BY <1>1, AlwaysInductive, PTL

(* handle_callback: however many deliveries of a callback race, a transfer *)
(* is booked at most once, and the table of contributions is exactly what  *)
(* the ledger credits.                                                     *)
THEOREM TransfersBookedOnce == Spec => []BooksAgree
<1>1. Inductive => BooksAgree
  BY DEF Inductive
<1> QED
  BY <1>1, AlwaysInductive, PTL

(* The transactional outbox: an event is queued exactly when its ledger    *)
(* entry is committed.                                                     *)
THEOREM OutboxIsExact == Spec => []OutboxMirrorsLedger
<1>1. Inductive => OutboxMirrorsLedger
  BY DEF Inductive
<1> QED
  BY <1>1, AlwaysInductive, PTL

(* The row of a cycle is always explained by the ledger; in particular no  *)
(* cycle is closed that was not paid and confirmed.                        *)
THEOREM CyclesExplained == Spec => []LedgerExplainsCycle
<1>1. Inductive => LedgerExplainsCycle
  BY DEF Inductive
<1> QED
  BY <1>1, AlwaysInductive, PTL

(* A debit in the ledger is justified, and the key of its entry is the     *)
(* cycle.                                                                  *)
LEMMA BackedByInductive == Inductive => PaidOnceAndBacked
<1> SUFFICES ASSUME Inductive, NEW c \in Cycles, NEW e \in Initiations(c)
             PROVE  /\ Initiations(c) = {e}
                    /\ Threshold[c] <= e.amount
                    /\ e.amount <= cycles[c].collected
  BY DEF PaidOnceAndBacked
<1>1. e \in ledger /\ e.event = "payout_initiated" /\ e.cycle = c
  BY DEF Initiations
<1>2. Justified(e)
  BY <1>1 DEF Inductive, LedgerJustified
<1>3. ASSUME NEW f \in Initiations(c) PROVE f = e
  <2>1. f \in ledger /\ f.event = "payout_initiated" /\ f.cycle = c
    BY <1>3 DEF Initiations
  <2>2. Justified(f)
    BY <2>1 DEF Inductive, LedgerJustified
  <2>3. Key(e) = Key(f)
    BY <1>1, <1>2, <2>1, <2>2 DEF Justified, Key
  <2> QED
    BY <1>1, <2>1, <2>3 DEF Inductive, KeysExclusive
<1> QED
  BY <1>1, <1>2, <1>3 DEF Justified

(* Scheduler ticks that overlap initiate at most one payout per cycle, for *)
(* an amount between the threshold and what the cycle has collected.       *)
THEOREM PayoutsSafe == Spec => []PaidOnceAndBacked
<1> QED
  BY BackedByInductive, AlwaysInductive, PTL

(* Doc of fail_payout: a confirmed payout is never overwritten, whatever   *)
(* was decided before the confirmation committed.                          *)
THEOREM ClosedForGood == Spec => ClosedIsFinal
<1> DEFINE A == \A c \in Cycles : cycles[c].state = "closed" =>
                  cycles'[c].state = "closed" /\ cycles'[c].payout = "confirmed"
<1>1. Inductive /\ Inductive' /\ [Next]_vars => [A]_vars
  <2> SUFFICES ASSUME Inductive, Inductive', Next,
                      NEW c \in Cycles, cycles[c].state = "closed"
               PROVE  cycles'[c].state = "closed"
                      /\ cycles'[c].payout = "confirmed"
    OBVIOUS
  <2>1. cycles'[c].state = "closed"
    <3>1. CASE UNCHANGED cycles
      BY <3>1
    <3>2. ASSUME NEW t \in Tasks, CommitContribution(t)
          PROVE  cycles'[c].state = "closed"
      BY <3>2 DEF CommitContribution, Inductive, TypeOK, CycleRows
    <3>3. ASSUME NEW t \in Tasks, CommitPayout(t)
          PROVE  cycles'[c].state = "closed"
      BY <3>3 DEF CommitPayout, TriggerAllows, Inductive, TypeOK
    <3> QED
      BY <3>1, <3>2, <3>3
      DEF Next, DueDatePasses, Read, Transact, HandleCallback, EvaluateCycle,
          ConfirmPayout, FailPayout, Decide, AppendEntry, AppendDuplicate,
          InsertContribution, InsertRejected, UpdateRejected, Rollback, Crash
  <2>2. cycles'[c].payout = "confirmed"
    <3>1. cycles'[c].payout \in PayoutStates
      BY DEF Inductive, TypeOK, CycleRows
    <3>2. cycles'[c].state = StateOf(cycles'[c].payout)
      BY DEF Inductive, LedgerExplainsCycle
    <3> QED
      BY <2>1, <3>1, <3>2 DEF StateOf, PayoutStates
  <2> QED
    BY <2>1, <2>2
<1> QED
  BY <1>1, AlwaysInductive, PTL DEF Spec, ClosedIsFinal

-------------------------------------------------------------------------------
(* The sum.                                                                *)

(* The transfers reconciled for a cycle.                                   *)
Reconciled(c) ==
  {row.ref : row \in {r \in contributions :
     r.cycle = c /\ r.status = "reconciled"}}

SumKept ==
  \A c \in Cycles :
    /\ IsFiniteSet(Reconciled(c))
    /\ cycles[c].collected = SumOver(AmountOf, Reconciled(c))

LEMMA InitSumKept == Init => SumKept
<1> SUFFICES ASSUME Init PROVE SumKept
  OBVIOUS
<1>1. ASSUME NEW c \in Cycles
      PROVE  cycles[c].collected = 0 /\ Reconciled(c) = {}
  BY DEF Init, Reconciled
<1> QED BY <1>1, SumEmpty, FS_EmptySet DEF SumKept

(* A contribution that commits is of a transfer without a row.  Reconciled *)
(* it adds its amount to both sides, quarantined it adds to neither.       *)
LEMMA ContributionKeepsSum ==
  ASSUME Inductive, SumKept, NEW t \in Tasks, CommitContribution(t)
  PROVE  SumKept'
<1> DEFINE e == entry[t]
<1>1. pc[t] = "commit" /\ e \in Entries /\ Justified(e)
      /\ e.event \in ContributionEvents
  BY DEF CommitContribution, Inductive, TasksJustified
<1>2. e.id \in TxRefs /\ e.cycle \in Cycles /\ e.amount = AmountOf[e.id]
  BY <1>1 DEF Justified
<1>3. \A row \in contributions : row.ref # e.id
  BY <1>1 DEF Inductive, RefsExclusive, Inserted
<1>4. contributions' = contributions \cup {RowOf(e)}
  BY DEF CommitContribution
<1>5. \A c \in Cycles : cycles'[c].collected =
        cycles[c].collected + IF c = e.cycle THEN Collected(e) ELSE 0
  BY <1>1, <1>2 DEF CommitContribution, Inductive, TypeOK, CycleRows, Collected
<1>6. /\ RowOf(e).ref = e.id /\ RowOf(e).cycle = e.cycle
      /\ RowOf(e).status = "reconciled" <=> e.event = "contribution_received"
  BY DEF RowOf
<1>7. ASSUME NEW c \in Cycles
      PROVE  /\ IsFiniteSet(Reconciled(c)')
             /\ cycles'[c].collected = SumOver(AmountOf, Reconciled(c)')
  <2>1. Reconciled(c) \in SUBSET TxRefs /\ e.id \notin Reconciled(c)
    BY <1>3 DEF Reconciled, Inductive, TypeOK, Rows
  <2>2. /\ IsFiniteSet(Reconciled(c))
        /\ cycles[c].collected = SumOver(AmountOf, Reconciled(c))
    BY DEF SumKept
  <2>3. CASE c = e.cycle /\ e.event = "contribution_received"
    <3>1. Reconciled(c)' = Reconciled(c) \cup {e.id}
      BY <1>4, <1>6, <2>3 DEF Reconciled
    <3>2. SumOver(AmountOf, Reconciled(c)')
            = SumOver(AmountOf, Reconciled(c)) + AmountOf[e.id]
      BY <1>2, <2>1, <2>2, <3>1, SumAdded
    <3>3. IsFiniteSet(Reconciled(c)')
      <4>1. IsFiniteSet(Reconciled(c) \cup {e.id})
        BY <2>2, FS_AddElement
      <4> QED BY <4>1, <3>1, Zenon
    <3> QED BY <1>2, <1>5, <2>2, <2>3, <3>2, <3>3 DEF Collected
  <2>4. CASE ~ (c = e.cycle /\ e.event = "contribution_received")
    <3>1. Reconciled(c)' = Reconciled(c)
      BY <1>4, <1>6, <2>4 DEF Reconciled
    <3>2. cycles'[c].collected = cycles[c].collected
      BY <1>5, <2>4 DEF Collected, Inductive, TypeOK, CycleRows
    <3> QED BY <2>2, <3>1, <3>2
  <2> QED BY <2>3, <2>4
<1> QED BY <1>7 DEF SumKept

LEMMA NextKeepsSum == Inductive /\ SumKept /\ [Next]_vars => SumKept'
<1> SUFFICES ASSUME Inductive, SumKept, [Next]_vars PROVE SumKept'
  OBVIOUS
<1>1. CASE UNCHANGED <<cycles, contributions>>
  BY <1>1 DEF SumKept, Reconciled
<1>2. ASSUME NEW t \in Tasks, CommitContribution(t) PROVE SumKept'
  BY <1>2, ContributionKeepsSum
<1>3. ASSUME NEW t \in Tasks, CommitPayout(t) PROVE SumKept'
  <2>1. \A c \in Cycles : cycles'[c].collected = cycles[c].collected
    BY <1>3
    DEF CommitPayout, UpdatedRow, WithPayoutState, Inductive, TypeOK, CycleRows
  <2>2. contributions' = contributions
    BY <1>3 DEF CommitPayout
  <2>3. \A c \in Cycles : Reconciled(c)' = Reconciled(c)
    BY <2>2 DEF Reconciled
  <2> QED BY <2>1, <2>2, <2>3 DEF SumKept
<1> QED
  BY <1>1, <1>2, <1>3
  DEF Next, vars, DueDatePasses, Read, Transact, HandleCallback, EvaluateCycle,
      ConfirmPayout, FailPayout, Decide, AppendEntry, AppendDuplicate,
      InsertContribution, InsertRejected, UpdateRejected, Rollback, Crash

(* handle_callback: no increment of collected_amount_minor is lost and     *)
(* none is left behind by a transaction that is rolled back, whatever      *)
(* number of transfers a cycle receives.                                   *)
THEOREM CollectedIsExact == Spec => []CollectedIsSumOfReconciled
<1>1. SumKept => CollectedIsSumOfReconciled
  BY DEF SumKept, CollectedIsSumOfReconciled, SumOver, Reconciled
<1> QED
  BY <1>1, InitSumKept, NextKeepsSum, AlwaysInductive, PTL DEF Spec

-------------------------------------------------------------------------------
(* What an initiation can still meet.                                      *)

(* process_eligible_cycle: the initiation of a payout is refused, by the   *)
(* key or by the trigger, only once its cycle is no longer committed: a    *)
(* refused tick never leaves behind a cycle that still waits to be paid.   *)
InitiationNotRefused ==
  [][\A t \in Tasks :
       /\ entry[t].event = "payout_initiated"
       /\ AppendDuplicate(t) \/ UpdateRejected(t)
       => cycles[entry[t].cycle].state # "committed"]_vars

(* The key of a payout initiation is taken by an initiation of its cycle   *)
(* only, and a committed cycle has none.                                   *)
LEMMA CommittedKeyIsFree ==
  ASSUME Inductive, NEW c \in Cycles, cycles[c].state = "committed"
  PROVE  <<"payout_initiated", c>> \notin Keys(ledger)
<1> SUFFICES ASSUME NEW e \in ledger, Key(e) = <<"payout_initiated", c>>
             PROVE  FALSE
  BY DEF Keys
<1>1. e.event = "payout_initiated" /\ e.id = c
  BY DEF Key
<1>2. Justified(e)
  BY DEF Inductive, LedgerJustified
<1>3. e \in Initiations(c)
  BY <1>1, <1>2 DEF Justified, Initiations
<1> QED
  BY <1>3 DEF Inductive, LedgerExplainsCycle

(* process_eligible_cycle: an initiation is refused only on a cycle that   *)
(* is no longer committed.  What is left to liveness is that a tick comes. *)
THEOREM RefusedOnlyWhenMoved == Spec => InitiationNotRefused
<1> DEFINE A == \A t \in Tasks :
                  /\ entry[t].event = "payout_initiated"
                  /\ AppendDuplicate(t) \/ UpdateRejected(t)
                  => cycles[entry[t].cycle].state # "committed"
<1>1. Inductive => A
  <2> SUFFICES ASSUME Inductive, NEW t \in Tasks,
                      entry[t].event = "payout_initiated",
                      AppendDuplicate(t) \/ UpdateRejected(t),
                      cycles[entry[t].cycle].state = "committed"
               PROVE  FALSE
    OBVIOUS
  <2>1. pc[t] # "idle"
    BY DEF AppendDuplicate, UpdateRejected
  <2>2. entry[t] \in Entries /\ Justified(entry[t])
    BY <2>1 DEF Inductive, TasksJustified
  <2>3. entry[t].cycle \in Cycles /\ entry[t].id = entry[t].cycle
    BY <2>2 DEF Entries, Justified
  <2>4. Key(entry[t]) \notin Keys(ledger)
    BY <2>3, CommittedKeyIsFree DEF Key
  <2>5. TriggerAllows(cycles[entry[t].cycle], UpdatedRow(entry[t]))
    BY DEF TriggerAllows
  <2> QED
    BY <2>4, <2>5 DEF AppendDuplicate, UpdateRejected
<1>2. Inductive /\ [Next]_vars => [A]_vars
  BY <1>1
<1> QED
  BY <1>2, AlwaysInductive, PTL DEF Spec, InitiationNotRefused

-------------------------------------------------------------------------------
(* One request per cycle: what the refuted statements need.                *)

(* What a lock on the row of a cycle, held from the reads of a request to  *)
(* the end of its transaction, would give.  The code takes none: the       *)
(* theorems below have it as a hypothesis, and the runs that refute their  *)
(* conclusions show that it cannot be dropped.                             *)
OnePerCycle ==
  \A t, u \in Tasks :
    /\ pc[t] # "idle" /\ pc[u] # "idle"
    /\ entry[t].cycle = entry[u].cycle
    => t = u

(* What the reads found still holds of the row.                            *)
Current(e) ==
  /\ e.event \in ContributionEvents => cycles[e.cycle].state = "committed"
  /\ e.event = "payout_initiated" =>
       /\ cycles[e.cycle].state = "committed"
       /\ cycles[e.cycle].collected = e.amount
  /\ e.event = "payout_confirmed" => MayConfirm(cycles[e.cycle])

TasksCurrent == \A t \in Tasks : pc[t] # "idle" => Current(entry[t])

(* The debit of a cycle is all that it collected, to the end.              *)
PaidInFull ==
  \A c \in Cycles : \A e \in Initiations(c) : e.amount = cycles[c].collected

(* What a request decides on is current when it decides.                   *)
LEMMA ReadIsCurrent ==
  ASSUME TypeOK, NEW t \in Tasks, Read(t)
  PROVE  \E e : Current(e) /\ Decide(t, e)
<1>1. ASSUME NEW r \in TxRefs, HandleCallback(t, r)
      PROVE  \E e : Current(e) /\ Decide(t, e)
  <2>1. PICK event \in ContributionEvents :
          Decide(t, [event |-> event, cycle |-> CycleOf[r], id |-> r,
                     amount |-> AmountOf[r]])
    BY <1>1 DEF HandleCallback
  <2> QED
    BY <1>1, <2>1 DEF HandleCallback, Current, ContributionEvents
<1>2. ASSUME NEW c \in Cycles, EvaluateCycle(t, c)
      PROVE  \E e : Current(e) /\ Decide(t, e)
  BY <1>2 DEF EvaluateCycle, Eligible, Current, ContributionEvents
<1>3. ASSUME NEW x \in OpRefs, ConfirmPayout(t, x)
      PROVE  \E e : Current(e) /\ Decide(t, e)
  BY <1>3 DEF ConfirmPayout, Current, ContributionEvents
<1>4. ASSUME NEW x \in OpRefs, FailPayout(t, x)
      PROVE  \E e : Current(e) /\ Decide(t, e)
  BY <1>4 DEF FailPayout, Current, ContributionEvents
<1> QED
  BY <1>1, <1>2, <1>3, <1>4 DEF Read

(* A step writes the row of the cycle of the request that commits, if any. *)
LEMMA OnlyCommitsWriteRows ==
  ASSUME Inductive, [Next]_vars
  PROVE  \/ UNCHANGED <<cycles, contributions, ledger>>
         \/ \E t \in Tasks : CommitContribution(t) \/ CommitPayout(t)
  BY DEF vars, Next, DueDatePasses, Read, Transact, HandleCallback,
         EvaluateCycle, ConfirmPayout, FailPayout, Decide, AppendEntry,
         AppendDuplicate, InsertContribution, InsertRejected, UpdateRejected,
         Rollback, Crash

(* With one request per cycle, what a request found stays true until it    *)
(* ends: nobody else writes the row.                                       *)
LEMMA NextKeepsCurrent ==
  ASSUME Inductive, OnePerCycle, TasksCurrent, [Next]_vars
  PROVE  TasksCurrent'
<1>1. ASSUME NEW t \in Tasks, CommitContribution(t) \/ CommitPayout(t)
      PROVE  TasksCurrent'
  <2> SUFFICES ASSUME NEW u \in Tasks, pc'[u] # "idle"
               PROVE  Current(entry[u])'
    BY DEF TasksCurrent
  <2>1. pc[t] = "commit" /\ Leave(t)
    BY <1>1 DEF CommitContribution, CommitPayout
  <2>2. u # t /\ pc[u] # "idle" /\ entry'[u] = entry[u]
    BY <2>1 DEF Leave, Inductive, TypeOK
  <2>3. entry[u].cycle # entry[t].cycle
    BY <2>1, <2>2 DEF OnePerCycle
  <2>4. entry[u].cycle \in Cycles /\ entry[t].cycle \in Cycles
    BY <2>1, <2>2 DEF Inductive, TasksJustified, Entries
  <2>5. cycles'[entry[u].cycle] = cycles[entry[u].cycle]
    BY <1>1, <2>3, <2>4
    DEF CommitContribution, CommitPayout, Inductive, TypeOK
  <2>6. Current(entry[u])
    BY <2>2 DEF TasksCurrent
  <2> QED
    BY <2>2, <2>5, <2>6 DEF Current
<1>2. ASSUME NEW t \in Tasks, Read(t)
      PROVE  TasksCurrent'
  <2>1. PICK e : Current(e) /\ Decide(t, e)
    BY <1>2, ReadIsCurrent DEF Inductive
  <2>2. cycles' = cycles /\ entry'[t] = e
    BY <2>1 DEF Decide, Inductive, TypeOK
  <2>3. \A u \in Tasks \ {t} : pc'[u] = pc[u] /\ entry'[u] = entry[u]
    BY <2>1 DEF Decide, Inductive, TypeOK
  <2> QED
    BY <2>1, <2>2, <2>3 DEF TasksCurrent, Current
<1>3. ASSUME UNCHANGED cycles,
             \A u \in Tasks : pc'[u] # "idle" =>
               pc[u] # "idle" /\ entry'[u] = entry[u]
      PROVE  TasksCurrent'
  BY <1>3 DEF TasksCurrent, Current
<1>4. CASE UNCHANGED vars
  BY <1>3, <1>4 DEF vars
<1>5. ASSUME NEW c \in Cycles, DueDatePasses(c)
      PROVE  TasksCurrent'
  BY <1>3, <1>5 DEF DueDatePasses
<1>6. ASSUME NEW t \in Tasks, AppendEntry(t) \/ InsertContribution(t)
      PROVE  TasksCurrent'
  BY <1>3, <1>6 DEF AppendEntry, InsertContribution, Inductive, TypeOK
<1>7. ASSUME NEW t \in Tasks, UNCHANGED cycles, Leave(t)
      PROVE  TasksCurrent'
  BY <1>3, <1>7 DEF Leave, Inductive, TypeOK
<1>8. ASSUME NEW t \in Tasks,
             \/ AppendDuplicate(t) \/ InsertRejected(t)
             \/ UpdateRejected(t) \/ Crash(t)
      PROVE  TasksCurrent'
  BY <1>7, <1>8
  DEF AppendDuplicate, InsertRejected, UpdateRejected, Rollback, Crash
<1> QED
  BY <1>1, <1>2, <1>4, <1>5, <1>6, <1>8 DEF Next, Transact

(* With one request per cycle, no open request holds a stale decision.     *)
LEMMA AlwaysCurrent == Spec /\ []OnePerCycle => []TasksCurrent
<1>1. Init => TasksCurrent
  BY DEF Init, TasksCurrent
<1>2. Inductive /\ OnePerCycle /\ TasksCurrent /\ [Next]_vars => TasksCurrent'
  BY NextKeepsCurrent
<1> QED
  BY <1>1, <1>2, AlwaysInductive, PTL DEF Spec

(* Migration 007: were the requests of a cycle one at a time, a callback   *)
(* would materialise a contribution only on a committed cycle.  The run    *)
(* KernelLateContribution shows the overlap that breaks it.                *)
THEOREM OneRequestPerCycleKeepsContributions ==
  Spec /\ []OnePerCycle => ContributionOnlyOnCommitted
<1> DEFINE A == \A row \in contributions' \ contributions :
                  cycles[row.cycle].state = "committed"
<1>1. Inductive /\ TasksCurrent /\ [Next]_vars => [A]_vars
  <2> SUFFICES ASSUME Inductive, TasksCurrent, [Next]_vars,
                      NEW row \in contributions' \ contributions
               PROVE  cycles[row.cycle].state = "committed"
    OBVIOUS
  <2>1. PICK t \in Tasks : CommitContribution(t) \/ CommitPayout(t)
    BY OnlyCommitsWriteRows
  <2>2. CommitContribution(t) /\ row = RowOf(entry[t])
    BY <2>1 DEF CommitContribution, CommitPayout
  <2>3. Current(entry[t]) /\ entry[t].event \in ContributionEvents
    BY <2>2 DEF CommitContribution, TasksCurrent
  <2> QED
    BY <2>2, <2>3 DEF Current, RowOf
<1> QED
  BY <1>1, AlwaysInductive, AlwaysCurrent, PTL
  DEF Spec, ContributionOnlyOnCommitted

(* mark_payout_confirmed: were the requests of a cycle one at a time, a    *)
(* payout would be confirmed only from pending or sent.  The run           *)
(* KernelConfirmAfterFailure shows the overlap that breaks it.             *)
THEOREM OneRequestPerCycleKeepsConfirmations ==
  Spec /\ []OnePerCycle => ConfirmedOnlyFromPending
<1> DEFINE A == \A c \in Cycles :
                  cycles'[c].payout = "confirmed"
                  /\ cycles[c].payout # "confirmed" => MayConfirm(cycles[c])
<1>1. Inductive /\ TasksCurrent /\ [Next]_vars => [A]_vars
  <2> SUFFICES ASSUME Inductive, TasksCurrent, [Next]_vars, NEW c \in Cycles,
                      cycles'[c].payout = "confirmed",
                      cycles[c].payout # "confirmed"
               PROVE  MayConfirm(cycles[c])
    OBVIOUS
  <2>1. PICK t \in Tasks : CommitContribution(t) \/ CommitPayout(t)
    BY OnlyCommitsWriteRows
  <2>2. entry[t] \in Entries /\ Current(entry[t])
    BY <2>1 DEF CommitContribution, CommitPayout, TasksCurrent, Inductive,
                TasksJustified
  <2>3. ASSUME CommitContribution(t) PROVE FALSE
    BY <2>3 DEF CommitContribution, Inductive, TypeOK, CycleRows
  <2>4. CommitPayout(t) /\ c = entry[t].cycle
    BY <2>1, <2>2, <2>3 DEF CommitPayout, Entries, Inductive, TypeOK
  <2>5. cycles'[c].payout = PayoutStateAfter(entry[t].event)
    BY <2>4 DEF CommitPayout, UpdatedRow, WithPayoutState, Inductive, TypeOK,
                CycleRows
  <2>6. entry[t].event = "payout_confirmed"
    BY <2>4, <2>5 DEF CommitPayout, PayoutEvents, PayoutStateAfter
  <2> QED
    BY <2>2, <2>4, <2>6 DEF Current
<1> QED
  BY <1>1, AlwaysInductive, AlwaysCurrent, PTL
  DEF Spec, ConfirmedOnlyFromPending

(* With one request per cycle, a commit keeps the debit of a cycle equal   *)
(* to what it collected: nothing is collected once it is debited.          *)
LEMMA NextKeepsPaidInFull ==
  ASSUME Inductive, TasksCurrent, PaidInFull, [Next]_vars
  PROVE  PaidInFull'
<1> SUFFICES ASSUME NEW c \in Cycles, NEW e \in Initiations(c)'
             PROVE  e.amount = cycles'[c].collected
  BY DEF PaidInFull
<1>1. e \in ledger' /\ e.event = "payout_initiated" /\ e.cycle = c
  BY DEF Initiations
<1>2. e \in ledger => e.amount = cycles[c].collected
                      /\ cycles[c].state # "committed"
  BY <1>1 DEF Initiations, PaidInFull, Inductive, LedgerExplainsCycle
<1>3. CASE UNCHANGED <<cycles, contributions, ledger>>
  BY <1>1, <1>2, <1>3
<1>4. ASSUME NEW t \in Tasks, CommitContribution(t)
      PROVE  e.amount = cycles'[c].collected
  <2>1. Current(entry[t]) /\ entry[t].event \in ContributionEvents
        /\ entry[t] \in Entries
    BY <1>4 DEF CommitContribution, TasksCurrent, Inductive, TasksJustified
  <2>2. e \in ledger
    BY <1>1, <1>4, <2>1 DEF CommitContribution, Record, ContributionEvents
  <2>3. entry[t].cycle # c
    BY <1>2, <2>1, <2>2 DEF Current
  <2>4. cycles'[c] = cycles[c]
    BY <1>4, <2>3 DEF CommitContribution, Inductive, TypeOK
  <2> QED
    BY <1>2, <2>2, <2>4
<1>5. ASSUME NEW t \in Tasks, CommitPayout(t)
      PROVE  e.amount = cycles'[c].collected
  <2>1. Current(entry[t]) /\ entry[t] \in Entries
    BY <1>5 DEF CommitPayout, TasksCurrent, Inductive, TasksJustified
  <2>2. cycles'[c].collected = cycles[c].collected
    BY <1>5, <2>1
    DEF CommitPayout, Inductive, TypeOK, CycleRows, UpdatedRow,
        WithPayoutState, Entries
  <2>3. e = entry[t] => e.amount = cycles[c].collected
    BY <1>1, <2>1 DEF Current
  <2> QED
    BY <1>1, <1>2, <1>5, <2>2, <2>3 DEF CommitPayout, Record
<1> QED
  BY <1>3, <1>4, <1>5, OnlyCommitsWriteRows

(* Were the requests of a cycle one at a time, its payout would be for all *)
(* that the cycle ever collects: the scheduler pays the amount it read,    *)
(* and the only thing that can make it less than the cycle's balance is a  *)
(* transfer that is booked behind it.                                      *)
THEOREM OneRequestPerCyclePaysInFull == Spec /\ []OnePerCycle => []PaidInFull
<1>1. Init => PaidInFull
  BY DEF Init, PaidInFull, Initiations
<1>2. Inductive /\ TasksCurrent /\ PaidInFull /\ [Next]_vars => PaidInFull'
  BY NextKeepsPaidInFull
<1> QED
  BY <1>1, <1>2, AlwaysInductive, AlwaysCurrent, PTL DEF Spec

===============================================================================
