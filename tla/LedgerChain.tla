----------------------------- MODULE LedgerChain -----------------------------
(***************************************************************************)
(* The hash chain of table `ledger_entries`: `append`, run inside the      *)
(* transaction of its caller by several transactions at once, and the two  *)
(* audits of the chain, `verify_chain` and view `ledger_chain_audit`.      *)
(*                                                                         *)
(* A transaction that appends is at                                        *)
(*   idle      no transaction;                                             *)
(*   wait      its SELECT ... FOR UPDATE chose the last row of the         *)
(*             statement's snapshot and waits for the lock on it;          *)
(*   read      tail read, and locked if there is one;                      *)
(*   numbered  seq_no taken from the BIGSERIAL sequence by the INSERT;     *)
(*   inserted  row inserted, to be committed or rolled back by the caller. *)
(* A waiter keeps the row it chose: the holder of the lock inserts a new   *)
(* row and does not change the locked one, so the SELECT is not redone.    *)
(* nextval is not transactional: a number that is rolled back is lost.     *)
(***************************************************************************)
EXTENDS Naturals, FiniteSets

CONSTANTS
  EntryKeys,   \* idempotency keys, each with its event and payload
  Writers,     \* connections that append
  MaxAppends   \* bound: calls of append

ASSUME ChainAssumption == MaxAppends \in Nat

VARIABLES
  rows,      \* committed rows
  sequence,  \* last value given by the sequence behind seq_no
  pc,        \* where each writer is
  tail,      \* the row each writer builds on
  draft,     \* the row each writer inserts
  appends    \* calls of append so far

vars == <<rows, sequence, pc, tail, draft, appends>>

-------------------------------------------------------------------------------

(* prev_hash of the first entry; NULL in the table, GENESIS in the hash.   *)
Genesis == <<>>

(* SHA-256 of seq_no:event:payload_hash:prev_hash, taken as injective; the *)
(* key stands for the event and its payload.                               *)
Hash(seq, key, prev) == <<seq, key, prev>>

NoRow == [seq |-> 0, key |-> "none", prev |-> Genesis, hash |-> Genesis]

Latest(S) ==
  IF S = {} THEN NoRow
  ELSE CHOOSE row \in S : \A other \in S : other.seq <= row.seq

(* Mutants: the row is numbered like its tail; the tail's number is hashed. *)
BuildRowSameNumber(key, last, seq) ==
  [seq |-> last.seq, key |-> key, prev |-> last.hash,
   hash |-> Hash(last.seq + 1, key, last.hash)]

BuildRowTailHashed(key, last, seq) ==
  [seq |-> seq, key |-> key, prev |-> last.hash,
   hash |-> Hash(last.seq, key, last.hash)]

(* `build`: the number hashed is the tail's plus one; the row's own number *)
(* comes from the sequence.                                                *)
BuildRow(key, last, seq) ==
  [seq |-> seq, key |-> key, prev |-> last.hash,
   hash |-> Hash(last.seq + 1, key, last.hash)]

(* Mutant: rows of open transactions are read.                             *)
VisibleUncommitted ==
  rows \cup {draft[u] : u \in {v \in Writers : pc[v] = "inserted"}}

(* What a SELECT sees.                                                     *)
Visible == rows

(* Mutant: a waiter holds the lock it waits for.                           *)
LockedByWaiter(row) ==
  \E u \in Writers :
    pc[u] \in {"wait", "read", "numbered", "inserted"} /\ tail[u] = row

Locked(row) ==
  \E u \in Writers : pc[u] \in {"read", "numbered", "inserted"} /\ tail[u] = row

-------------------------------------------------------------------------------

Init ==
  /\ rows = {}
  /\ sequence = 0
  /\ pc = [t \in Writers |-> "idle"]
  /\ tail = [t \in Writers |-> NoRow]
  /\ draft = [t \in Writers |-> NoRow]
  /\ appends = 0

(* An empty ledger has no row to lock.                                     *)
ReadTail(t, key) ==
  /\ pc[t] = "idle"
  /\ appends < MaxAppends
  /\ appends' = appends + 1
  /\ tail' = [tail EXCEPT ![t] = Latest(Visible)]
  /\ draft' = [draft EXCEPT ![t].key = key]
  /\ pc' = [pc EXCEPT ![t] = IF Visible = {} THEN "read" ELSE "wait"]
  /\ UNCHANGED <<rows, sequence>>

LockTail(t) ==
  /\ pc[t] = "wait"
  /\ ~Locked(tail[t])
  /\ pc' = [pc EXCEPT ![t] = "read"]
  /\ UNCHANGED <<rows, sequence, tail, draft, appends>>

(* The defaults of the INSERT are computed before its index entries.       *)
TakeNumber(t) ==
  /\ pc[t] = "read"
  /\ sequence' = sequence + 1
  /\ draft' = [draft EXCEPT ![t] = BuildRow(@.key, tail[t], sequence')]
  /\ pc' = [pc EXCEPT ![t] = "numbered"]
  /\ UNCHANGED <<rows, tail, appends>>

(* An uncommitted row with the same key makes the INSERT wait.             *)
InsertRow(t) ==
  /\ pc[t] = "numbered"
  /\ \A row \in rows : row.key # draft[t].key
  /\ \A u \in Writers : pc[u] = "inserted" => draft[u].key # draft[t].key
  /\ pc' = [pc EXCEPT ![t] = "inserted"]
  /\ UNCHANGED <<rows, sequence, tail, draft, appends>>

Leave(t) ==
  /\ pc' = [pc EXCEPT ![t] = "idle"]
  /\ tail' = [tail EXCEPT ![t] = NoRow]
  /\ draft' = [draft EXCEPT ![t] = NoRow]
  /\ UNCHANGED <<sequence, appends>>

InsertDuplicate(t) ==
  /\ pc[t] = "numbered"
  /\ \E row \in rows : row.key = draft[t].key
  /\ Leave(t)
  /\ UNCHANGED rows

Commit(t) ==
  /\ pc[t] = "inserted"
  /\ rows' = rows \cup {draft[t]}
  /\ Leave(t)

(* The caller fails after the append, or the connection is lost.           *)
Rollback(t) ==
  /\ pc[t] # "idle"
  /\ Leave(t)
  /\ UNCHANGED rows

Advance(t) ==
  LockTail(t) \/ TakeNumber(t) \/ InsertRow(t) \/ InsertDuplicate(t) \/ Commit(t)

Next ==
  \E t \in Writers :
    \/ \E key \in EntryKeys : ReadTail(t, key)
    \/ Advance(t)
    \/ Rollback(t)

Spec == Init /\ [][Next]_vars

(* A transaction is driven to its end, and PostgreSQL grants a free lock.  *)
FairSpec == Spec /\ \A t \in Writers : WF_vars(Advance(t))

-------------------------------------------------------------------------------
(* The audits, over a set S of rows read in the order of seq_no.           *)

Before(S, row) == {other \in S : other.seq < row.seq}

Preceding(S, row) == Latest(Before(S, row))

(* What `verify_chain` reports about a row.                                *)
SequenceGap(S, row) ==
  Before(S, row) # {} /\ row.seq # Preceding(S, row).seq + 1

ChainBreak(S, row) ==
  row.prev # IF row.seq = 1 THEN Genesis ELSE Preceding(S, row).hash

(* Mutant: current_hash is trusted.                                        *)
HashTrusted(row) == FALSE

HashMismatch(row) == row.hash # Hash(row.seq, row.key, row.prev)

Violations(S) ==
  {row \in S : SequenceGap(S, row) \/ ChainBreak(S, row) \/ HashMismatch(row)}

(* What an audit may be given: the rows of one aggregate, or of one group. *)
Parts == SUBSET rows

(* Mutant: the chain is followed by prev_hash, as the table has it.        *)
ReplayedFromPrev(S) == {row \in S : HashMismatch(row)}

(* What the audit export reports, replaying the hashes.                    *)
Replayed(S) ==
  {row \in S : row.hash # Hash(row.seq, row.key, Preceding(S, row).hash)}

(* What the view calls BROKEN.                                             *)
Broken(S) ==
  {row \in S :
    /\ ~(row.prev = Genesis /\ row.seq = 1)
    /\ ~\E other \in S : other.seq + 1 = row.seq /\ other.hash = row.prev}

-------------------------------------------------------------------------------
(* Properties.                                                             *)

TypeOK ==
  /\ IsFiniteSet(rows)
  /\ \A row \in rows : row.seq \in 1..sequence /\ row.key \in EntryKeys
  /\ sequence \in 0..MaxAppends
  /\ pc \in [Writers -> {"idle", "wait", "read", "numbered", "inserted"}]
  /\ \A t \in Writers : tail[t] \in rows \cup {NoRow}
  /\ \A t \in Writers :
       draft[t].key \in EntryKeys \cup {"none"} /\ draft[t].seq \in 0..sequence
  /\ appends \in 0..MaxAppends

(* Every committed entry leads back to the genesis: it is chained to an    *)
(* entry that is committed and has a smaller number, never to one that     *)
(* was rolled back; and numbers and keys are not reused.                   *)
ChainedToCommitted ==
  /\ \A row \in rows :
       row.prev # Genesis =>
         \E other \in rows : other.hash = row.prev /\ other.seq < row.seq
  /\ \A row, other \in rows :
       row.seq = other.seq \/ row.key = other.key => row = other

(* Three audits, written apart: the verifier of the kernel and the view of *)
(* the database condemn the same entries of the ledger, and the replay of  *)
(* the hashes by the export, of whatever part it is given, condemns those  *)
(* the verifier does, although it looks at neither number nor prev_hash.   *)
AuditsAgree ==
  /\ Violations(rows) = Broken(rows)
  /\ \A S \in Parts : Replayed(S) = Violations(S)

(* A ledger without a missing number and without two entries chained to    *)
(* the same one is reported intact: gaps and forks are the only defects    *)
(* that appends, however they overlap, can leave.                          *)
IntactUnlessGapOrFork ==
  LET noGap  == {row.seq : row \in rows} = 1..Cardinality(rows)
      noFork == \A row, other \in rows : row.prev = other.prev => row = other
  IN  noGap /\ noFork => Violations(rows) = {}

(* An audit of a part of the ledger, of one aggregate in the kernel's tool *)
(* or of one group in the export of social, gives the same verdict in both *)
(* and finds no fault only if the part is a beginning of the chain: any    *)
(* other part is reported broken, however sound the ledger.                *)
PartPassesOnlyAsPrefix ==
  \A S \in Parts :
    LET passes == Violations(S) = {}
    IN  /\ passes <=> Replayed(S) = {}
        /\ passes => S = {row \in rows : row.seq <= Cardinality(S)}

(* Waiting for the last row and for the key cannot deadlock: every append  *)
(* ends, by a commit or a rollback.                                        *)
AppendsEnd == \A t \in Writers : pc[t] # "idle" ~> pc[t] = "idle"

-------------------------------------------------------------------------------
(* Statements of the repository that the code does not keep.               *)

(* Doc of `append`: prev_hash is always the current_hash of the preceding  *)
(* entry.                                                                  *)
ChainedToPreceding == \A row \in rows : row.prev = Preceding(rows, row).hash

===============================================================================
