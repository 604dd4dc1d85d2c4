-------------------------- MODULE LedgerChain_proofs --------------------------
(***************************************************************************)
(* Theorems about the ledger, for any keys, any writers and any number of  *)
(* appends that overlap, wait, collide and roll back in any way.           *)
(*                                                                         *)
(* The invariant, ChainInv, says what the open transactions hold: each     *)
(* builds on a committed row, with a number no other row has.  What the    *)
(* two audits report of such a ledger is then a matter of its rows alone.  *)
(***************************************************************************)
EXTENDS LedgerChain, NaturalFacts, FunctionTheorems

(* Rows are records; the SELECT of an append cannot return less.           *)
IsRow(r) ==
  /\ r = [seq |-> r.seq, key |-> r.key, prev |-> r.prev, hash |-> r.hash]
  /\ r.seq \in Nat

(* r is what `build` makes on top of last.                                 *)
BuiltOn(r, last) ==
  /\ r.prev = last.hash
  /\ r.hash = Hash(last.seq + 1, r.key, last.hash)
  /\ last.seq < r.seq

Numbered == {t \in Writers : pc[t] \in {"numbered", "inserted"}}

Drawing == {t \in Writers : pc[t] \in {"wait", "read"}}

Shape ==
  /\ pc \in [Writers -> {"idle", "wait", "read", "numbered", "inserted"}]
  /\ sequence \in Nat /\ appends \in Nat
  /\ tail = [t \in Writers |-> tail[t]]
  /\ draft = [t \in Writers |-> draft[t]]
  /\ IsFiniteSet(rows)
  /\ \A r \in rows : IsRow(r) /\ r.seq \in 1..sequence /\ r.key \in EntryKeys
  /\ \A t \in Writers :
       /\ tail[t] \in rows \cup {NoRow}
       /\ IsRow(draft[t]) /\ draft[t].seq <= sequence
       /\ draft[t].key \in EntryKeys \cup {"none"}
       /\ pc[t] # "idle" => draft[t].key \in EntryKeys

(* Every append in progress draws at most one number.                      *)
Counted ==
  /\ IsFiniteSet(Drawing)
  /\ sequence + Cardinality(Drawing) <= appends
  /\ appends <= MaxAppends

RowsBuilt == \A r \in rows : \E last \in rows \cup {NoRow} : BuiltOn(r, last)

DraftsBuilt ==
  \A t \in Numbered : BuiltOn(draft[t], tail[t]) /\ draft[t].seq # 0

(* No number is used twice, nor a key once the INSERT has passed.          *)
NumbersUnique ==
  /\ \A r, s \in rows : r.seq = s.seq => r = s
  /\ \A t \in Numbered :
       /\ \A r \in rows : r.seq # draft[t].seq
       /\ \A u \in Numbered \ {t} : draft[u].seq # draft[t].seq

KeysUnique ==
  /\ \A r, s \in rows : r.key = s.key => r = s
  /\ \A t \in Writers : pc[t] = "inserted" =>
       /\ \A r \in rows : r.key # draft[t].key
       /\ \A u \in Writers \ {t} :
            pc[u] = "inserted" => draft[u].key # draft[t].key

ChainInv ==
  Shape /\ Counted /\ RowsBuilt /\ DraftsBuilt /\ NumbersUnique /\ KeysUnique

-------------------------------------------------------------------------------
(* Rows and hashes.                                                        *)

LEMMA HashInjective ==
  /\ \A a, b, c, d, e, f : Hash(a, b, c) = Hash(d, e, f) => a = d /\ b = e /\ c = f
  /\ \A a, b, c : Hash(a, b, c) # Genesis
  BY DEF Hash, Genesis

LEMMA NoRowIsRow == IsRow(NoRow) /\ NoRow.seq = 0 /\ NoRow.hash = Genesis
                    /\ NoRow.key = "none"
  BY DEF IsRow, NoRow

(* `ORDER BY seq_no DESC LIMIT 1` returns the row with the highest number. *)
LEMMA LatestIs ==
  ASSUME NEW S, NEW m \in S, \A r \in S : r.seq <= m.seq /\ r.seq \in Nat,
         \A r \in S : r.seq = m.seq => r = m
  PROVE  Latest(S) = m
<1>1. \E row \in S : \A other \in S : other.seq <= row.seq
  OBVIOUS
<1>2. ASSUME NEW row \in S, \A other \in S : other.seq <= row.seq
      PROVE  row = m
  BY <1>2
<1> QED BY <1>1, <1>2 DEF Latest

LEMMA LatestMember ==
  ASSUME Shape, NumbersUnique, NEW S \in SUBSET rows, S # {}
  PROVE  Latest(S) \in S /\ \A r \in S : r.seq <= Latest(S).seq
<1> DEFINE N == {r.seq : r \in S}
<1>1. N \in SUBSET Nat /\ N # {} /\ \A n \in N : n <= sequence
  BY DEF Shape
<1>2. PICK greatest \in N : \A n \in N : n <= greatest
  BY <1>1, GreatestExists DEF Shape
<1>3. PICK m \in S : m.seq = greatest
  OBVIOUS
<1>4. \A r \in S : r.seq <= m.seq /\ r.seq \in Nat
  BY <1>2, <1>3 DEF Shape
<1>5. Latest(S) = m
  BY <1>4, LatestIs DEF NumbersUnique
<1> QED BY <1>4, <1>5

-------------------------------------------------------------------------------
(* The invariant.                                                          *)

LEMMA InitChainInv == Init => ChainInv
<1> SUFFICES ASSUME Init PROVE ChainInv
  OBVIOUS
<1> USE DEF Init
<1>1. Shape
  BY NoRowIsRow, FS_EmptySet DEF Shape
<1>2. Counted
  <2>1. Drawing = {}
    BY DEF Drawing
  <2> QED BY <2>1, FS_EmptySet, ChainAssumption DEF Counted
<1>3. RowsBuilt /\ DraftsBuilt /\ NumbersUnique /\ KeysUnique
  BY DEF RowsBuilt, DraftsBuilt, NumbersUnique, KeysUnique, Numbered
<1> QED BY <1>1, <1>2, <1>3 DEF ChainInv

LEMMA ReadTailStep ==
  ASSUME ChainInv, NEW t \in Writers, NEW key \in EntryKeys, ReadTail(t, key)
  PROVE  ChainInv'
<1> USE DEF ChainInv, ReadTail
<1>1. Latest(rows) \in rows \cup {NoRow}
  BY LatestMember DEF Latest
<1>2. Shape'
  <2>1. /\ draft' = [draft EXCEPT ![t] = [draft[t] EXCEPT !.key = key]]
        /\ IsRow([draft[t] EXCEPT !.key = key])
        /\ [draft[t] EXCEPT !.key = key].seq = draft[t].seq
        /\ [draft[t] EXCEPT !.key = key].key = key
    BY DEF Shape, IsRow
  <2>2. \A u \in Writers :
          /\ IsRow(draft'[u]) /\ draft'[u].seq <= sequence
          /\ draft'[u].key \in EntryKeys \cup {"none"}
          /\ pc'[u] # "idle" => draft'[u].key \in EntryKeys
    BY <2>1 DEF Shape
  <2>3. pc' \in [Writers -> {"idle", "wait", "read", "numbered", "inserted"}]
    BY DEF Shape
  <2>4. /\ tail' = [u \in Writers |-> tail'[u]]
        /\ draft' = [u \in Writers |-> draft'[u]]
    BY DEF Shape
  <2>5. \A u \in Writers : tail'[u] \in rows \cup {NoRow}
    BY <1>1 DEF Shape, Visible
  <2> QED BY <2>2, <2>3, <2>4, <2>5 DEF Shape
<1>3. Counted'
  <2>1. t \notin Drawing /\ Drawing' = Drawing \cup {t}
    BY DEF Drawing, Shape
  <2>2. /\ IsFiniteSet(Drawing') /\ Cardinality(Drawing) \in Nat
        /\ Cardinality(Drawing') = Cardinality(Drawing) + 1
    BY <2>1, FS_AddElement, FS_CardinalityType DEF Counted
  <2> QED BY <2>2, ChainAssumption DEF Counted, Shape
<1>4. Numbered' = Numbered /\ t \notin Numbered
  BY DEF Numbered, Shape
<1>5. \A u \in Numbered : draft'[u] = draft[u] /\ tail'[u] = tail[u]
  BY <1>4 DEF Numbered, Shape
<1>6. RowsBuilt' /\ DraftsBuilt' /\ NumbersUnique'
  BY <1>4, <1>5 DEF RowsBuilt, DraftsBuilt, NumbersUnique
<1>7. KeysUnique'
  BY DEF KeysUnique, Shape
<1> QED BY <1>2, <1>3, <1>6, <1>7

LEMMA LockTailStep ==
  ASSUME ChainInv, NEW t \in Writers, LockTail(t)
  PROVE  ChainInv'
<1> USE DEF ChainInv, LockTail
<1>1. Shape'
  BY DEF Shape
<1>2. Drawing' = Drawing /\ Numbered' = Numbered
  BY DEF Drawing, Numbered, Shape
<1>3. Counted' /\ RowsBuilt' /\ DraftsBuilt' /\ NumbersUnique'
  BY <1>2 DEF Counted, RowsBuilt, DraftsBuilt, NumbersUnique
<1>4. KeysUnique'
  BY DEF KeysUnique, Shape
<1> QED BY <1>1, <1>3, <1>4

(* The number is above every row's, the tail's included.                   *)
LEMMA TakeNumberStep ==
  ASSUME ChainInv, NEW t \in Writers, TakeNumber(t)
  PROVE  ChainInv'
<1> USE DEF ChainInv
<1> DEFINE new == BuildRow(draft[t].key, tail[t], sequence + 1)
<1>1. /\ pc[t] = "read" /\ pc' = [pc EXCEPT ![t] = "numbered"]
      /\ draft' = [draft EXCEPT ![t] = new]
      /\ sequence' = sequence + 1
      /\ UNCHANGED <<rows, tail, appends>>
  BY DEF TakeNumber, Shape
<1>2. /\ IsRow(new) /\ new.seq = sequence + 1 /\ new.key = draft[t].key
      /\ new.prev = tail[t].hash
      /\ new.hash = Hash(tail[t].seq + 1, draft[t].key, tail[t].hash)
  BY DEF BuildRow, IsRow, Shape
<1>3. tail[t].seq \in 0..sequence
  BY NoRowIsRow DEF Shape
<1> HIDE DEF new
<1>4. Shape'
  <2>1. ASSUME NEW u \in Writers
        PROVE
          /\ IsRow(draft'[u]) /\ draft'[u].seq <= sequence'
          /\ draft'[u].key \in EntryKeys \cup {"none"}
          /\ pc'[u] # "idle" => draft'[u].key \in EntryKeys
    <3>1. CASE u = t
      BY <1>1, <1>2, <3>1 DEF Shape
    <3>2. CASE u # t
      BY <1>1, <3>2 DEF Shape, IsRow
    <3> QED BY <3>1, <3>2
  <2>2. \A r \in rows : r.seq \in 1..sequence'
    BY <1>1 DEF Shape, IsRow
  <2>3. draft' = [u \in Writers |-> draft'[u]]
    BY <1>1 DEF Shape
  <2> QED BY <1>1, <2>1, <2>2, <2>3 DEF Shape
<1>5. Counted'
  <2>1. t \in Drawing /\ Drawing' = Drawing \ {t}
    BY <1>1 DEF Drawing, Shape
  <2>2. /\ IsFiniteSet(Drawing') /\ Cardinality(Drawing) \in Nat
        /\ Cardinality(Drawing') = Cardinality(Drawing) - 1
    BY <2>1, FS_RemoveElement, FS_CardinalityType DEF Counted
  <2> QED BY <1>1, <2>2 DEF Counted, Shape
<1>6. Numbered' = Numbered \cup {t} /\ t \notin Numbered
  BY <1>1 DEF Numbered, Shape
<1>7. \A u \in Numbered : /\ draft'[u] = draft[u] /\ tail'[u] = tail[u]
                          /\ draft[u].seq <= sequence /\ draft[u].seq \in Nat
  BY <1>1, <1>6 DEF Numbered, Shape, IsRow
<1>8. draft'[t] = new /\ tail'[t] = tail[t]
  BY <1>1 DEF Shape
<1>9. RowsBuilt'
  BY <1>1 DEF RowsBuilt
<1>10. DraftsBuilt'
  <2>1. \A u \in Numbered : BuiltOn(draft'[u], tail'[u]) /\ draft'[u].seq # 0
    BY <1>7 DEF DraftsBuilt
  <2>2. BuiltOn(new, tail[t]) /\ new.seq # 0
    BY <1>2, <1>3 DEF BuiltOn, Shape
  <2> QED BY <1>6, <1>8, <2>1, <2>2 DEF DraftsBuilt
<1>11. NumbersUnique'
  BY <1>1, <1>2, <1>6, <1>7, <1>8 DEF NumbersUnique, Shape
<1>12. KeysUnique'
  BY <1>1 DEF KeysUnique, Shape
<1> QED BY <1>4, <1>5, <1>9, <1>10, <1>11, <1>12

LEMMA InsertRowStep ==
  ASSUME ChainInv, NEW t \in Writers, InsertRow(t)
  PROVE  ChainInv'
<1> USE DEF ChainInv, InsertRow
<1>1. Shape'
  BY DEF Shape
<1>2. Drawing' = Drawing /\ Numbered' = Numbered
  BY DEF Drawing, Numbered, Shape
<1>3. Counted' /\ RowsBuilt' /\ DraftsBuilt' /\ NumbersUnique'
  BY <1>2 DEF Counted, RowsBuilt, DraftsBuilt, NumbersUnique
<1>4. KeysUnique'
  BY DEF KeysUnique, Shape
<1> QED BY <1>1, <1>3, <1>4

(* A transaction that ends holds nothing; its row may stay.                *)
LEMMA LeaveStep ==
  ASSUME ChainInv, NEW t \in Writers, Leave(t),
         \/ rows' = rows
         \/ pc[t] = "inserted" /\ rows' = rows \cup {draft[t]}
  PROVE  ChainInv'
<1> USE DEF ChainInv, Leave
<1>1. /\ pc[t] = "inserted" => t \in Numbered
      /\ Numbered' = Numbered \ {t} /\ Drawing' = Drawing \ {t}
  BY DEF Numbered, Drawing, Shape
<1>2. \A u \in Writers \ {t} :
        draft'[u] = draft[u] /\ tail'[u] = tail[u] /\ pc'[u] = pc[u]
  BY DEF Shape
<1>3. pc'[t] = "idle" /\ tail'[t] = NoRow /\ draft'[t] = NoRow
  BY DEF Shape
<1>4. \A r \in rows' \ rows :
        r = draft[t] /\ pc[t] = "inserted" /\ t \in Numbered
  BY <1>1
<1>5. Shape'
  <2>1. IsFiniteSet(rows')
    BY FS_AddElement DEF Shape
  <2>2. \A r \in rows' : IsRow(r) /\ r.seq \in 1..sequence /\ r.key \in EntryKeys
    <3>1. ASSUME NEW r \in rows' \ rows
          PROVE  IsRow(r) /\ r.seq \in 1..sequence /\ r.key \in EntryKeys
      <4>1. r = draft[t] /\ pc[t] = "inserted" /\ t \in Numbered
        BY <1>4
      <4>2. IsRow(r) /\ r.seq <= sequence /\ r.key \in EntryKeys
        BY <4>1 DEF Shape
      <4>3. r.seq # 0
        BY <4>1 DEF DraftsBuilt
      <4> QED BY <4>2, <4>3 DEF IsRow, Shape
    <3> QED BY <3>1 DEF Shape
  <2>3. \A u \in Writers : tail'[u] \in rows' \cup {NoRow}
    BY <1>2, <1>3 DEF Shape
  <2>4. ASSUME NEW u \in Writers
        PROVE
          /\ IsRow(draft'[u]) /\ draft'[u].seq <= sequence
          /\ draft'[u].key \in EntryKeys \cup {"none"}
          /\ pc'[u] # "idle" => draft'[u].key \in EntryKeys
    BY <1>2, <1>3, NoRowIsRow DEF Shape
  <2>5. /\ pc' \in [Writers -> {"idle", "wait", "read", "numbered", "inserted"}]
        /\ tail' = [u \in Writers |-> tail'[u]]
        /\ draft' = [u \in Writers |-> draft'[u]]
    BY DEF Shape
  <2> QED BY <2>1, <2>2, <2>3, <2>4, <2>5 DEF Shape
<1>6. Counted'
  <2>1. /\ IsFiniteSet(Drawing') /\ Cardinality(Drawing) \in Nat
        /\ Cardinality(Drawing') \in Nat
        /\ Cardinality(Drawing') <= Cardinality(Drawing)
    <3>1. IsFiniteSet(Drawing) /\ IsFiniteSet(Drawing')
      BY <1>1, FS_RemoveElement DEF Counted
    <3>2. Cardinality(Drawing) \in Nat /\ Cardinality(Drawing') \in Nat
      BY <3>1, FS_CardinalityType
    <3>3. Cardinality(Drawing') \in {Cardinality(Drawing), Cardinality(Drawing) - 1}
      BY <1>1, <3>1, FS_RemoveElement
    <3> QED BY <3>1, <3>2, <3>3
  <2> QED BY <2>1, ChainAssumption DEF Counted, Shape
<1>7. RowsBuilt'
  <2>1. \A r \in rows' \ rows : BuiltOn(r, tail[t]) /\ tail[t] \in rows \cup {NoRow}
    BY <1>4 DEF DraftsBuilt, Shape
  <2>2. rows \subseteq rows'
    OBVIOUS
  <2> QED BY <2>1, <2>2 DEF RowsBuilt
<1>8. DraftsBuilt'
  BY <1>1, <1>2 DEF DraftsBuilt, Numbered
<1>9. NumbersUnique'
  <2>1. \A u \in Numbered' : u \in Numbered /\ u # t /\ draft'[u] = draft[u]
    BY <1>1, <1>2 DEF Numbered
  <2> QED BY <1>4, <2>1 DEF NumbersUnique
<1>10. KeysUnique'
  BY <1>2, <1>3, <1>4 DEF KeysUnique
<1> QED BY <1>5, <1>6, <1>7, <1>8, <1>9, <1>10

LEMMA ChainInvStep == ChainInv /\ [Next]_vars => ChainInv'
<1> SUFFICES ASSUME ChainInv, [Next]_vars PROVE ChainInv'
  OBVIOUS
<1>1. CASE UNCHANGED vars
  BY <1>1 DEF vars, ChainInv, Shape, Counted, Drawing, RowsBuilt, DraftsBuilt,
              NumbersUnique, KeysUnique, Numbered
<1>2. ASSUME NEW t \in Writers, Advance(t) PROVE ChainInv'
  <2>1. CASE InsertDuplicate(t)
    <3>1. Leave(t) /\ rows' = rows
      BY <2>1 DEF InsertDuplicate
    <3> QED BY <3>1, LeaveStep
  <2>2. CASE Commit(t)
    BY <2>2, LeaveStep DEF Commit
  <2> QED BY <1>2, <2>1, <2>2, LockTailStep, TakeNumberStep, InsertRowStep
          DEF Advance
<1>3. ASSUME NEW t \in Writers, Rollback(t) PROVE ChainInv'
  <2>1. Leave(t) /\ rows' = rows
    BY <1>3 DEF Rollback
  <2> QED BY <2>1, LeaveStep
<1> QED BY <1>1, <1>2, <1>3, ReadTailStep DEF Next

(* Every append, overlapping or rolled back, keeps the chain's invariant.  *)
THEOREM ChainInvariant == Spec => []ChainInv
  BY InitChainInv, ChainInvStep, PTL DEF Spec

(* Every variable keeps its type, and the numbers drawn never outnumber    *)
(* the appends.                                                            *)
THEOREM LedgerTypeCorrect == Spec => []TypeOK
<1>1. ChainInv => TypeOK
  <2> SUFFICES ASSUME ChainInv PROVE TypeOK
    OBVIOUS
  <2>1. sequence \in 0..MaxAppends
    BY FS_CardinalityType, ChainAssumption DEF ChainInv, Counted, Shape
  <2> QED BY <2>1, ChainAssumption DEF ChainInv, Counted, Shape, TypeOK, IsRow
<1> QED BY <1>1, ChainInvariant, PTL

(* `append`: whatever overlaps or rolls back, a committed entry is chained *)
(* to a committed entry before it.                                         *)
THEOREM ChainLeadsToGenesis == Spec => []ChainedToCommitted
<1>1. ChainInv => ChainedToCommitted
  BY NoRowIsRow DEF ChainInv, RowsBuilt, BuiltOn, NumbersUnique, KeysUnique,
                    ChainedToCommitted
<1> QED BY <1>1, ChainInvariant, PTL

-------------------------------------------------------------------------------
(* The audits.  A row is in order, in a set of rows, if it was built on    *)
(* the one that precedes it there and has the next number: both audits and *)
(* the export come down to this, each in its own way.                      *)

InOrder(S, row) ==
  /\ row.prev = Preceding(S, row).hash
  /\ row.seq = Preceding(S, row).seq + 1

LEMMA RowTypes ==
  ASSUME ChainInv
  PROVE  /\ \A r \in rows : r.seq \in Nat \ {0}
         /\ NoRow.seq = 0 /\ NoRow.hash = Genesis
  BY NoRowIsRow DEF ChainInv, Shape

LEMMA HashUnique ==
  ASSUME ChainInv, NEW r \in rows \cup {NoRow}, NEW s \in rows \cup {NoRow},
         r.hash = s.hash
  PROVE  r = s
<1>1. \A q \in rows : \E last : q.hash = Hash(last.seq + 1, q.key, last.hash)
  BY DEF ChainInv, RowsBuilt, BuiltOn
<1>2. CASE r \in rows /\ s \in rows
  BY <1>1, <1>2, HashInjective DEF ChainInv, KeysUnique
<1>3. CASE r = NoRow \/ s = NoRow
  BY <1>1, <1>3, HashInjective, NoRowIsRow
<1> QED BY <1>2, <1>3

(* A hash agrees with a number and a previous hash only if the row was     *)
(* built on that hash and got the next number.                             *)
LEMMA HashTells ==
  ASSUME ChainInv, NEW r \in rows, NEW q \in rows \cup {NoRow}
  PROVE  r.hash = Hash(r.seq, r.key, q.hash) <=>
           r.prev = q.hash /\ r.seq = q.seq + 1
<1>1. PICK last \in rows \cup {NoRow} : BuiltOn(r, last)
  BY DEF ChainInv, RowsBuilt
<1>2. r.prev = last.hash /\ r.hash = Hash(last.seq + 1, r.key, last.hash)
  BY <1>1 DEF BuiltOn
<1>3. q.hash = last.hash => q = last
  BY HashUnique
<1> QED BY <1>2, <1>3, HashInjective

LEMMA HashMismatchTells ==
  ASSUME ChainInv, NEW r \in rows
  PROVE  ~HashMismatch(r) <=>
           \E q \in rows \cup {NoRow} : r.prev = q.hash /\ r.seq = q.seq + 1
<1>1. \E last \in rows \cup {NoRow} : r.prev = last.hash
  BY DEF ChainInv, RowsBuilt, BuiltOn
<1> QED BY <1>1, HashTells DEF HashMismatch

LEMMA PrecedingRow ==
  ASSUME ChainInv, NEW S \in SUBSET rows, NEW row \in S
  PROVE  /\ Before(S, row) = {} => Preceding(S, row) = NoRow
         /\ Before(S, row) # {} =>
              /\ Preceding(S, row) \in S
              /\ Preceding(S, row).seq < row.seq
         /\ Preceding(S, row) \in rows \cup {NoRow}
         /\ \A q \in S : q.seq + 1 = row.seq => Preceding(S, row) = q
<1>1. Before(S, row) = {} => Preceding(S, row) = NoRow
  BY DEF Preceding, Latest
<1>2. ASSUME Before(S, row) # {}
      PROVE  /\ Preceding(S, row) \in S
             /\ Preceding(S, row).seq < row.seq
  <2>1. Before(S, row) \in SUBSET rows
    BY DEF Before
  <2>2. Preceding(S, row) \in Before(S, row)
    BY <1>2, <2>1, LatestMember DEF ChainInv, Preceding
  <2> QED BY <2>2 DEF Before
<1>3. ASSUME NEW q \in S, q.seq + 1 = row.seq
      PROVE  Preceding(S, row) = q
  <2>1. q \in Before(S, row)
    BY <1>3, RowTypes DEF Before
  <2>2. \A r \in Before(S, row) : r.seq <= q.seq /\ r.seq \in Nat
    BY <1>3, RowTypes DEF Before
  <2>3. \A r \in Before(S, row) : r.seq = q.seq => r = q
    BY DEF Before, ChainInv, NumbersUnique
  <2> QED BY <2>1, <2>2, <2>3, LatestIs DEF Preceding
<1> QED BY <1>1, <1>2, <1>3

LEMMA VerifierVerdict ==
  ASSUME ChainInv, NEW S \in SUBSET rows, NEW row \in S
  PROVE  row \in Violations(S) <=> ~InOrder(S, row)
<1> DEFINE P == Preceding(S, row)
<1>1. P \in rows \cup {NoRow} /\ P.seq \in Nat
  BY PrecedingRow, RowTypes
<1>2. row.seq = 1 => P = NoRow /\ Before(S, row) = {}
  <2>1. row.seq = 1 => Before(S, row) = {}
    BY RowTypes DEF Before
  <2> QED BY <2>1, PrecedingRow
<1>3. ASSUME InOrder(S, row) PROVE row \notin Violations(S)
  <2>1. row.prev = P.hash /\ row.seq = P.seq + 1
    BY <1>3 DEF InOrder
  <2>2. ~SequenceGap(S, row)
    BY <2>1 DEF SequenceGap
  <2>3. ~ChainBreak(S, row)
    BY <1>2, <2>1, RowTypes DEF ChainBreak
  <2>4. ~HashMismatch(row)
    BY <1>1, <2>1, HashMismatchTells
  <2> QED BY <2>2, <2>3, <2>4 DEF Violations
<1>4. ASSUME row \notin Violations(S) PROVE InOrder(S, row)
  <2>1. ~ChainBreak(S, row) /\ ~HashMismatch(row)
    BY <1>4 DEF Violations
  <2>2. row.prev = P.hash
    BY <1>2, <2>1, RowTypes DEF ChainBreak
  <2>3. PICK q \in rows \cup {NoRow} : row.prev = q.hash /\ row.seq = q.seq + 1
    BY <2>1, HashMismatchTells
  <2>4. P = q
    BY <1>1, <2>2, <2>3, HashUnique
  <2> QED BY <2>2, <2>3, <2>4 DEF InOrder
<1> QED BY <1>3, <1>4

LEMMA ExportVerdict ==
  ASSUME ChainInv, NEW S \in SUBSET rows, NEW row \in S
  PROVE  row \in Replayed(S) <=> ~InOrder(S, row)
  BY PrecedingRow, HashTells DEF Replayed, InOrder

LEMMA ViewVerdict ==
  ASSUME ChainInv, NEW row \in rows
  PROVE  row \in Broken(rows) <=> ~InOrder(rows, row)
<1> DEFINE P == Preceding(rows, row)
<1>1. P \in rows \cup {NoRow} /\ P.seq \in Nat
  BY PrecedingRow, RowTypes
<1>2. ASSUME InOrder(rows, row) PROVE row \notin Broken(rows)
  <2>1. CASE P \in rows
    BY <1>2, <2>1 DEF InOrder, Broken
  <2>2. CASE P = NoRow
    BY <1>2, <2>2, RowTypes DEF InOrder, Broken
  <2> QED BY <1>1, <2>1, <2>2
<1>3. ASSUME row \notin Broken(rows) PROVE InOrder(rows, row)
  <2>1. CASE row.prev = Genesis /\ row.seq = 1
    <3>1. P = NoRow
      BY <2>1, RowTypes, PrecedingRow DEF Before
    <3> QED BY <2>1, <3>1, RowTypes DEF InOrder
  <2>2. ASSUME NEW q \in rows, q.seq + 1 = row.seq, q.hash = row.prev
        PROVE  InOrder(rows, row)
    BY <2>2, PrecedingRow DEF InOrder
  <2> QED BY <1>3, <2>1, <2>2 DEF Broken
<1> QED BY <1>2, <1>3

(* `verify_chain` of the kernel, view `ledger_chain_audit` and the replay  *)
(* of the audit export condemn the same entries of whatever ledger the     *)
(* appends have left, and the two that can the same of any part of it.     *)
THEOREM AuditsAlwaysAgree == Spec => []AuditsAgree
<1>1. ASSUME ChainInv PROVE Violations(rows) = Broken(rows)
  <2>1. Violations(rows) \subseteq rows /\ Broken(rows) \subseteq rows
    BY DEF Violations, Broken
  <2> QED BY <1>1, <2>1, VerifierVerdict, ViewVerdict
<1>2. ASSUME ChainInv, NEW S \in Parts PROVE Replayed(S) = Violations(S)
  <2>1. S \in SUBSET rows
    BY DEF Parts
  <2>2. Violations(S) \subseteq S /\ Replayed(S) \subseteq S
    BY DEF Violations, Replayed
  <2> QED BY <1>2, <2>1, <2>2, VerifierVerdict, ExportVerdict
<1>3. ChainInv => AuditsAgree
  BY <1>1, <1>2 DEF AuditsAgree
<1> QED BY <1>3, ChainInvariant, PTL

-------------------------------------------------------------------------------
(* When everything is in order.                                            *)

LEMMA Contiguous ==
  ASSUME NEW N \in SUBSET (Nat \ {0}), NEW bound \in Nat,
         \A n \in N : n <= bound /\ (n = 1 \/ n - 1 \in N)
  PROVE  N = 1..Cardinality(N)
<1>1. CASE N = {}
  BY <1>1, FS_EmptySet
<1>2. CASE N # {}
  <2>1. PICK greatest \in N : \A n \in N : n <= greatest
    BY <1>2, GreatestExists
  <2> DEFINE Missing == {k \in 1..greatest : k \notin N}
  <2>2. Missing = {}
    <3> SUFFICES ASSUME Missing # {} PROVE FALSE
      OBVIOUS
    <3>1. Missing \in SUBSET Nat /\ \A k \in Missing : k <= greatest
      OBVIOUS
    <3>2. PICK last \in Missing : \A k \in Missing : k <= last
      <4> HIDE DEF Missing
      <4> QED BY <3>1, GreatestExists
    <3>3. last + 1 \in 1..greatest /\ last + 1 \notin Missing
      BY <3>2
    <3>4. last + 1 \in N /\ last + 1 # 1 /\ (last + 1) - 1 = last
      BY <3>3
    <3> QED BY <3>4
  <2>3. N = 1..greatest
    <3>1. \A k \in 1..greatest : k \in N
      BY <2>2
    <3>2. \A n \in N : n \in 1..greatest
      BY <2>1
    <3> QED BY <3>1, <3>2
  <2>4. Cardinality(1..greatest) = greatest
    BY FS_Interval
  <2> QED BY <2>3, <2>4
<1> QED BY <1>1, <1>2

LEMMA NumbersCount ==
  ASSUME ChainInv, NEW S \in SUBSET rows
  PROVE  Cardinality({r.seq : r \in S}) = Cardinality(S)
<1> DEFINE N == {r.seq : r \in S}
           f == [r \in S |-> r.seq]
<1>1. f \in [S -> N] /\ \A n \in N : \E r \in S : f[r] = n
  OBVIOUS
<1>2. \A r, s \in S : f[r] = f[s] => r = s
  BY DEF ChainInv, NumbersUnique
<1>3. f \in Bijection(S, N)
  <2> HIDE DEF f, N
  <2>1. f \in Injection(S, N)
    BY <1>1, <1>2, Fun_IsInj
  <2>2. f \in Surjection(S, N)
    BY <1>1, Fun_IsSurj
  <2> QED BY <2>1, <2>2 DEF Bijection
<1>4. ExistsBijection(S, N)
  BY <1>3 DEF ExistsBijection
<1>5. IsFiniteSet(S)
  BY FS_Subset DEF ChainInv, Shape
<1> QED BY <1>4, <1>5, FS_Bijection

LEMMA AllInOrderIsPrefix ==
  ASSUME ChainInv, NEW S \in SUBSET rows, \A row \in S : InOrder(S, row)
  PROVE  S = {row \in rows : row.seq <= Cardinality(S)}
<1> DEFINE N == {r.seq : r \in S}
<1>1. N \in SUBSET (Nat \ {0}) /\ sequence \in Nat
  BY RowTypes DEF ChainInv, Shape
<1>2. ASSUME NEW row \in S
      PROVE  row.seq <= sequence /\ (row.seq = 1 \/ row.seq - 1 \in N)
  <2>1. row.seq <= sequence /\ row.seq = Preceding(S, row).seq + 1
    BY DEF InOrder, ChainInv, Shape
  <2>2. CASE Before(S, row) = {}
    BY <2>1, <2>2, PrecedingRow, RowTypes
  <2>3. CASE Before(S, row) # {}
    <3>1. Preceding(S, row) \in S
      BY <2>3, PrecedingRow
    <3>2. Preceding(S, row).seq \in N /\ Preceding(S, row).seq \in Nat
      BY <3>1, RowTypes
    <3>3. row.seq - 1 = Preceding(S, row).seq
      BY <2>1, <3>2
    <3> QED BY <2>1, <3>2, <3>3
  <2> QED BY <2>2, <2>3
<1>3. \A n \in N : n <= sequence /\ (n = 1 \/ n - 1 \in N)
  BY <1>2
<1>4. N = 1..Cardinality(S)
  <2> HIDE DEF N
  <2>1. N = 1..Cardinality(N)
    BY <1>1, <1>3, Contiguous
  <2> QED BY <2>1, NumbersCount DEF N
<1>5. \A row \in S : row.seq <= Cardinality(S)
  BY <1>4, RowTypes, FS_Subset, FS_CardinalityType DEF ChainInv, Shape
<1>6. ASSUME NEW row \in rows, row.seq <= Cardinality(S)
      PROVE  row \in S
  <2>1. Cardinality(S) \in Nat
    BY FS_Subset, FS_CardinalityType DEF ChainInv, Shape
  <2>2. row.seq \in N
    BY <1>4, <1>6, <2>1, RowTypes
  <2> QED BY <2>2 DEF ChainInv, NumbersUnique
<1> QED BY <1>5, <1>6

(* An audit of the rows of one aggregate or of one group passes only if    *)
(* they are the beginning of the ledger.                                   *)
THEOREM PartAuditIsPrefixAudit == Spec => []PartPassesOnlyAsPrefix
<1>1. ASSUME ChainInv, NEW S \in Parts
      PROVE  /\ Violations(S) = {} <=> Replayed(S) = {}
             /\ Violations(S) = {} =>
                  S = {row \in rows : row.seq <= Cardinality(S)}
  <2>1. S \in SUBSET rows
    BY DEF Parts
  <2>2. Violations(S) \subseteq S /\ Replayed(S) \subseteq S
    BY DEF Violations, Replayed
  <2>3. \A row \in S : /\ row \in Violations(S) <=> ~InOrder(S, row)
                       /\ row \in Replayed(S) <=> ~InOrder(S, row)
    BY <1>1, <2>1, VerifierVerdict, ExportVerdict
  <2>4. Violations(S) = {} => \A row \in S : InOrder(S, row)
    BY <2>3
  <2> QED BY <1>1, <2>1, <2>2, <2>3, <2>4, AllInOrderIsPrefix
<1>2. ChainInv => PartPassesOnlyAsPrefix
  BY <1>1 DEF PartPassesOnlyAsPrefix
<1> QED BY <1>2, ChainInvariant, PTL

(* Gaps and forks are the only damage appends can do to each other: the    *)
(* first row out of order was built on a row some earlier row was built on *)
(* as well.                                                                *)
THEOREM IntactWithoutGapOrFork == Spec => []IntactUnlessGapOrFork
<1>1. ASSUME ChainInv,
             {row.seq : row \in rows} = 1..Cardinality(rows),
             \A row, other \in rows : row.prev = other.prev => row = other
      PROVE  Violations(rows) = {}
  <2> DEFINE Bad == {r.seq : r \in {q \in rows : ~InOrder(rows, q)}}
  <2>1. Bad = {}
    <3> SUFFICES ASSUME Bad # {} PROVE FALSE
      OBVIOUS
    <3>1. Bad \in SUBSET Nat
      BY <1>1, RowTypes
    <3>2. PICK least \in Bad : \A k \in Bad : least <= k
      <4> HIDE DEF Bad
      <4> QED BY <3>1, LeastExists
    <3>3. PICK b \in rows : b.seq = least /\ ~InOrder(rows, b)
      BY <3>2
    <3>4. \A r \in rows : r.seq < b.seq => InOrder(rows, r)
      <4>1. ASSUME NEW r \in rows, ~InOrder(rows, r) PROVE r.seq \in Bad
        BY <4>1
      <4>2. ASSUME NEW r \in rows, ~InOrder(rows, r) PROVE b.seq <= r.seq
        BY <3>2, <3>3, <4>1, <4>2
      <4> QED BY <1>1, <4>2, RowTypes
    <3>5. PICK last \in rows \cup {NoRow} :
            b.prev = last.hash /\ last.seq < b.seq
      BY <1>1 DEF ChainInv, RowsBuilt, BuiltOn
    <3>6. CASE last.seq + 1 = b.seq
      <4>1. Preceding(rows, b) = last
        <5>1. CASE last \in rows
          BY <1>1, <3>6, <5>1, PrecedingRow
        <5>2. CASE last = NoRow
          <6>1. Before(rows, b) = {}
            BY <1>1, <3>6, <5>2, RowTypes DEF Before
          <6> QED BY <1>1, <5>2, <6>1, PrecedingRow
        <5> QED BY <5>1, <5>2
      <4> QED BY <3>3, <3>5, <3>6, <4>1 DEF InOrder
    <3>7. CASE last.seq + 1 < b.seq
      <4>1. b.seq \in 1..Cardinality(rows) /\ last.seq \in Nat
        BY <1>1, RowTypes
      <4>2. last.seq + 1 \in 1..Cardinality(rows)
        BY <1>1, <3>7, <4>1, FS_CardinalityType DEF ChainInv, Shape
      <4>3. PICK c \in rows : c.seq = last.seq + 1
        BY <1>1, <4>2
      <4>4. InOrder(rows, c)
        BY <3>4, <3>7, <4>3
      <4>5. Preceding(rows, c) = last
        <5>1. CASE last \in rows
          BY <1>1, <4>3, <5>1, PrecedingRow
        <5>2. CASE last = NoRow
          <6>1. Before(rows, c) = {}
            BY <1>1, <4>3, <5>2, RowTypes DEF Before
          <6> QED BY <1>1, <5>2, <6>1, PrecedingRow
        <5> QED BY <5>1, <5>2
      <4>6. c.prev = b.prev
        BY <3>5, <4>4, <4>5 DEF InOrder
      <4>7. c = b
        BY <1>1, <4>6
      <4> QED BY <3>7, <4>1, <4>3, <4>7
    <3> QED BY <1>1, <3>5, <3>6, <3>7, RowTypes
  <2>2. \A row \in rows : InOrder(rows, row)
    BY <2>1
  <2>3. Violations(rows) \subseteq rows
    BY DEF Violations
  <2> QED BY <1>1, <2>2, <2>3, VerifierVerdict
<1>2. ChainInv => IntactUnlessGapOrFork
  BY <1>1 DEF IntactUnlessGapOrFork
<1> QED BY <1>2, ChainInvariant, PTL

-------------------------------------------------------------------------------
(* One append at a time: what the doc of `append` needs.                   *)

(* What the lock of `append` is taken for.  It does not give it (the run   *)
(* LedgerFork): a waiter keeps the row it has read.  The theorems below    *)
(* have it as a hypothesis.                                                *)
OneAppender ==
  \A t, u \in Writers : pc[t] # "idle" /\ pc[u] # "idle" => t = u

(* What an append has read is still the end of the ledger, and its number  *)
(* comes after every number in use.                                        *)
TailsLatest ==
  /\ \A t \in Writers : pc[t] # "idle" => tail[t] = Latest(rows)
  /\ \A t \in Numbered : \A r \in rows : r.seq < draft[t].seq

(* What verify_chain reports is where a number was lost to a rollback, and *)
(* nothing else.                                                           *)
OnlyLostNumbersReported ==
  Violations(rows) =
    {row \in rows : row.seq # Preceding(rows, row).seq + 1}

(* With one append at a time, nobody commits between a SELECT and the      *)
(* INSERT that is built on it.                                             *)
LEMMA NextKeepsTails ==
  ASSUME ChainInv, OneAppender, TailsLatest, [Next]_vars
  PROVE  TailsLatest'
<1>1. ASSUME NEW t \in Writers, Leave(t),
             \/ rows' = rows
             \/ pc[t] = "inserted" /\ rows' = rows \cup {draft[t]}
      PROVE  TailsLatest'
  <2>1. pc'[t] = "idle"
    BY <1>1 DEF Leave, ChainInv, Shape
  <2>2. \A u \in Writers \ {t} :
          pc'[u] = pc[u] /\ tail'[u] = tail[u] /\ draft'[u] = draft[u]
    BY <1>1 DEF Leave, ChainInv, Shape
  <2>3. CASE rows' = rows
    BY <2>1, <2>2, <2>3 DEF TailsLatest, Numbered
  <2>4. CASE pc[t] = "inserted"
    <3>1. \A u \in Writers : pc'[u] = "idle"
      BY <2>1, <2>2, <2>4 DEF OneAppender
    <3> QED
      BY <3>1 DEF TailsLatest, Numbered
  <2> QED
    BY <1>1, <2>3, <2>4
<1>2. ASSUME NEW t \in Writers, NEW key \in EntryKeys, ReadTail(t, key)
      PROVE  TailsLatest'
  <2>1. tail'[t] = Latest(rows) /\ rows' = rows /\ t \notin Numbered'
    BY <1>2 DEF ReadTail, Visible, ChainInv, Shape, Numbered
  <2>2. \A u \in Writers \ {t} :
          pc'[u] = pc[u] /\ tail'[u] = tail[u] /\ draft'[u] = draft[u]
    BY <1>2 DEF ReadTail, ChainInv, Shape
  <2> QED
    BY <2>1, <2>2 DEF TailsLatest, Numbered
<1>3. ASSUME NEW t \in Writers, LockTail(t)
      PROVE  TailsLatest'
  <2>1. pc[t] = "wait" /\ pc'[t] = "read"
        /\ UNCHANGED <<rows, tail, draft>>
    BY <1>3 DEF LockTail, ChainInv, Shape
  <2>2. \A u \in Writers \ {t} : pc'[u] = pc[u]
    BY <1>3 DEF LockTail, ChainInv, Shape
  <2> QED
    BY <2>1, <2>2 DEF TailsLatest, Numbered
<1>4. ASSUME NEW t \in Writers, TakeNumber(t)
      PROVE  TailsLatest'
  <2>1. /\ pc[t] = "read" /\ rows' = rows /\ tail' = tail
        /\ draft'[t].seq = sequence + 1
    BY <1>4 DEF TakeNumber, BuildRow, ChainInv, Shape
  <2>2. \A u \in Writers \ {t} : pc'[u] = pc[u] /\ draft'[u] = draft[u]
    BY <1>4 DEF TakeNumber, ChainInv, Shape
  <2>3. \A r \in rows : r.seq < draft'[t].seq
    BY <2>1 DEF ChainInv, Shape
  <2> QED
    BY <2>1, <2>2, <2>3 DEF TailsLatest, Numbered
<1>5. ASSUME NEW t \in Writers, InsertRow(t)
      PROVE  TailsLatest'
  <2>1. pc[t] = "numbered" /\ pc'[t] = "inserted"
        /\ UNCHANGED <<rows, tail, draft>>
    BY <1>5 DEF InsertRow, ChainInv, Shape
  <2>2. \A u \in Writers \ {t} : pc'[u] = pc[u]
    BY <1>5 DEF InsertRow, ChainInv, Shape
  <2> QED
    BY <2>1, <2>2 DEF TailsLatest, Numbered
<1>6. CASE UNCHANGED vars
  BY <1>6 DEF vars, TailsLatest, Numbered
<1> QED
  BY <1>1, <1>2, <1>3, <1>4, <1>5, <1>6
  DEF Next, Advance, InsertDuplicate, Commit, Rollback

(* A row that is committed last, on the latest one, is chained to the one  *)
(* that precedes it, and changes the predecessor of no other.              *)
LEMMA NextKeepsChained ==
  ASSUME ChainInv, ChainInv', TailsLatest, ChainedToPreceding, [Next]_vars
  PROVE  ChainedToPreceding'
<1>1. CASE rows' = rows
  BY <1>1 DEF ChainedToPreceding, Preceding, Before
<1>2. ASSUME NEW t \in Writers, Commit(t)
      PROVE  ChainedToPreceding'
  <2> DEFINE d == draft[t]
  <2>1. t \in Numbered /\ pc[t] # "idle" /\ rows' = rows \cup {d}
    BY <1>2 DEF Commit, Numbered
  <2>2. d.prev = Latest(rows).hash /\ \A r \in rows : r.seq < d.seq
    BY <2>1 DEF ChainInv, DraftsBuilt, BuiltOn, TailsLatest
  <2>3. \A r \in rows' : r.seq \in Nat
    BY RowTypes DEF ChainInv, Shape
  <2>4. Before(rows', d) = rows
    BY <2>1, <2>2, <2>3 DEF Before
  <2>5. \A r \in rows : Before(rows', r) = Before(rows, r)
    BY <2>1, <2>2, <2>3 DEF Before
  <2> HIDE DEF d
  <2>6. \A r \in rows' : r.prev = Preceding(rows', r).hash
    BY <2>1, <2>2, <2>4, <2>5 DEF ChainedToPreceding, Preceding
  <2> QED
    BY <2>6 DEF ChainedToPreceding, Preceding, Before
<1> QED
  BY <1>1, <1>2
  DEF vars, Next, ReadTail, Advance, LockTail, TakeNumber, InsertRow,
      InsertDuplicate, Rollback

(* Doc of `append`: were the appends one at a time, prev_hash would always *)
(* be the current_hash of the preceding entry.                             *)
THEOREM OneAppenderChainsToPreceding ==
  Spec /\ []OneAppender => []ChainedToPreceding
<1>1. Init => TailsLatest /\ ChainedToPreceding
  BY DEF Init, TailsLatest, Numbered, ChainedToPreceding
<1>2. ChainInv /\ OneAppender /\ TailsLatest /\ [Next]_vars => TailsLatest'
  BY NextKeepsTails
<1>3. ChainInv /\ ChainInv' /\ TailsLatest /\ ChainedToPreceding /\ [Next]_vars
        => ChainedToPreceding'
  BY NextKeepsChained
<1> QED
  BY <1>1, <1>2, <1>3, ChainInvariant, PTL DEF Spec

(* verify_chain on a ledger whose appends were one at a time: an entry is  *)
(* condemned exactly where a rolled back append has taken a number with    *)
(* it, so a ledger without a missing number is reported intact.            *)
THEOREM OneAppenderLeavesOnlyGaps ==
  Spec /\ []OneAppender => []OnlyLostNumbersReported
<1>1. ChainInv /\ ChainedToPreceding => OnlyLostNumbersReported
  <2> SUFFICES ASSUME ChainInv, ChainedToPreceding
               PROVE  OnlyLostNumbersReported
    OBVIOUS
  <2>1. Violations(rows) \subseteq rows
    BY DEF Violations
  <2>2. \A row \in rows :
          row \in Violations(rows)
            <=> row.seq # Preceding(rows, row).seq + 1
    BY VerifierVerdict DEF InOrder, ChainedToPreceding
  <2> QED
    BY <2>1, <2>2 DEF OnlyLostNumbersReported
<1> QED
  BY <1>1, ChainInvariant, OneAppenderChainsToPreceding, PTL

===============================================================================
