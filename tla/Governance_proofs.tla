-------------------------- MODULE Governance_proofs --------------------------
(***************************************************************************)
(* Theorems about the governance of a group, for any members, proposals,   *)
(* quorums and any number of requests whose reads and writes interleave.   *)
(*                                                                         *)
(* Writes check nothing that was read.  GovInv says what of a stale read   *)
(* is still true when it is written: versions, bases and quorums are never *)
(* changed once a configuration exists, votes met a quorum when they were  *)
(* counted, and the rest is up to the two unique indexes.                  *)
(***************************************************************************)
EXTENDS Governance, NaturalFacts

Exists(c) == configs[c].state # "none"

Submitted(p) == proposals[p].status # "none"

Resolving(t) == pc[t] \in {"vote", "approve", "reject"}

States == {"none", "review", "committed", "superseded"}

Statuses == {"none", "open", "approved", "rejected"}

ConfigRows ==
  [state: States, version: Nat, quorum: Quorums \cup {100}, prev: ConfigIds]

ProposalRows == [status: Statuses, base: ConfigIds, votes: SUBSET Votes]

Seen == [proposal: ConfigIds, base: ConfigIds, version: Nat,
         quorum: Quorums \cup {100}, votes: SUBSET Votes]

Shape ==
  /\ active \in ConfigIds
  /\ configs \in [ConfigIds -> ConfigRows]
  /\ proposals \in [Proposals -> ProposalRows]
  /\ pc \in [Requests -> {"idle", "draft", "insert", "vote", "approve", "reject"}]
  /\ seen \in [Requests -> Seen]
  /\ reached \subseteq Proposals

(* Proposals and configurations refer to rows that exist.                  *)
Referenced ==
  /\ Exists(Base) /\ Exists(active)
  /\ \A p \in Proposals :
       /\ Submitted(p) <=> Exists(p)
       /\ Submitted(p) => /\ Exists(proposals[p].base)
                          /\ configs[p].prev = proposals[p].base
  /\ \A t \in Requests :
       /\ pc[t] \in {"draft", "insert"} => Exists(seen[t].base)
       /\ Resolving(t) => seen[t].proposal \in Proposals
                          /\ Submitted(seen[t].proposal)
       /\ pc[t] = "approve" =>
            seen[t].base = proposals[seen[t].proposal].base

Used == {p \in Proposals : Exists(p)}

(* Each configuration adds one to the highest version at most.             *)
VersionsBounded ==
  /\ IsFiniteSet(Used)
  /\ \A c \in ConfigIds : configs[c].version <= Cardinality(Used) + 1
  /\ \A t \in Requests : seen[t].version <= Cardinality(Used) + 2

(* What a version read by a request is above of, and stays above of.       *)
VersionsKept ==
  /\ \A c \in ConfigIds : Exists(c) <=> configs[c].version # 0
  /\ \A t \in Requests : pc[t] = "insert" =>
       configs[seen[t].base].version < seen[t].version

SingleVotes(votes) ==
  IsFiniteSet(votes) /\ \A v, w \in votes : v.voter = w.voter => v = w

VotesSingle ==
  /\ \A p \in Proposals : SingleVotes(proposals[p].votes)
  /\ \A t \in Requests : SingleVotes(seen[t].votes)

(* Votes that meet the quorum are remembered, and an approval under way is *)
(* of a proposal that had them.                                            *)
QuorumKept ==
  /\ \A p \in Proposals :
       Submitted(p) /\ MeetsQuorum(proposals[p].votes, BaseOf(p).quorum) =>
         p \in reached
  /\ \A t \in Requests : pc[t] = "approve" => seen[t].proposal \in reached
  /\ ActiveHadQuorum

GovInv ==
  /\ Shape
  /\ Referenced
  /\ VersionsBounded
  /\ VersionsKept
  /\ VersionsOrdered
  /\ VotesSingle
  /\ CommittedIsActive

-------------------------------------------------------------------------------

LEMMA WithState ==
  ASSUME NEW row \in ConfigRows, NEW state \in States
  PROVE  [row EXCEPT !.state = state] \in ConfigRows
  BY DEF ConfigRows

LEMMA WithStatus ==
  ASSUME NEW row \in ProposalRows, NEW status \in Statuses
  PROVE  [row EXCEPT !.status = status] \in ProposalRows
  BY DEF ProposalRows

USE DEF ConfigRows, ProposalRows, States, Statuses

LEMMA InitGovInv == Init => GovInv
<1> SUFFICES ASSUME Init PROVE GovInv
  OBVIOUS
<1> USE GovernanceAssumption DEF Init
<1>1. PICK quorum \in Quorums :
        configs = [c \in ConfigIds |->
          IF c = Base THEN [state |-> "committed", version |-> 1,
                            quorum |-> quorum, prev |-> Base]
          ELSE NoConfig]
  OBVIOUS
<1>2. Shape
  BY <1>1 DEF Shape, Seen, ConfigIds, NoConfig, NoProposal, NotSeen
<1>3. Used = {} /\ Cardinality(Used) = 0 /\ IsFiniteSet(Used)
  <2>1. Used = {}
    BY <1>1 DEF Used, Exists, ConfigIds, NoConfig
  <2> QED BY <2>1, FS_EmptySet
<1>4. Referenced
  BY <1>1 DEF Referenced, Exists, Submitted, Resolving, ConfigIds, NoConfig, NoProposal
<1>5. VersionsBounded
  BY <1>1, <1>3 DEF VersionsBounded, NoConfig, NotSeen
<1>6. VersionsKept /\ VersionsOrdered
  BY <1>1 DEF VersionsKept, VersionsOrdered, Exists, ConfigIds, NoConfig
<1>7. VotesSingle
  BY FS_EmptySet DEF VotesSingle, SingleVotes, NoProposal, NotSeen
<1>8. CommittedIsActive
  BY <1>1 DEF CommittedIsActive, NoConfig
<1> QED BY <1>2, <1>4, <1>5, <1>6, <1>7, <1>8 DEF GovInv

-------------------------------------------------------------------------------
(* Reads.                                                                  *)

(* `SELECT COALESCE(MAX(version), 0) + 1`.                                 *)
LEMMA NextVersionAbove ==
  ASSUME GovInv
  PROVE  /\ NextVersion \in Nat
         /\ NextVersion <= Cardinality(Used) + 2
         /\ \A c \in ConfigIds : configs[c].version < NextVersion
<1> DEFINE V == {configs[c].version : c \in ConfigIds}
<1>1. V \in SUBSET Nat
  BY DEF GovInv, Shape
<1>2. V # {}
  BY DEF ConfigIds
<1>3. Cardinality(Used) \in Nat /\ Cardinality(Used) + 1 \in Nat
  BY FS_CardinalityType DEF GovInv, VersionsBounded
<1>4. \A k \in V : k <= Cardinality(Used) + 1
  BY DEF GovInv, VersionsBounded
<1> HIDE DEF V
<1>5. PICK greatest \in V : \A k \in V : k <= greatest
  BY <1>1, <1>2, <1>3, <1>4, GreatestExists
<1>6. Max(V) \in V /\ \A k \in V : Max(V) >= k
  <2>1. \A k \in V : greatest >= k
    BY <1>1, <1>5
  <2> QED BY <2>1 DEF Max
<1>7. NextVersion = Max(V) + 1
  BY DEF NextVersion, V
<1>8. Max(V) \in Nat /\ Max(V) <= Cardinality(Used) + 1
  BY <1>1, <1>4, <1>6
<1>9. ASSUME NEW c \in ConfigIds PROVE configs[c].version < NextVersion
  <2>1. configs[c].version \in V
    BY DEF V
  <2>2. configs[c].version \in Nat /\ Max(V) >= configs[c].version
    BY <1>1, <1>6, <2>1
  <2> QED BY <1>7, <1>8, <2>2
<1> QED BY <1>3, <1>7, <1>8, <1>9

(* What a request decides is right when it decides.                        *)
Sound(write, what) ==
  /\ write \in {"draft", "vote", "approve", "reject"}
  /\ what \in Seen
  /\ what.version <= Cardinality(Used) + 2
  /\ SingleVotes(what.votes)
  /\ write = "draft" => Exists(what.base)
  /\ write # "draft" => what.proposal \in Proposals /\ Submitted(what.proposal)
  /\ write = "approve" => what.base = proposals[what.proposal].base

LEMMA NotSeenSound ==
  NotSeen \in Seen /\ NotSeen.version = 0 /\ NotSeen.votes = {}
  BY DEF NotSeen, Seen, ConfigIds

LEMMA CreateIsSound ==
  ASSUME GovInv, NEW t \in Requests, NEW quorum \in Quorums,
         CreateProposal(t, quorum)
  PROVE  \E what : Sound("draft", what) /\ Decide(t, "draft", what)
<1> DEFINE what == [NotSeen EXCEPT !.base = active, !.quorum = quorum]
<1>1. Decide(t, "draft", what)
  BY DEF CreateProposal
<1>2. /\ what \in Seen /\ what.version = 0 /\ what.votes = {}
      /\ what.base = active
  BY DEF NotSeen, Seen, ConfigIds, GovInv, Shape
<1>3. SingleVotes({})
  BY FS_EmptySet DEF SingleVotes
<1>4. Exists(active) /\ active \in ConfigIds
  BY DEF GovInv, Referenced, Shape
<1>5. Cardinality(Used) \in Nat
  BY FS_CardinalityType DEF GovInv, VersionsBounded
<1> HIDE DEF what
<1> QED BY <1>1, <1>2, <1>3, <1>4, <1>5 DEF Sound

LEMMA VoteIsSound ==
  ASSUME GovInv, NEW t \in Requests, NEW p \in Proposals,
         NEW voter \in Governors, NEW decision \in Decisions,
         CastVote(t, p, voter, decision)
  PROVE  \E what : Sound("vote", what) /\ Decide(t, "vote", what)
<1> DEFINE vote  == [voter |-> voter, decision |-> decision]
           votes == proposals[p].votes \cup {vote}
           what  == [NotSeen EXCEPT !.proposal = p, !.votes = votes]
<1>1. Decide(t, "vote", what)
  BY DEF CastVote
<1>2. votes \in SUBSET Votes
  BY DEF Votes, GovInv, Shape
<1>3. what \in Seen /\ what.version = 0 /\ what.votes = votes /\ what.proposal = p
  BY <1>2 DEF NotSeen, Seen, ConfigIds
<1>4. SingleVotes(votes)
  <2>1. IsFiniteSet(votes)
    BY FS_AddElement DEF GovInv, VotesSingle, SingleVotes
  <2>2. \A v \in proposals[p].votes : v.voter # voter
    BY DEF CastVote, Voted
  <2> QED BY <2>1, <2>2 DEF GovInv, VotesSingle, SingleVotes
<1>5. Submitted(p)
  BY DEF CastVote, OpenProposals, Submitted
<1>6. Cardinality(Used) \in Nat
  BY FS_CardinalityType DEF GovInv, VersionsBounded
<1> HIDE DEF what, votes
<1> QED BY <1>1, <1>3, <1>4, <1>5, <1>6 DEF Sound

LEMMA ResolveIsSound ==
  ASSUME GovInv, NEW t \in Requests, NEW p \in Proposals, ResolveProposal(t, p)
  PROVE  \E write \in {"approve", "reject"}, what \in Seen :
           /\ Sound(write, what) /\ Decide(t, write, what)
           /\ write = Outcome(proposals[p].votes, BaseOf(p).quorum)
           /\ what.proposal = p
<1> DEFINE write == Outcome(proposals[p].votes, BaseOf(p).quorum)
           what  == [NotSeen EXCEPT !.proposal = p, !.base = proposals[p].base]
<1>1. write \in {"approve", "reject"} /\ Decide(t, write, what)
  BY DEF ResolveProposal, Outcome
<1>2. /\ what \in Seen /\ what.version = 0 /\ what.votes = {}
      /\ what.proposal = p /\ what.base = proposals[p].base
  BY DEF NotSeen, Seen, ConfigIds, GovInv, Shape
<1>3. SingleVotes({})
  BY FS_EmptySet DEF SingleVotes
<1>4. Submitted(p)
  BY DEF ResolveProposal, OpenProposals, Submitted
<1>5. Cardinality(Used) \in Nat
  BY FS_CardinalityType DEF GovInv, VersionsBounded
<1>6. write = Outcome(proposals[p].votes, BaseOf(p).quorum)
  OBVIOUS
<1> HIDE DEF what, write
<1>7. Sound(write, what)
  BY <1>1, <1>2, <1>3, <1>4, <1>5 DEF Sound
<1> QED BY <1>1, <1>2, <1>6, <1>7

LEMMA DecideStep ==
  ASSUME GovInv, NEW t \in Requests, NEW write, NEW what,
         Sound(write, what), Decide(t, write, what)
  PROVE  GovInv'
<1> USE DEF GovInv
<1>1. /\ pc' = [pc EXCEPT ![t] = write] /\ seen' = [seen EXCEPT ![t] = what]
      /\ UNCHANGED <<active, configs, proposals, reached>>
  BY DEF Decide
<1>2. Shape'
  BY <1>1 DEF Shape, Sound, Seen
<1>3. \A u \in Requests :
        \/ pc'[u] = pc[u] /\ seen'[u] = seen[u]
        \/ u = t /\ pc'[u] = write /\ seen'[u] = what
  BY <1>1 DEF Shape
<1>4. Referenced'
  BY <1>1, <1>3 DEF Referenced, Sound, Exists, Submitted, Resolving
<1>5. VersionsBounded'
  BY <1>1, <1>3 DEF VersionsBounded, Sound, Used, Exists
<1>6. VersionsKept' /\ VersionsOrdered'
  BY <1>1, <1>3 DEF VersionsKept, VersionsOrdered, Sound, Exists
<1>7. VotesSingle'
  BY <1>1, <1>3 DEF VotesSingle, Sound, SingleVotes
<1>8. CommittedIsActive'
  BY <1>1 DEF CommittedIsActive
<1> QED BY <1>2, <1>4, <1>5, <1>6, <1>7, <1>8

(* The number a draft reads is above every version there is, that of its   *)
(* base included, superseded or not.                                       *)
LEMMA VersionStep ==
  ASSUME GovInv, NEW t \in Requests, ReadNextVersion(t)
  PROVE  GovInv'
<1> USE DEF GovInv
<1> DEFINE what == [seen[t] EXCEPT !.version = NextVersion]
<1>1. /\ pc[t] = "draft" /\ pc' = [pc EXCEPT ![t] = "insert"]
      /\ seen' = [seen EXCEPT ![t] = what]
      /\ UNCHANGED <<active, configs, proposals, reached>>
  BY DEF ReadNextVersion
<1>2. /\ what \in Seen /\ what.version = NextVersion
      /\ what.base = seen[t].base /\ what.votes = seen[t].votes
      /\ what.base \in ConfigIds
  <2>1. seen[t] \in Seen /\ NextVersion \in Nat
    BY NextVersionAbove DEF Shape
  <2> HIDE DEF NextVersion
  <2> QED BY <2>1 DEF Seen
<1>3. Exists(what.base)
  BY <1>1, <1>2 DEF Referenced
<1> HIDE DEF what
<1>4. \A u \in Requests :
        \/ u # t /\ pc'[u] = pc[u] /\ seen'[u] = seen[u]
        \/ u = t /\ pc'[u] = "insert" /\ seen'[u] = what
  BY <1>1 DEF Shape
<1>5. Shape'
  BY <1>1, <1>2 DEF Shape, Seen
<1>6. Referenced'
  BY <1>1, <1>3, <1>4 DEF Referenced, Exists, Submitted, Resolving
<1>7. VersionsBounded'
  <2>1. Used' = Used
    BY <1>1 DEF Used, Exists
  <2> QED BY <1>1, <1>2, <1>4, <2>1, NextVersionAbove DEF VersionsBounded
<1>8. VersionsKept' /\ VersionsOrdered'
  BY <1>1, <1>2, <1>4, NextVersionAbove
  DEF VersionsKept, VersionsOrdered, Exists
<1>9. VotesSingle' /\ CommittedIsActive'
  BY <1>1, <1>2, <1>4 DEF VotesSingle, SingleVotes, CommittedIsActive
<1> QED BY <1>5, <1>6, <1>7, <1>8, <1>9

-------------------------------------------------------------------------------
(* Writes.                                                                 *)

LEMMA LeaveSeen ==
  ASSUME GovInv, NEW t \in Requests, Leave(t)
  PROVE  /\ pc' \in [Requests ->
                     {"idle", "draft", "insert", "vote", "approve", "reject"}]
         /\ seen' \in [Requests -> Seen]
         /\ \A u \in Requests :
              \/ u # t /\ pc'[u] = pc[u] /\ seen'[u] = seen[u]
              \/ u = t /\ pc'[u] = "idle" /\ seen'[u] = NotSeen
         /\ SingleVotes(NotSeen.votes) /\ NotSeen.version = 0
<1>1. SingleVotes({})
  BY FS_EmptySet DEF SingleVotes
<1> QED BY <1>1, NotSeenSound DEF GovInv, Shape, Leave, Seen

LEMMA FailStep ==
  ASSUME GovInv, NEW t \in Requests, Fail(t)
  PROVE  GovInv'
<1> USE LeaveSeen DEF GovInv, Fail
<1>1. Shape'
  BY DEF Shape, Seen
<1>2. Referenced'
  BY DEF Referenced, Exists, Submitted, Resolving
<1>3. VersionsBounded'
  <2>1. Used' = Used /\ Cardinality(Used) \in Nat
    BY FS_CardinalityType DEF VersionsBounded, Used, Exists
  <2> QED BY <2>1 DEF VersionsBounded
<1>4. VersionsKept' /\ VersionsOrdered'
  BY DEF VersionsKept, VersionsOrdered, Exists
<1>5. VotesSingle' /\ CommittedIsActive'
  BY DEF VotesSingle, SingleVotes, CommittedIsActive
<1> QED BY <1>1, <1>2, <1>3, <1>4, <1>5

(* The index on the version number makes the new one unique.               *)
LEMMA InsertStep ==
  ASSUME GovInv, NEW t \in Requests, NEW p \in Proposals, InsertProposal(t, p)
  PROVE  GovInv'
<1> USE GovernanceAssumption DEF GovInv
<1> DEFINE new == ProposedConfig(seen[t])
<1>1. /\ pc[t] = "insert" /\ Leave(t)
      /\ configs' = [configs EXCEPT ![p] = new]
      /\ proposals' = [proposals EXCEPT ![p] =
           [status |-> "open", base |-> seen[t].base, votes |-> {}]]
      /\ UNCHANGED <<active, reached>>
      /\ VersionFree(seen[t].version)
  BY DEF InsertProposal
<1>2. seen[t] \in Seen /\ p \in ConfigIds /\ p # Base
  BY DEF Shape, Seen, ConfigIds
<1>3. /\ new.state = "review" /\ new.version = seen[t].version
      /\ new.prev = seen[t].base
      /\ new \in ConfigRows
  BY <1>2 DEF ProposedConfig, Seen
<1> HIDE DEF new
<1>4. ~Submitted(p) /\ ~Exists(p)
  BY DEF InsertProposal, Submitted, Referenced
<1>5. /\ configs'[p] = new
      /\ \A c \in ConfigIds \ {p} : configs'[c] = configs[c]
      /\ proposals'[p] = [status |-> "open", base |-> seen[t].base, votes |-> {}]
      /\ \A q \in Proposals \ {p} : proposals'[q] = proposals[q]
  BY <1>1, <1>2 DEF Shape
<1>6. /\ Exists(seen[t].base) /\ seen[t].base \in ConfigIds \ {p}
      /\ configs[seen[t].base].version < seen[t].version
  BY <1>1, <1>2, <1>4 DEF Referenced, VersionsKept, Seen
<1>7. Shape'
  <2>1. configs' \in [ConfigIds -> ConfigRows]
    BY <1>1, <1>3 DEF Shape
  <2>2. proposals' \in [Proposals -> ProposalRows]
    BY <1>1, <1>6 DEF Shape
  <2> QED BY <1>1, <2>1, <2>2, LeaveSeen DEF Shape, Seen
<1>8. \A u \in Requests : pc'[u] # "idle" =>
        u # t /\ pc'[u] = pc[u] /\ seen'[u] = seen[u] /\ seen[u] \in Seen
  BY <1>1, LeaveSeen DEF Shape, Seen
<1>9. \A c \in ConfigIds : Exists(c)' <=> Exists(c) \/ c = p
  BY <1>3, <1>5 DEF Exists
<1>10. \A q \in Proposals : Submitted(q)' <=> Submitted(q) \/ q = p
  BY <1>5 DEF Submitted
<1>11. Referenced'
  <2>1. Exists(Base)' /\ Exists(active)'
    BY <1>1, <1>9 DEF Referenced, Shape, ConfigIds
  <2>2. ASSUME NEW q \in Proposals
        PROVE  /\ Submitted(q)' <=> Exists(q)'
               /\ Submitted(q)' => /\ Exists(proposals[q].base)'
                                   /\ configs'[q].prev = proposals'[q].base
    <3>1. q \in ConfigIds
      BY DEF ConfigIds
    <3>2. CASE q = p
      BY <1>3, <1>5, <1>6, <1>9, <1>10, <3>1, <3>2
    <3>3. CASE q # p
      <4>1. proposals[q].base \in ConfigIds
        BY DEF Shape
      <4> QED BY <1>5, <1>9, <1>10, <3>1, <3>3, <4>1 DEF Referenced
    <3> QED BY <3>2, <3>3
  <2>3. ASSUME NEW u \in Requests
        PROVE  /\ pc'[u] \in {"draft", "insert"} => Exists(seen[u].base)'
               /\ Resolving(u)' => seen'[u].proposal \in Proposals
                                   /\ Submitted(seen[u].proposal)'
               /\ pc'[u] = "approve" =>
                    seen'[u].base = proposals'[seen'[u].proposal].base
    <3>1. CASE pc'[u] = "idle"
      BY <3>1 DEF Resolving
    <3>2. CASE pc'[u] # "idle"
      <4>1. pc'[u] = pc[u] /\ seen'[u] = seen[u] /\ seen[u] \in Seen
        BY <1>8, <3>2
      <4>2. Resolving(u) => seen[u].proposal \in Proposals \ {p}
        BY <1>4 DEF Referenced
      <4> QED BY <1>5, <1>9, <1>10, <4>1, <4>2 DEF Referenced, Resolving, Seen
    <3> QED BY <3>1, <3>2
  <2> QED BY <2>1, <2>2, <2>3 DEF Referenced
<1>12. VersionsBounded'
  <2>1. Used' = Used \cup {p} /\ p \notin Used
    BY <1>4, <1>9 DEF Used, ConfigIds
  <2>2. /\ IsFiniteSet(Used') /\ Cardinality(Used) \in Nat
        /\ Cardinality(Used') = Cardinality(Used) + 1
    BY <2>1, FS_AddElement, FS_CardinalityType DEF VersionsBounded
  <2>3. seen[t].version <= Cardinality(Used) + 2
    BY DEF VersionsBounded
  <2>4. \A c \in ConfigIds : configs'[c].version <= Cardinality(Used') + 1
    <3> SUFFICES ASSUME NEW c \in ConfigIds
                 PROVE  configs'[c].version <= Cardinality(Used') + 1
      OBVIOUS
    <3>1. CASE c = p
      BY <1>2, <1>3, <1>5, <2>2, <2>3, <3>1 DEF Seen
    <3>2. CASE c # p
      BY <1>5, <2>2, <3>2 DEF VersionsBounded, Shape
    <3> QED BY <3>1, <3>2
  <2>5. \A u \in Requests : seen'[u].version <= Cardinality(Used') + 2
    <3> SUFFICES ASSUME NEW u \in Requests
                 PROVE  seen'[u].version <= Cardinality(Used') + 2
      OBVIOUS
    <3>1. seen'[u].version = 0 \/ seen'[u].version = seen[u].version
      BY <1>1, LeaveSeen
    <3>2. seen[u].version \in Nat
      BY DEF Shape, Seen
    <3> QED BY <2>2, <3>1, <3>2 DEF VersionsBounded
  <2> QED BY <2>2, <2>4, <2>5 DEF VersionsBounded
<1>13. VersionsKept'
  <2>1. \A c \in ConfigIds : Exists(c)' <=> configs'[c].version # 0
    BY <1>2, <1>3, <1>5, <1>6, <1>9 DEF VersionsKept, Shape, Seen
  <2>2. ASSUME NEW u \in Requests, pc'[u] = "insert"
        PROVE  configs'[seen'[u].base].version < seen'[u].version
    <3>1. pc[u] = "insert" /\ seen'[u] = seen[u] /\ seen[u] \in Seen
      BY <1>8, <2>2
    <3>2. seen[u].base \in ConfigIds \ {p}
      BY <1>4, <3>1 DEF Referenced, Seen
    <3> QED BY <1>5, <3>1, <3>2 DEF VersionsKept
  <2> QED BY <2>1, <2>2 DEF VersionsKept
<1>14. VersionsOrdered'
  <2>1. \A c \in ConfigIds : configs[c].version # new.version
    BY <1>1, <1>3 DEF VersionFree
  <2>2. ASSUME NEW c \in ConfigIds, Exists(c)'
        PROVE  /\ c # Base => configs'[configs'[c].prev].version < configs'[c].version
               /\ \A d \in ConfigIds \ {c} : configs'[d].version # configs'[c].version
    <3>1. CASE c = p
      BY <1>3, <1>5, <1>6, <2>1, <3>1
    <3>2. CASE c # p
      <4>1. Exists(c) /\ configs'[c] = configs[c]
        BY <1>5, <1>9, <2>2, <3>2
      <4>2. c # Base => configs[c].prev \in ConfigIds \ {p}
        <5>1. c # Base => c \in Proposals
          BY DEF ConfigIds
        <5>2. c # Base => Exists(configs[c].prev)
          BY <4>1, <5>1 DEF Referenced
        <5> QED BY <1>4, <5>2 DEF Shape
      <4> QED BY <1>5, <2>1, <4>1, <4>2 DEF VersionsOrdered, Exists
    <3> QED BY <3>1, <3>2
  <2> QED BY <2>2 DEF VersionsOrdered, Exists
<1>15. VotesSingle'
  <2>1. SingleVotes({})
    BY FS_EmptySet DEF SingleVotes
  <2> QED BY <1>1, <1>5, <2>1, LeaveSeen DEF VotesSingle
<1>16. CommittedIsActive'
  BY <1>1, <1>3, <1>5 DEF CommittedIsActive
<1> QED BY <1>7, <1>11, <1>12, <1>13, <1>14, <1>15, <1>16

(* The other writes create nothing, and change neither versions nor bases. *)
Preserves(t) ==
  /\ Leave(t)
  /\ Shape'
  /\ \A c \in ConfigIds :
       /\ configs'[c].version = configs[c].version
       /\ configs'[c].prev = configs[c].prev
       /\ configs'[c].quorum = configs[c].quorum
       /\ Exists(c)' <=> Exists(c)
  /\ \A p \in Proposals :
       /\ proposals'[p].base = proposals[p].base
       /\ proposals'[p].votes \in {proposals[p].votes, seen[t].votes}
       /\ Submitted(p)' <=> Submitted(p)
  /\ active' \in {active} \cup {p \in Proposals : Submitted(p)}

LEMMA PreservingStep ==
  ASSUME GovInv, NEW t \in Requests, Preserves(t), CommittedIsActive'
  PROVE  GovInv'
<1> USE DEF GovInv, Preserves
<1>1. \A u \in Requests : pc'[u] # "idle" =>
        u # t /\ pc'[u] = pc[u] /\ seen'[u] = seen[u] /\ seen[u] \in Seen
  BY LeaveSeen DEF Shape, Seen
<1>2. Referenced'
  <2>1. Exists(Base)' /\ Exists(active)'
    BY DEF Referenced, Shape, ConfigIds
  <2>2. ASSUME NEW q \in Proposals
        PROVE  /\ Submitted(q)' <=> Exists(q)'
               /\ Submitted(q)' => /\ Exists(proposals[q].base)'
                                   /\ configs'[q].prev = proposals'[q].base
    <3>1. q \in ConfigIds /\ proposals[q].base \in ConfigIds
      BY DEF ConfigIds, Shape
    <3> QED BY <3>1 DEF Referenced, Exists
  <2>3. ASSUME NEW u \in Requests
        PROVE  /\ pc'[u] \in {"draft", "insert"} => Exists(seen[u].base)'
               /\ Resolving(u)' => seen'[u].proposal \in Proposals
                                   /\ Submitted(seen[u].proposal)'
               /\ pc'[u] = "approve" =>
                    seen'[u].base = proposals'[seen'[u].proposal].base
    <3>1. CASE pc'[u] = "idle"
      BY <3>1 DEF Resolving
    <3>2. CASE pc'[u] # "idle"
      BY <1>1, <3>2 DEF Referenced, Resolving, Seen, Exists, Submitted
    <3> QED BY <3>1, <3>2
  <2> QED BY <2>1, <2>2, <2>3 DEF Referenced
<1>3. VersionsBounded'
  <2>1. Used' = Used /\ Cardinality(Used) \in Nat
    BY FS_CardinalityType DEF VersionsBounded, Used, ConfigIds
  <2> QED BY <2>1, LeaveSeen DEF VersionsBounded
<1>4. VersionsKept'
  BY <1>1 DEF VersionsKept, Seen
<1>5. VersionsOrdered'
  <2>1. \A c \in ConfigIds : configs[c].prev \in ConfigIds
    BY DEF Shape
  <2> QED BY <2>1 DEF VersionsOrdered, Exists
<1>6. VotesSingle'
  <2>1. \A p \in Proposals : SingleVotes(proposals'[p].votes)
    BY DEF VotesSingle
  <2>2. \A u \in Requests : SingleVotes(seen'[u].votes)
    BY LeaveSeen DEF VotesSingle
  <2> QED BY <2>1, <2>2 DEF VotesSingle, SingleVotes
<1> QED BY <1>2, <1>3, <1>4, <1>5, <1>6

LEMMA UpdateVotesPreserves ==
  ASSUME GovInv, NEW t \in Requests, UpdateVotes(t)
  PROVE  Preserves(t) /\ CommittedIsActive'
<1> USE DEF GovInv, UpdateVotes
<1>1. seen[t].proposal \in Proposals /\ seen[t].votes \in SUBSET Votes
  BY DEF Referenced, Resolving, Shape, Seen
<1>2. \A q \in Proposals :
        /\ proposals'[q].base = proposals[q].base
        /\ proposals'[q].status = proposals[q].status
        /\ proposals'[q].votes \in {proposals[q].votes, seen[t].votes}
  BY <1>1 DEF Shape
<1>3. Shape'
  <2>1. proposals' \in [Proposals -> ProposalRows]
    BY <1>1 DEF Shape
  <2>2. reached' \subseteq Proposals
    BY <1>1 DEF Shape
  <2> QED BY <2>1, <2>2, LeaveSeen DEF Shape, Seen
<1>4. CommittedIsActive'
  BY DEF CommittedIsActive
<1> QED BY <1>2, <1>3, <1>4 DEF Preserves, Exists, Submitted

(* The index on the committed configuration, with the base superseded,     *)
(* leaves no committed one but the new.                                    *)
LEMMA ApprovePreserves ==
  ASSUME GovInv, NEW t \in Requests, Approve(t)
  PROVE  Preserves(t) /\ CommittedIsActive'
<1> USE DEF GovInv
<1> DEFINE p == seen[t].proposal
           base == seen[t].base
<1>1. /\ pc[t] = "approve" /\ CommittedFree(p, base) /\ Leave(t)
      /\ proposals' = [proposals EXCEPT ![p].status = "approved"]
      /\ configs' = [configs EXCEPT ![base].state = "superseded",
                                    ![p].state = "committed"]
      /\ active' = p /\ reached' = reached
  BY DEF Approve
<1>2. /\ p \in Proposals /\ Submitted(p) /\ base = proposals[p].base
      /\ p \in ConfigIds /\ base \in ConfigIds
  BY <1>1 DEF Referenced, Resolving, Shape, ConfigIds
<1>3. Exists(p) /\ Exists(base)
  BY <1>2 DEF Referenced
<1> HIDE DEF p, base
<1>4. \A c \in ConfigIds :
        /\ configs'[c].version = configs[c].version
        /\ configs'[c].prev = configs[c].prev
        /\ configs'[c].quorum = configs[c].quorum
        /\ configs'[c].state = IF c = p THEN "committed"
                               ELSE IF c = base THEN "superseded"
                               ELSE configs[c].state
  BY <1>1, <1>2 DEF Shape
<1>5. \A q \in Proposals :
        /\ proposals'[q].base = proposals[q].base
        /\ proposals'[q].votes = proposals[q].votes
        /\ proposals'[q].status = IF q = p THEN "approved" ELSE proposals[q].status
  BY <1>1, <1>2 DEF Shape
<1>6. Shape'
  <2> HIDE DEF ConfigRows, ProposalRows, States, Statuses
  <2>1. configs' \in [ConfigIds -> ConfigRows]
    <3>1. configs \in [ConfigIds -> ConfigRows]
      BY DEF Shape
    <3>2. {"superseded", "committed"} \subseteq States
      BY DEF States
    <3>3. \A c \in ConfigIds, s \in {"superseded", "committed"} :
            [configs[c] EXCEPT !.state = s] \in ConfigRows
      BY <3>1, <3>2, WithState
    <3>4. [configs EXCEPT ![base].state = "superseded"]
            \in [ConfigIds -> ConfigRows]
      BY <1>2, <3>1, <3>3
    <3>5. \A s \in {"superseded", "committed"} :
            [[configs EXCEPT ![base].state = "superseded"][p] EXCEPT !.state = s]
              \in ConfigRows
      BY <1>2, <3>2, <3>4, WithState
    <3> QED BY <1>1, <1>2, <3>4, <3>5
  <2>2. proposals' \in [Proposals -> ProposalRows]
    <3>1. proposals \in [Proposals -> ProposalRows]
      BY DEF Shape
    <3>2. [proposals[p] EXCEPT !.status = "approved"] \in ProposalRows
      BY <1>2, <3>1, WithStatus DEF Statuses
    <3> QED BY <1>1, <1>2, <3>1, <3>2
  <2> QED BY <1>1, <1>2, <2>1, <2>2, LeaveSeen DEF Shape, Seen
<1>7. \A c \in ConfigIds : Exists(c)' <=> Exists(c)
  BY <1>3, <1>4 DEF Exists
<1>8. \A q \in Proposals : Submitted(q)' <=> Submitted(q)
  BY <1>2, <1>5 DEF Submitted
<1>9. CommittedIsActive'
  BY <1>1, <1>4 DEF CommittedIsActive, CommittedFree
<1> QED BY <1>1, <1>2, <1>4, <1>5, <1>6, <1>7, <1>8, <1>9 DEF Preserves

LEMMA RejectPreserves ==
  ASSUME GovInv, NEW t \in Requests, Reject(t)
  PROVE  Preserves(t) /\ CommittedIsActive'
<1> USE DEF GovInv
<1> DEFINE p == seen[t].proposal
<1>1. /\ pc[t] = "reject" /\ Leave(t)
      /\ proposals' = [proposals EXCEPT ![p].status = "rejected"]
      /\ configs' = [configs EXCEPT ![p].state = "superseded"]
      /\ UNCHANGED <<active, reached>>
  BY DEF Reject
<1>2. p \in Proposals /\ Submitted(p) /\ p \in ConfigIds
  BY <1>1 DEF Referenced, Resolving, Shape, ConfigIds
<1>3. Exists(p)
  BY <1>2 DEF Referenced
<1> HIDE DEF p
<1>4. \A c \in ConfigIds :
        /\ configs'[c].version = configs[c].version
        /\ configs'[c].prev = configs[c].prev
        /\ configs'[c].quorum = configs[c].quorum
        /\ configs'[c].state = IF c = p THEN "superseded" ELSE configs[c].state
  BY <1>1, <1>2 DEF Shape
<1>5. \A q \in Proposals :
        /\ proposals'[q].base = proposals[q].base
        /\ proposals'[q].votes = proposals[q].votes
        /\ proposals'[q].status = IF q = p THEN "rejected" ELSE proposals[q].status
  BY <1>1, <1>2 DEF Shape
<1>6. Shape'
  <2> HIDE DEF ConfigRows, ProposalRows, States, Statuses
  <2>1. configs' \in [ConfigIds -> ConfigRows]
    <3>1. configs \in [ConfigIds -> ConfigRows]
      BY DEF Shape
    <3>2. {"superseded", "committed"} \subseteq States
      BY DEF States
    <3>3. \A c \in ConfigIds, s \in {"superseded", "committed"} :
            [configs[c] EXCEPT !.state = s] \in ConfigRows
      BY <3>1, <3>2, WithState
    <3> QED BY <1>1, <1>2, <3>1, <3>3
  <2>2. proposals' \in [Proposals -> ProposalRows]
    <3>1. proposals \in [Proposals -> ProposalRows]
      BY DEF Shape
    <3>2. [proposals[p] EXCEPT !.status = "rejected"] \in ProposalRows
      BY <1>2, <3>1, WithStatus DEF Statuses
    <3> QED BY <1>1, <1>2, <3>1, <3>2
  <2> QED BY <1>1, <1>2, <2>1, <2>2, LeaveSeen DEF Shape, Seen
<1>7. \A c \in ConfigIds : Exists(c)' <=> Exists(c)
  BY <1>3, <1>4 DEF Exists
<1>8. \A q \in Proposals : Submitted(q)' <=> Submitted(q)
  BY <1>2, <1>5 DEF Submitted
<1>9. CommittedIsActive'
  BY <1>1, <1>4 DEF CommittedIsActive
<1> QED BY <1>1, <1>4, <1>5, <1>6, <1>7, <1>8, <1>9 DEF Preserves

LEMMA GovInvStep == GovInv /\ [Next]_vars => GovInv'
<1> SUFFICES ASSUME GovInv, [Next]_vars PROVE GovInv'
  OBVIOUS
<1>1. CASE UNCHANGED vars
  BY <1>1 DEF vars, GovInv, Shape, Referenced, Exists, Submitted, Resolving,
              VersionsBounded, Used, VersionsKept, VersionsOrdered, VotesSingle,
              SingleVotes, CommittedIsActive
<1>2. ASSUME NEW t \in Requests, Read(t) PROVE GovInv'
  BY <1>2, CreateIsSound, VoteIsSound, ResolveIsSound, DecideStep, VersionStep
  DEF Read
<1>3. ASSUME NEW t \in Requests, Write(t) PROVE GovInv'
  <2>1. CASE InsertRefused(t) \/ ApproveRefused(t)
    BY <2>1, FailStep DEF InsertRefused, ApproveRefused
  <2>2. CASE UpdateVotes(t)
    BY <2>2, UpdateVotesPreserves, PreservingStep
  <2>3. CASE Approve(t)
    BY <2>3, ApprovePreserves, PreservingStep
  <2>4. CASE Reject(t)
    BY <2>4, RejectPreserves, PreservingStep
  <2> QED BY <1>3, <2>1, <2>2, <2>3, <2>4, InsertStep DEF Write
<1>4. ASSUME NEW t \in Requests, Abandon(t) PROVE GovInv'
  BY <1>4, FailStep DEF Abandon
<1> QED BY <1>1, <1>2, <1>3, <1>4 DEF Next

(* Every request, however stale what it read, keeps the invariant.         *)
THEOREM GovInvariant == Spec => []GovInv
  BY InitGovInv, GovInvStep, PTL DEF Spec

(* Every variable keeps its type, and versions grow with the proposals.    *)
THEOREM GovernanceTypeCorrect ==
  ASSUME IsFiniteSet(Proposals)
  PROVE  Spec => []TypeOK
<1>1. GovInv => TypeOK
  <2> SUFFICES ASSUME GovInv PROVE TypeOK
    OBVIOUS
  <2>1. /\ Cardinality(Used) \in Nat /\ Cardinality(Proposals) \in Nat
        /\ Cardinality(Used) <= Cardinality(Proposals)
    <3>1. Used \in SUBSET Proposals
      BY DEF Used
    <3> QED BY <3>1, FS_Subset, FS_CardinalityType
  <2>2. \A c \in ConfigIds :
          /\ configs[c] \in ConfigRows
          /\ configs[c].version \in 0..(Cardinality(Proposals) + 1)
    BY <2>1 DEF GovInv, Shape, VersionsBounded
  <2> QED BY <2>2 DEF GovInv, Shape, TypeOK
<1> QED BY <1>1, GovInvariant, PTL

(* MarkProposalApproved and idx_group_one_committed: however stale a       *)
(* resolution, a committed configuration is the one in use.                *)
THEOREM OneInForce == Spec => []CommittedIsActive
  BY GovInvariant, PTL DEF GovInv

(* Numbers read outside any transaction, and the index on them: versions   *)
(* are unique and above those they were made from.                         *)
THEOREM VersionsAreOrdered == Spec => []VersionsOrdered
  BY GovInvariant, PTL DEF GovInv

(* CastVote and UpdateProposalVotes: lists overwrite each other, but no    *)
(* list has two votes of one person.                                       *)
THEOREM VotesAreSingle == Spec => []OneVoteEach
<1>1. GovInv => OneVoteEach
  BY DEF GovInv, VotesSingle, SingleVotes, OneVoteEach
<1> QED BY <1>1, GovInvariant, PTL

(* ResolveProposal on a stale proposal cannot replace a configuration in   *)
(* force by one that was not made from it.                                 *)
THEOREM SuccessorsOnly == Spec => InForceReplacedBySuccessor
<1>1. ASSUME GovInv, [Next]_vars,
             active' # active, configs[active].state = "committed"
      PROVE  configs[active'].prev = active
  <2>1. PICK t \in Requests : Approve(t)
    BY <1>1 DEF Next, vars, Read, CreateProposal, ReadNextVersion, CastVote,
                ResolveProposal, Decide, Write, InsertProposal, InsertRefused, UpdateVotes,
                ApproveRefused, Reject, Abandon, Fail
  <2>2. /\ pc[t] = "approve" /\ active' = seen[t].proposal
        /\ CommittedFree(seen[t].proposal, seen[t].base)
    BY <2>1 DEF Approve
  <2>3. active = seen[t].base
    BY <1>1, <2>2 DEF CommittedFree, GovInv, Shape
  <2> QED BY <1>1, <2>2, <2>3 DEF GovInv, Referenced, Resolving
<1>2. GovInv /\ [Next]_vars =>
        [active' # active /\ configs[active].state = "committed" =>
           configs[active'].prev = active]_vars
  BY <1>1
<1> QED BY <1>2, GovInvariant, PTL DEF Spec, InForceReplacedBySuccessor

-------------------------------------------------------------------------------
(* The quorum.  In a group without an active member nobody is needed, and  *)
(* a proposal is approved without a vote: hence the hypothesis.            *)

LEMMA CeilingMeets ==
  ASSUME NEW quota \in Nat, NEW yes \in Nat, yes >= (quota + 99) \div 100
  PROVE  yes * 100 >= quota
  OBVIOUS

LEMMA OutcomeMeets ==
  ASSUME NEW votes, IsFiniteSet(votes), NEW quorum \in Nat,
         Outcome(votes, quorum) = "approve"
  PROVE  MeetsQuorum(votes, quorum)
<1>1. MemberCount \in Nat
  BY GovernanceAssumption, FS_CardinalityType DEF MemberCount
<1>2. MemberCount * quorum \in Nat
  BY <1>1
<1>3. Count(votes, "approve") \in Nat
  <2>1. {v \in votes : v.decision = "approve"} \in SUBSET votes
    OBVIOUS
  <2> QED BY <2>1, FS_Subset, FS_CardinalityType DEF Count
<1>4. Count(votes, "approve") >= RequiredVotes(quorum)
  BY DEF Outcome
<1> QED BY <1>2, <1>3, <1>4, CeilingMeets DEF RequiredVotes, MeetsQuorum

LEMMA NoVotesMissQuorum ==
  ASSUME Members # {}, NEW quorum \in Nat \ {0}
  PROVE  ~MeetsQuorum({}, quorum)
<1>1. MemberCount \in Nat \ {0}
  BY GovernanceAssumption, FS_CardinalityType, FS_EmptySet DEF MemberCount
<1>2. MemberCount * quorum > 0
  BY <1>1
<1>3. Count({}, "approve") = 0
  <2>1. {v \in {} : v.decision = "approve"} = {}
    OBVIOUS
  <2> QED BY <2>1, FS_EmptySet DEF Count
<1> QED BY <1>1, <1>2, <1>3 DEF MeetsQuorum

LEMMA QuorumBounds ==
  ASSUME GovInv
  PROVE  /\ \A c \in ConfigIds : configs[c].quorum \in Nat \ {0}
         /\ \A p \in Proposals : BaseOf(p).quorum \in Nat \ {0}
<1>1. \A quorum \in Quorums \cup {100} : quorum \in Nat \ {0}
  BY GovernanceAssumption
<1>2. \A c \in ConfigIds : configs[c].quorum \in Quorums \cup {100}
  BY DEF GovInv, Shape
<1>3. \A p \in Proposals : proposals[p].base \in ConfigIds
  BY DEF GovInv, Shape
<1> QED BY <1>1, <1>2, <1>3 DEF BaseOf

LEMMA InitQuorumKept == Init => QuorumKept
  BY DEF Init, QuorumKept, Submitted, NoProposal, ActiveHadQuorum

(* Quorums stay, so the quorum counted against is the one of the base.     *)
LEMMA QuorumStep ==
  ASSUME Members # {}, GovInv, QuorumKept, [Next]_vars
  PROVE  QuorumKept'
<1> USE DEF GovInv, QuorumKept
<1>1. CASE UNCHANGED vars
  BY <1>1 DEF vars, Submitted, BaseOf, ActiveHadQuorum
<1>2. ASSUME NEW t \in Requests, NEW write, NEW what, Decide(t, write, what),
             write = "approve" => what.proposal \in reached
      PROVE  QuorumKept'
  BY <1>2 DEF Decide, Submitted, BaseOf, ActiveHadQuorum, Shape
<1>3. ASSUME NEW t \in Requests, Read(t) PROVE QuorumKept'
  <2>1. ASSUME NEW quorum \in Quorums, CreateProposal(t, quorum)
        PROVE  QuorumKept'
    BY <1>2, <2>1 DEF CreateProposal
  <2>2. ASSUME NEW p \in Proposals, NEW voter \in Governors,
               NEW decision \in Decisions, CastVote(t, p, voter, decision)
        PROVE  QuorumKept'
    BY <1>2, <2>2 DEF CastVote
  <2>3. ASSUME NEW p \in Proposals, ResolveProposal(t, p) PROVE QuorumKept'
    <3>1. PICK write \in {"approve", "reject"}, what \in Seen :
            /\ Decide(t, write, what) /\ what.proposal = p
            /\ write = Outcome(proposals[p].votes, BaseOf(p).quorum)
      BY <2>3, ResolveIsSound
    <3>2. write = "approve" => p \in reached
      <4>1. IsFiniteSet(proposals[p].votes) /\ Submitted(p)
        BY <2>3 DEF VotesSingle, SingleVotes, ResolveProposal, OpenProposals,
                    Submitted
      <4> QED BY <3>1, <4>1, QuorumBounds, OutcomeMeets
    <3> QED BY <1>2, <3>1, <3>2
  <2>4. ASSUME ReadNextVersion(t) PROVE QuorumKept'
    BY <2>4 DEF ReadNextVersion, Submitted, BaseOf, ActiveHadQuorum, Shape
  <2> QED BY <1>3, <2>1, <2>2, <2>3, <2>4 DEF Read
<1>4. ASSUME NEW t \in Requests, Fail(t) PROVE QuorumKept'
  BY <1>4, LeaveSeen DEF Fail, Submitted, BaseOf, ActiveHadQuorum
<1>5. ASSUME NEW t \in Requests, NEW p \in Proposals, InsertProposal(t, p)
      PROVE  QuorumKept'
  <2>1. /\ Leave(t) /\ UNCHANGED <<active, reached>>
        /\ proposals'[p].base = seen[t].base /\ proposals'[p].votes = {}
        /\ \A q \in Proposals \ {p} : proposals'[q] = proposals[q]
        /\ \A c \in ConfigIds \ {p} : configs'[c] = configs[c]
        /\ Exists(seen[t].base) /\ ~Exists(p) /\ ~Submitted(p)
    BY <1>5 DEF InsertProposal, Shape, Referenced, Submitted
  <2>2. ASSUME NEW q \in Proposals, Submitted(q)',
               MeetsQuorum(proposals[q].votes, BaseOf(q).quorum)'
        PROVE  q \in reached
    <3>1. CASE q = p
      <4>1. BaseOf(q).quorum' = configs[seen[t].base].quorum
        BY <2>1, <3>1 DEF BaseOf, Shape, Seen
      <4>2. configs[seen[t].base].quorum \in Nat \ {0}
        BY QuorumBounds DEF Shape, Seen
      <4> QED BY <2>1, <2>2, <3>1, <4>1, <4>2, NoVotesMissQuorum DEF MeetsQuorum
    <3>2. CASE q # p
      <4>1. Submitted(q) /\ proposals'[q] = proposals[q]
        BY <2>1, <2>2, <3>2 DEF Submitted
      <4>2. proposals[q].base \in ConfigIds \ {p}
        BY <2>1, <4>1 DEF Referenced, Shape
      <4>3. BaseOf(q)' = BaseOf(q)
        BY <2>1, <4>1, <4>2 DEF BaseOf
      <4> QED BY <2>2, <4>1, <4>3 DEF MeetsQuorum
    <3> QED BY <3>1, <3>2
  <2> QED BY <2>1, <2>2, LeaveSeen DEF ActiveHadQuorum
<1>6. ASSUME NEW t \in Requests, Preserves(t), reached \subseteq reached',
             \A p \in Proposals :
               \/ proposals'[p].votes = proposals[p].votes
               \/ MeetsQuorum(proposals'[p].votes, BaseOf(p).quorum) =>
                    p \in reached',
             active' = active \/ active' \in reached
      PROVE  QuorumKept'
  <2>1. \A p \in Proposals : BaseOf(p).quorum' = BaseOf(p).quorum
    BY <1>6 DEF Preserves, BaseOf, Shape
  <2>2. ASSUME NEW q \in Proposals, Submitted(q)',
               MeetsQuorum(proposals[q].votes, BaseOf(q).quorum)'
        PROVE  q \in reached'
    <3>1. MeetsQuorum(proposals'[q].votes, BaseOf(q).quorum) /\ Submitted(q)
      BY <1>6, <2>1, <2>2 DEF MeetsQuorum, Preserves
    <3> QED BY <1>6, <3>1
  <2>3. \A u \in Requests : pc'[u] = "approve" => seen'[u].proposal \in reached'
    BY <1>6, LeaveSeen DEF Preserves
  <2> QED BY <1>6, <2>2, <2>3 DEF ActiveHadQuorum
<1>7. ASSUME NEW t \in Requests, UpdateVotes(t) PROVE QuorumKept'
  <2>1. \A q \in Proposals \ {seen[t].proposal} : proposals'[q] = proposals[q]
    BY <1>7 DEF UpdateVotes, Shape
  <2>2. LET p == seen[t].proposal IN
          /\ p \in Proposals
          /\ proposals'[p].votes = seen[t].votes
          /\ MeetsQuorum(seen[t].votes, BaseOf(p).quorum) => p \in reached'
          /\ reached \subseteq reached' /\ active' = active
    BY <1>7 DEF UpdateVotes, Shape, Referenced, Resolving
  <2> QED BY <1>6, <1>7, <2>1, <2>2, UpdateVotesPreserves
<1>8. ASSUME NEW t \in Requests, Approve(t) PROVE QuorumKept'
  <2>1. /\ reached' = reached /\ active' \in reached
        /\ \A q \in Proposals : proposals'[q].votes = proposals[q].votes
    BY <1>8 DEF Approve, Shape
  <2> QED BY <1>6, <1>8, <2>1, ApprovePreserves
<1>9. ASSUME NEW t \in Requests, Reject(t) PROVE QuorumKept'
  <2>1. /\ reached' = reached /\ active' = active
        /\ \A q \in Proposals : proposals'[q].votes = proposals[q].votes
    BY <1>9 DEF Reject, Shape
  <2> QED BY <1>6, <1>9, <2>1, RejectPreserves
<1> QED BY <1>1, <1>3, <1>4, <1>5, <1>7, <1>8, <1>9
        DEF Next, Write, InsertRefused, ApproveRefused, Abandon

(* UpdateProposalVotes, ResolveProposal and MarkProposalApproved together: *)
(* votes may be lost to each other, and resolutions stale, but nothing     *)
(* becomes the configuration of a group with members without its quorum.   *)
THEOREM QuorumForAll ==
  ASSUME Members # {}
  PROVE  Spec => []ActiveHadQuorum
<1>1. GovInv /\ QuorumKept /\ [Next]_vars => QuorumKept'
  BY QuorumStep
<1>2. QuorumKept => ActiveHadQuorum
  BY DEF QuorumKept
<1> QED BY <1>1, <1>2, InitQuorumKept, GovInvariant, PTL DEF Spec

-------------------------------------------------------------------------------
(* Counting votes.                                                         *)

(* The counts of a finite list of votes are numbers.                       *)
LEMMA CountIsNat ==
  ASSUME NEW votes, IsFiniteSet(votes), NEW decision
  PROVE  /\ IsFiniteSet({v \in votes : v.decision = decision})
         /\ Count(votes, decision) \in Nat
<1>1. {v \in votes : v.decision = decision} \in SUBSET votes
  OBVIOUS
<1> QED BY <1>1, FS_Subset, FS_CardinalityType DEF Count

LEMMA MembersCounted ==
  /\ MemberCount \in Nat
  /\ \A quorum \in Nat : RequiredVotes(quorum) \in Nat
<1>1. MemberCount \in Nat
  BY GovernanceAssumption, FS_CardinalityType DEF MemberCount
<1>2. ASSUME NEW quorum \in Nat PROVE RequiredVotes(quorum) \in Nat
  <2>1. MemberCount * quorum \in Nat
    BY <1>1
  <2> HIDE DEF MemberCount
  <2>2. ASSUME NEW quota \in Nat PROVE (quota + 99) \div 100 \in Nat
    OBVIOUS
  <2> QED BY <2>1, <2>2 DEF RequiredVotes
<1> QED BY <1>1, <1>2

(* One vote each: no more votes, and no more approvals, than governors.    *)
LEMMA VotersCounted ==
  ASSUME NEW votes \in SUBSET Votes, SingleVotes(votes)
  PROVE  Cardinality({v.voter : v \in votes}) = Cardinality(votes)
<1> DEFINE voters == {v.voter : v \in votes}
           f == [v \in votes |-> v.voter]
<1>1. f \in [votes -> voters] /\ \A x \in voters : \E v \in votes : f[v] = x
  OBVIOUS
<1>2. \A v, w \in votes : f[v] = f[w] => v = w
  BY DEF SingleVotes
<1>3. f \in Bijection(votes, voters)
  <2> HIDE DEF f, voters
  <2> QED BY <1>1, <1>2 DEF Bijection, Injection, Surjection, IsInjective
<1>4. ExistsBijection(votes, voters)
  BY <1>3 DEF ExistsBijection
<1> QED BY <1>4, FS_Bijection DEF SingleVotes

(* A vote that comes later adds to what was counted, by one at most.       *)
LEMMA LaterVotes ==
  ASSUME NEW votes, NEW more, IsFiniteSet(more), votes \subseteq more
  PROVE  /\ IsFiniteSet(votes)
         /\ Cardinality(votes) \in Nat /\ Cardinality(more) \in Nat
         /\ Cardinality(votes) <= Cardinality(more)
         /\ Count(votes, "approve") \in Nat /\ Count(more, "approve") \in Nat
         /\ Count(votes, "approve") <= Count(more, "approve")
         /\ Count(more, "approve") + Cardinality(votes)
              <= Count(votes, "approve") + Cardinality(more)
<1> DEFINE Yes(S) == {v \in S : v.decision = "approve"}
           others == more \ votes
<1>1. IsFiniteSet(votes) /\ Cardinality(votes) <= Cardinality(more)
  BY FS_Subset
<1>2. Cardinality(votes) \in Nat /\ Cardinality(more) \in Nat
  BY <1>1, FS_CardinalityType
<1>3. /\ IsFiniteSet(Yes(votes)) /\ IsFiniteSet(Yes(more))
      /\ Cardinality(Yes(votes)) \in Nat /\ Cardinality(Yes(more)) \in Nat
  BY <1>1, CountIsNat DEF Count
<1>4. Cardinality(Yes(votes)) <= Cardinality(Yes(more))
  <2>1. Yes(votes) \in SUBSET Yes(more)
    OBVIOUS
  <2> HIDE DEF Yes
  <2> QED BY <1>3, <2>1, FS_Subset
<1>5. /\ IsFiniteSet(others) /\ Cardinality(others) \in Nat
      /\ Cardinality(others) = Cardinality(more) - Cardinality(votes)
  <2>1. more \cap votes = votes
    OBVIOUS
  <2> QED BY <2>1, FS_Difference, FS_CardinalityType
<1>6. Cardinality(Yes(more)) <= Cardinality(Yes(votes)) + Cardinality(others)
  <2> DEFINE both == Yes(votes) \cup others
  <2>1. Yes(more) \in SUBSET both
    OBVIOUS
  <2> HIDE DEF Yes, others
  <2>2. IsFiniteSet(both) /\ Cardinality(both) =
          Cardinality(Yes(votes)) + Cardinality(others)
            - Cardinality(Yes(votes) \cap others)
    BY <1>3, <1>5, FS_Union
  <2>3. Yes(votes) \cap others \in SUBSET others
    OBVIOUS
  <2>4. Cardinality(Yes(votes) \cap others) \in Nat
    BY <1>5, <2>3, FS_Subset, FS_CardinalityType
  <2>5. Cardinality(Yes(more)) <= Cardinality(both)
    BY <2>1, <2>2, FS_Subset
  <2>6. Cardinality(both) \in Nat
    BY <2>2, FS_CardinalityType
  <2> HIDE DEF both
  <2> QED BY <1>3, <1>5, <2>2, <2>4, <2>5, <2>6
<1>7. /\ Count(votes, "approve") = Cardinality(Yes(votes))
      /\ Count(more, "approve") = Cardinality(Yes(more))
  BY DEF Count
<1> HIDE DEF Yes, others
<1> QED BY <1>1, <1>2, <1>3, <1>4, <1>5, <1>6, <1>7

(* ResolveProposal: an approval is safe to decide early.  Whatever is      *)
(* voted later, the outcome stays.                                         *)
THEOREM ApprovalIsSettled ==
  ASSUME NEW votes, NEW more, IsFiniteSet(more), votes \subseteq more,
         NEW quorum \in Nat, Outcome(votes, quorum) = "approve"
  PROVE  Outcome(more, quorum) = "approve"
<1>1. Count(votes, "approve") <= Count(more, "approve")
      /\ Count(votes, "approve") \in Nat /\ Count(more, "approve") \in Nat
  BY LaterVotes
<1>2. RequiredVotes(quorum) \in Nat
  BY MembersCounted
<1>3. Count(votes, "approve") >= RequiredVotes(quorum)
  BY DEF Outcome
<1> QED BY <1>1, <1>2, <1>3 DEF Outcome

(* ResolveProposal: so is a rejection, before everybody has voted, if the  *)
(* founder is a member.  A founder who is not may vote without being       *)
(* counted among the members, and a proposal be rejected that his approval *)
(* could still have carried: hence the hypothesis.                         *)
THEOREM RejectionIsSettled ==
  ASSUME Founder \in Members,
         NEW votes, NEW more \in SUBSET Votes, SingleVotes(more),
         votes \subseteq more,
         NEW quorum \in Nat, Outcome(votes, quorum) = "reject"
  PROVE  Outcome(more, quorum) = "reject"
<1>1. /\ IsFiniteSet(more) /\ IsFiniteSet(votes)
      /\ Cardinality(votes) \in Nat /\ Cardinality(more) \in Nat
      /\ Cardinality(votes) <= Cardinality(more)
      /\ Count(votes, "approve") \in Nat /\ Count(more, "approve") \in Nat
      /\ Count(more, "approve") + Cardinality(votes)
           <= Count(votes, "approve") + Cardinality(more)
  BY LaterVotes DEF SingleVotes
<1>2. RequiredVotes(quorum) \in Nat /\ MemberCount \in Nat
  BY MembersCounted
<1>3. Cardinality(more) <= MemberCount
  <2>1. {v.voter : v \in more} \in SUBSET Members
    BY DEF Votes, Governors
  <2>2. Cardinality({v.voter : v \in more}) <= MemberCount
    BY <2>1, GovernanceAssumption, FS_Subset DEF MemberCount
  <2> QED BY <2>2, VotersCounted
<1>4. Count(votes, "approve") + PendingVotes(votes) < RequiredVotes(quorum)
  BY DEF Outcome
<1>5. PendingVotes(votes) = MemberCount - Cardinality(votes)
  BY <1>1, <1>2, <1>3 DEF PendingVotes
<1>6. PendingVotes(more) = MemberCount - Cardinality(more)
  BY <1>1, <1>2, <1>3 DEF PendingVotes
<1>7. Count(more, "approve") + PendingVotes(more) < RequiredVotes(quorum)
  BY <1>1, <1>2, <1>3, <1>4, <1>5, <1>6
<1>8. ~(Count(more, "approve") >= RequiredVotes(quorum))
  BY <1>1, <1>2, <1>3, <1>6, <1>7
<1> QED BY <1>7, <1>8 DEF Outcome

-------------------------------------------------------------------------------
(* One request per proposal: what the refuted statement needs.             *)

(* What a lock on the row of a proposal, held from the read of a vote or   *)
(* of a resolution to its write, would give.  The code takes none: the     *)
(* theorems below have it as a hypothesis, and the run GovernanceReversal  *)
(* shows that it cannot be dropped.                                        *)
OnePerProposal ==
  \A t, u \in Requests :
    /\ Resolving(t) /\ Resolving(u)
    /\ seen[t].proposal = seen[u].proposal
    => t = u

OutcomeOf(p) == Outcome(proposals[p].votes, BaseOf(p).quorum)

(* What a request read of a proposal is still so.                          *)
RequestsFresh ==
  \A t \in Requests : Resolving(t) =>
    LET p == seen[t].proposal
    IN  /\ proposals[p].status = "open"
        /\ pc[t] = "vote" => proposals[p].votes \subseteq seen[t].votes
        /\ pc[t] # "vote" => OutcomeOf(p) = pc[t]

(* A resolved proposal shows the votes that resolve it so.                 *)
OutcomeMatchesVotes ==
  \A p \in Proposals :
    /\ proposals[p].status = "approved" => OutcomeOf(p) = "approve"
    /\ proposals[p].status = "rejected" => OutcomeOf(p) = "reject"

(* No vote that was accepted on a proposal is lost.                        *)
VotesKept ==
  [][\A p \in Proposals : proposals[p].status # "none" =>
       proposals[p].votes \subseteq proposals'[p].votes]_vars

(* The members who carried a proposal.                                     *)
Approvers(p) ==
  {v.voter : v \in {w \in proposals[p].votes : w.decision = "approve"}}

(* No two changes were carried by disjoint sets of members.                *)
ApprovalsIntersect ==
  \A p, q \in Proposals :
    proposals[p].status = "approved" /\ proposals[q].status = "approved"
      => Approvers(p) \cap Approvers(q) # {}

(* What the step of a request may do to a proposal that is submitted.      *)
LEMMA StepOnProposal ==
  ASSUME GovInv, [Next]_vars, NEW p \in Proposals, Submitted(p)
  PROVE  /\ BaseOf(p).quorum' = BaseOf(p).quorum
         /\ \/ proposals'[p] = proposals[p]
            \/ \E t \in Requests :
                 /\ Resolving(t) /\ seen[t].proposal = p /\ Leave(t)
                 /\ \/ /\ pc[t] = "vote"
                       /\ proposals'[p] =
                            [proposals[p] EXCEPT !.votes = seen[t].votes]
                    \/ /\ pc[t] = "approve"
                       /\ proposals'[p] =
                            [proposals[p] EXCEPT !.status = "approved"]
                    \/ /\ pc[t] = "reject"
                       /\ proposals'[p] =
                            [proposals[p] EXCEPT !.status = "rejected"]
<1> USE DEF GovInv
<1>1. p \in ConfigIds /\ proposals[p].base \in ConfigIds
      /\ Exists(proposals[p].base)
  BY DEF ConfigIds, Shape, Referenced
<1>2. CASE UNCHANGED <<configs, proposals>>
  BY <1>2 DEF BaseOf
<1>3. ASSUME NEW t \in Requests, NEW q \in Proposals, InsertProposal(t, q)
      PROVE  proposals'[p] = proposals[p]
             /\ BaseOf(p).quorum' = BaseOf(p).quorum
  <2>1. q # p /\ q # proposals[p].base
    BY <1>1, <1>3 DEF InsertProposal, Submitted, Referenced
  <2> QED BY <1>1, <1>3, <2>1 DEF InsertProposal, Shape, BaseOf
<1>4. ASSUME NEW t \in Requests, Preserves(t)
      PROVE  BaseOf(p).quorum' = BaseOf(p).quorum
  BY <1>1, <1>4 DEF Preserves, BaseOf
<1>5. ASSUME NEW t \in Requests, UpdateVotes(t) \/ Approve(t) \/ Reject(t)
      PROVE  /\ BaseOf(p).quorum' = BaseOf(p).quorum
             /\ Resolving(t) /\ seen[t].proposal \in Proposals /\ Leave(t)
  <2>1. Preserves(t)
    BY <1>5, UpdateVotesPreserves, ApprovePreserves, RejectPreserves
  <2> QED BY <1>4, <1>5, <2>1
          DEF UpdateVotes, Approve, Reject, Resolving, Referenced, Preserves
<1>6. ASSUME NEW t \in Requests, UpdateVotes(t) \/ Approve(t) \/ Reject(t),
             seen[t].proposal # p
      PROVE  proposals'[p] = proposals[p]
  BY <1>6 DEF UpdateVotes, Approve, Reject, Shape
<1>7. ASSUME NEW t \in Requests, seen[t].proposal = p
      PROVE  /\ UpdateVotes(t) =>
                  pc[t] = "vote" /\ proposals'[p] =
                    [proposals[p] EXCEPT !.votes = seen[t].votes]
             /\ Approve(t) =>
                  pc[t] = "approve" /\ proposals'[p] =
                    [proposals[p] EXCEPT !.status = "approved"]
             /\ Reject(t) =>
                  pc[t] = "reject" /\ proposals'[p] =
                    [proposals[p] EXCEPT !.status = "rejected"]
  BY <1>7 DEF UpdateVotes, Approve, Reject, Shape
<1>8. CASE \E t \in Requests : UpdateVotes(t) \/ Approve(t) \/ Reject(t)
  BY <1>5, <1>6, <1>7, <1>8
<1> QED
  BY <1>2, <1>3, <1>8
  DEF Next, vars, Read, CreateProposal, ReadNextVersion, CastVote,
      ResolveProposal, Decide, Write, InsertRefused, ApproveRefused, Abandon, Fail

(* What the step of a request may do to the other requests.                *)
LEMMA StepOnRequest ==
  ASSUME GovInv, [Next]_vars, NEW u \in Requests, Resolving(u)'
  PROVE  \/ Resolving(u) /\ pc'[u] = pc[u] /\ seen'[u] = seen[u]
            /\ \A t \in Requests : Leave(t) => t # u
         \/ /\ UNCHANGED <<configs, proposals>>
            /\ \E p \in Proposals :
                 /\ p \in OpenProposals /\ seen'[u].proposal = p
                 /\ \/ pc'[u] = "vote"
                       /\ proposals[p].votes \subseteq seen'[u].votes
                    \/ pc'[u] # "vote" /\ OutcomeOf(p) = pc'[u]
<1> USE DEF GovInv
<1>1. ASSUME NEW t \in Requests, Leave(t)
      PROVE  t # u /\ pc'[u] = pc[u] /\ seen'[u] = seen[u]
  BY <1>1, LeaveSeen DEF Resolving
<1>2. ASSUME pc' = pc, seen' = seen
      PROVE  Resolving(u) /\ pc'[u] = pc[u] /\ seen'[u] = seen[u]
  BY <1>2 DEF Resolving
<1>3. ASSUME NEW t \in Requests, NEW write, NEW what,
             Decide(t, write, what), t # u
      PROVE  Resolving(u) /\ pc'[u] = pc[u] /\ seen'[u] = seen[u]
  BY <1>3 DEF Decide, Shape, Resolving
<1>4. ASSUME NEW t \in Requests, NEW write, NEW what,
             Decide(t, write, what)
      PROVE  /\ pc'[t] = write /\ seen'[t] = what
             /\ UNCHANGED <<configs, proposals>>
             /\ \A v \in Requests : Leave(v) => v # u
  <2>1. pc'[t] = write /\ seen'[t] = what /\ UNCHANGED <<configs, proposals>>
    BY <1>4 DEF Decide, Shape
  <2> QED BY <1>1, <2>1
<1>5. ASSUME \/ \E quorum \in Quorums : CreateProposal(u, quorum)
             \/ ReadNextVersion(u)
      PROVE  FALSE
  BY <1>4, <1>5 DEF CreateProposal, ReadNextVersion, Resolving, Shape
<1>6. ASSUME NEW p \in Proposals, NEW voter \in Governors,
             NEW decision \in Decisions, CastVote(u, p, voter, decision)
      PROVE  /\ p \in OpenProposals /\ seen'[u].proposal = p
             /\ pc'[u] = "vote" /\ proposals[p].votes \subseteq seen'[u].votes
             /\ UNCHANGED <<configs, proposals>>
  <2> DEFINE vote  == [voter |-> voter, decision |-> decision]
             votes == proposals[p].votes \cup {vote}
             what  == [NotSeen EXCEPT !.proposal = p, !.votes = votes]
  <2>1. Decide(u, "vote", what) /\ p \in OpenProposals
    BY <1>6 DEF CastVote
  <2>2. what.proposal = p /\ proposals[p].votes \subseteq what.votes
    BY DEF NotSeen
  <2> HIDE DEF what
  <2> QED BY <1>4, <2>1, <2>2
<1>7. ASSUME NEW p \in Proposals, ResolveProposal(u, p)
      PROVE  /\ p \in OpenProposals /\ seen'[u].proposal = p
             /\ pc'[u] # "vote" /\ OutcomeOf(p) = pc'[u]
             /\ UNCHANGED <<configs, proposals>>
  <2>1. p \in OpenProposals
    BY <1>7 DEF ResolveProposal
  <2>2. PICK write \in {"approve", "reject"}, what \in Seen :
          /\ Decide(u, write, what) /\ what.proposal = p
          /\ write = OutcomeOf(p)
    BY <1>7, ResolveIsSound DEF OutcomeOf
  <2> QED BY <1>4, <2>1, <2>2
<1>8. ASSUME NEW t \in Requests, Read(t), t # u
      PROVE  Resolving(u) /\ pc'[u] = pc[u] /\ seen'[u] = seen[u]
             /\ \A v \in Requests : Leave(v) => v # u
  <2>1. CASE ReadNextVersion(t)
    BY <1>1, <1>8, <2>1 DEF ReadNextVersion, Shape, Resolving
  <2>2. CASE ~ReadNextVersion(t)
    <3>1. \E write, what : Decide(t, write, what)
      BY <1>8, <2>2 DEF Read, CreateProposal, CastVote, ResolveProposal
    <3> QED BY <1>3, <1>4, <1>8, <3>1
  <2> QED BY <2>1, <2>2
<1>9. CASE Read(u)
  BY <1>5, <1>6, <1>7, <1>9 DEF Read
<1>10. ASSUME NEW t \in Requests, Write(t) \/ Abandon(t)
       PROVE  Leave(t)
  BY <1>10 DEF Write, InsertProposal, InsertRefused, UpdateVotes, Approve,
               ApproveRefused, Reject, Abandon, Fail
<1>11. \A t \in Requests : Leave(t) =>
         Resolving(u) /\ pc'[u] = pc[u] /\ seen'[u] = seen[u]
  BY <1>1 DEF Resolving
<1>12. CASE UNCHANGED vars
  BY <1>1, <1>2, <1>12 DEF vars
<1> QED BY <1>1, <1>8, <1>9, <1>10, <1>11, <1>12 DEF Next

(* With one request per proposal, nobody changes what a request has read.  *)
LEMMA NextKeepsFresh ==
  ASSUME GovInv, OnePerProposal, RequestsFresh, [Next]_vars
  PROVE  RequestsFresh'
<1> SUFFICES ASSUME NEW u \in Requests, Resolving(u)',
                    NEW p, p = seen'[u].proposal
             PROVE  /\ proposals'[p].status = "open"
                    /\ pc'[u] = "vote" =>
                         proposals'[p].votes \subseteq seen'[u].votes
                    /\ pc'[u] # "vote" => OutcomeOf(p)' = pc'[u]
  BY DEF RequestsFresh, OutcomeOf, BaseOf
<1>1. CASE /\ Resolving(u) /\ pc'[u] = pc[u] /\ seen'[u] = seen[u]
           /\ \A t \in Requests : Leave(t) => t # u
  <2>1. p \in Proposals /\ Submitted(p) /\ p = seen[u].proposal
    BY <1>1 DEF GovInv, Referenced
  <2>2. \A t \in Requests :
          Resolving(t) /\ seen[t].proposal = p => t = u
    BY <1>1, <2>1 DEF OnePerProposal
  <2>3. proposals'[p] = proposals[p] /\ BaseOf(p).quorum' = BaseOf(p).quorum
    BY <1>1, <2>1, <2>2, StepOnProposal
  <2>4. OutcomeOf(p)' = OutcomeOf(p)
    BY <2>3 DEF OutcomeOf, Outcome
  <2> QED BY <1>1, <2>1, <2>3, <2>4 DEF RequestsFresh
<1>2. CASE /\ UNCHANGED <<configs, proposals>>
           /\ \E q \in Proposals :
                /\ q \in OpenProposals /\ seen'[u].proposal = q
                /\ \/ pc'[u] = "vote"
                      /\ proposals[q].votes \subseteq seen'[u].votes
                   \/ pc'[u] # "vote" /\ OutcomeOf(q) = pc'[u]
  <2>1. OutcomeOf(p)' = OutcomeOf(p)
    BY <1>2 DEF OutcomeOf, BaseOf, Outcome
  <2> QED BY <1>2, <2>1 DEF OpenProposals
<1> QED BY <1>1, <1>2, StepOnRequest

(* With one request per proposal, no request acts on what it misread.      *)
LEMMA AlwaysFresh == Spec /\ []OnePerProposal => []RequestsFresh
<1>1. Init => RequestsFresh
  BY DEF Init, RequestsFresh, Resolving
<1>2. GovInv /\ OnePerProposal /\ RequestsFresh /\ [Next]_vars
        => RequestsFresh'
  BY NextKeepsFresh
<1> QED BY <1>1, <1>2, GovInvariant, PTL DEF Spec

(* Migration 008: were the requests on a proposal one at a time, a         *)
(* resolved proposal would stay resolved as it is.                         *)
THEOREM OneRequestPerProposalKeepsResolutions ==
  Spec /\ []OnePerProposal => ResolvedIsFinal
<1> DEFINE A == \A p \in Proposals :
                  proposals[p].status \in {"approved", "rejected"} =>
                    proposals'[p].status = proposals[p].status
<1>1. GovInv /\ RequestsFresh /\ [Next]_vars => [A]_vars
  <2> SUFFICES ASSUME GovInv, RequestsFresh, [Next]_vars, NEW p \in Proposals,
                      proposals[p].status \in {"approved", "rejected"}
               PROVE  proposals'[p].status = proposals[p].status
    OBVIOUS
  <2>1. Submitted(p)
    BY DEF Submitted
  <2>2. \A t \in Requests : Resolving(t) => seen[t].proposal # p
    BY DEF RequestsFresh
  <2> QED BY <2>1, <2>2, StepOnProposal
<1> QED BY <1>1, GovInvariant, AlwaysFresh, PTL DEF Spec, ResolvedIsFinal

(* UpdateProposalVotes: were the requests on a proposal one at a time, no  *)
(* vote would overwrite another.                                           *)
THEOREM OneRequestPerProposalKeepsVotes == Spec /\ []OnePerProposal => VotesKept
<1> DEFINE A == \A p \in Proposals :
                  proposals[p].status # "none" =>
                    proposals[p].votes \subseteq proposals'[p].votes
<1>1. GovInv /\ RequestsFresh /\ [Next]_vars => [A]_vars
  <2> SUFFICES ASSUME GovInv, RequestsFresh, [Next]_vars, NEW p \in Proposals,
                      proposals[p].status # "none"
               PROVE  proposals[p].votes \subseteq proposals'[p].votes
    OBVIOUS
  <2>1. proposals[p] \in ProposalRows /\ Submitted(p)
    BY DEF GovInv, Shape, Submitted
  <2>2. \A t \in Requests : Resolving(t) /\ pc[t] = "vote"
                            /\ seen[t].proposal = p =>
          proposals[p].votes \subseteq seen[t].votes
    BY DEF RequestsFresh
  <2>3. CASE proposals'[p] = proposals[p]
    BY <2>3
  <2>4. CASE \E t \in Requests :
               /\ Resolving(t) /\ seen[t].proposal = p
               /\ pc[t] = "vote"
               /\ proposals'[p] = [proposals[p] EXCEPT !.votes = seen[t].votes]
    <3>1. PICK t \in Requests :
               /\ Resolving(t) /\ seen[t].proposal = p
               /\ pc[t] = "vote"
               /\ proposals'[p] = [proposals[p] EXCEPT !.votes = seen[t].votes]
      BY <2>4
    <3>2. proposals'[p].votes = seen[t].votes
      BY <2>1, <3>1 DEF ProposalRows
    <3> QED BY <2>2, <3>1, <3>2
  <2>5. CASE \E status \in {"approved", "rejected"} :
               proposals'[p] = [proposals[p] EXCEPT !.status = status]
    BY <2>1, <2>5 DEF ProposalRows
  <2> QED BY <2>1, <2>3, <2>4, <2>5, StepOnProposal
<1> QED BY <1>1, GovInvariant, AlwaysFresh, PTL DEF Spec, VotesKept

(* ResolveProposal: were the requests on a proposal one at a time, the     *)
(* votes stored with a resolved proposal would justify its resolution, for *)
(* ever.  As the code is, a vote that overwrites another may leave an      *)
(* approved proposal without the votes that approved it.                   *)
THEOREM OneRequestPerProposalKeepsOutcomes ==
  Spec /\ []OnePerProposal => []OutcomeMatchesVotes
<1>1. Init => OutcomeMatchesVotes
  BY DEF Init, OutcomeMatchesVotes, NoProposal
<1>2. GovInv /\ RequestsFresh /\ OutcomeMatchesVotes /\ [Next]_vars
        => OutcomeMatchesVotes'
  <2> SUFFICES ASSUME GovInv, RequestsFresh, OutcomeMatchesVotes, [Next]_vars,
                      NEW p \in Proposals
               PROVE  /\ proposals'[p].status = "approved" =>
                           OutcomeOf(p)' = "approve"
                      /\ proposals'[p].status = "rejected" =>
                           OutcomeOf(p)' = "reject"
    BY DEF OutcomeMatchesVotes
  <2>1. CASE ~Submitted(p)
    <3>1. proposals'[p].status \in {"none", "open"}
      <4>1. ASSUME NEW t \in Requests,
                   UpdateVotes(t) \/ Approve(t) \/ Reject(t)
            PROVE  seen[t].proposal # p
        BY <2>1, <4>1 DEF UpdateVotes, Approve, Reject, GovInv, Referenced,
                          Resolving
      <4>2. CASE proposals'[p] = proposals[p]
        BY <2>1, <4>2 DEF Submitted
      <4>3. ASSUME NEW t \in Requests, NEW q \in Proposals,
                   InsertProposal(t, q)
            PROVE  proposals'[p].status \in {"none", "open"}
        BY <2>1, <4>3 DEF InsertProposal, Submitted, GovInv, Shape
      <4>4. ASSUME NEW t \in Requests,
                   UpdateVotes(t) \/ Approve(t) \/ Reject(t)
            PROVE  proposals'[p] = proposals[p]
        BY <4>1, <4>4 DEF UpdateVotes, Approve, Reject, GovInv, Shape
      <4> QED
        BY <4>2, <4>3, <4>4
        DEF Next, vars, Read, CreateProposal, ReadNextVersion, CastVote,
            ResolveProposal, Decide, Write, InsertRefused, ApproveRefused, Abandon, Fail
    <3> QED BY <3>1
  <2>2. CASE Submitted(p)
    <3>1. BaseOf(p).quorum' = BaseOf(p).quorum /\ proposals[p] \in ProposalRows
      BY <2>2, StepOnProposal DEF GovInv, Shape
    <3>2. proposals'[p].votes = proposals[p].votes =>
            OutcomeOf(p)' = OutcomeOf(p)
      BY <3>1 DEF OutcomeOf, Outcome
    <3>3. CASE proposals'[p] = proposals[p]
      BY <3>2, <3>3 DEF OutcomeMatchesVotes
    <3>4. ASSUME NEW t \in Requests,
                 Resolving(t), seen[t].proposal = p, pc[t] = "vote",
                 proposals'[p] = [proposals[p] EXCEPT !.votes = seen[t].votes]
          PROVE  proposals'[p].status = "open"
      BY <3>1, <3>4 DEF RequestsFresh
    <3>5. ASSUME NEW t \in Requests,
                 Resolving(t), seen[t].proposal = p, pc[t] = "approve",
                 proposals'[p] = [proposals[p] EXCEPT !.status = "approved"]
          PROVE  proposals'[p].status = "approved"
                 /\ OutcomeOf(p)' = "approve"
      BY <3>1, <3>2, <3>5 DEF RequestsFresh
    <3>6. ASSUME NEW t \in Requests,
                 Resolving(t), seen[t].proposal = p, pc[t] = "reject",
                 proposals'[p] = [proposals[p] EXCEPT !.status = "rejected"]
          PROVE  proposals'[p].status = "rejected"
                 /\ OutcomeOf(p)' = "reject"
      BY <3>1, <3>2, <3>6 DEF RequestsFresh
    <3> QED BY <2>2, <3>3, <3>4, <3>5, <3>6, StepOnProposal
  <2> QED BY <2>1, <2>2
<1> QED BY <1>1, <1>2, GovInvariant, AlwaysFresh, PTL DEF Spec

(* requiredVotes rounds up, and a quorum is above a half: two sets of      *)
(* members that reach it have a member in common.                          *)
LEMMA QuorumsIntersect ==
  ASSUME NEW A \in SUBSET Members, NEW B \in SUBSET Members, Members # {},
         NEW k \in 51..100, NEW m \in 51..100,
         Cardinality(A) >= RequiredVotes(k), Cardinality(B) >= RequiredVotes(m)
  PROVE  A \cap B # {}
<1>1. /\ IsFiniteSet(A) /\ IsFiniteSet(B)
      /\ Cardinality(A) \in Nat /\ Cardinality(B) \in Nat
      /\ MemberCount \in Nat \ {0}
  BY GovernanceAssumption, FS_Subset, FS_CardinalityType, FS_EmptySet
  DEF MemberCount
<1>2. ASSUME NEW n \in Nat \ {0}, NEW q \in 51..100, NEW c \in Nat,
             c >= (n * q + 99) \div 100
      PROVE  2 * c > n
  <2>1. n * q \in Nat /\ n * q >= n * 51
    BY <1>2
  <2>2. c * 100 >= n * q
    BY <1>2, <2>1, CeilingMeets
  <2>3. c * 100 >= n * 51
    BY <2>1, <2>2
  <2> QED BY <2>3
<1>3. 2 * Cardinality(A) > MemberCount /\ 2 * Cardinality(B) > MemberCount
  BY <1>1, <1>2 DEF RequiredVotes
<1>4. Cardinality(A) + Cardinality(B) > Cardinality(Members)
  BY <1>1, <1>3 DEF MemberCount
<1> QED BY <1>4, GovernanceAssumption, FS_MajoritiesIntersect

(* Were the requests on a proposal one at a time and the founder a member, *)
(* any two changes of a group's rules would have been approved by a common *)
(* member: no two parts of a group can change its rules behind each        *)
(* other's back.  Without the hypothesis on the founder it is false: he is *)
(* a vote that requiredVotes does not count.                               *)
THEOREM ApprovalsHaveCommonMember ==
  ASSUME Founder \in Members
  PROVE  Spec /\ []OnePerProposal => []ApprovalsIntersect
<1>1. GovInv /\ OutcomeMatchesVotes => ApprovalsIntersect
  <2> SUFFICES ASSUME GovInv, OutcomeMatchesVotes,
                      NEW p \in Proposals, NEW q \in Proposals,
                      proposals[p].status = "approved",
                      proposals[q].status = "approved"
               PROVE  Approvers(p) \cap Approvers(q) # {}
    BY DEF ApprovalsIntersect
  <2>1. ASSUME NEW r \in Proposals, proposals[r].status = "approved"
        PROVE  /\ Approvers(r) \in SUBSET Members
               /\ BaseOf(r).quorum \in 51..100
               /\ Cardinality(Approvers(r)) >= RequiredVotes(BaseOf(r).quorum)
    <3> DEFINE yes == {w \in proposals[r].votes : w.decision = "approve"}
    <3>1. proposals[r].votes \in SUBSET Votes /\ yes \in SUBSET Votes
          /\ yes \in SUBSET proposals[r].votes
      BY DEF GovInv, Shape
    <3>2. SingleVotes(proposals[r].votes)
      BY DEF GovInv, VotesSingle
    <3>3. IsFiniteSet(yes)
      BY <3>1, <3>2, FS_Subset DEF SingleVotes
    <3>4. SingleVotes(yes)
      BY <3>2, <3>3 DEF SingleVotes
    <3>5. Cardinality(yes) >= RequiredVotes(BaseOf(r).quorum)
      BY <2>1 DEF OutcomeMatchesVotes, OutcomeOf, Outcome, Count
    <3>6. Approvers(r) = {v.voter : v \in yes}
      BY DEF Approvers
    <3>7. Approvers(r) \in SUBSET Members
      BY <3>1 DEF Approvers, Votes, Governors
    <3> HIDE DEF yes
    <3>8. Cardinality(Approvers(r)) = Cardinality(yes)
      BY <3>1, <3>4, <3>6, VotersCounted
    <3>9. BaseOf(r).quorum \in Quorums \cup {100}
      BY DEF GovInv, Shape, BaseOf
    <3>10. BaseOf(r).quorum \in 51..100
      <4>1. \A quorum \in Quorums \cup {100} : quorum \in 51..100
        BY GovernanceAssumption
      <4> QED BY <3>9, <4>1
    <3>11. Cardinality(Approvers(r)) >= RequiredVotes(BaseOf(r).quorum)
      <4> HIDE DEF RequiredVotes, BaseOf, Approvers
      <4> QED BY <3>5, <3>8
    <3> HIDE DEF RequiredVotes, BaseOf, Approvers
    <3> QED BY <3>7, <3>10, <3>11
  <2>2. Members # {}
    OBVIOUS
  <2> QED BY <2>1, <2>2, QuorumsIntersect
<1> QED
  BY <1>1, GovInvariant, OneRequestPerProposalKeepsOutcomes, PTL

==============================================================================
