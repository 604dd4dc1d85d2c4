------------------------------ MODULE Governance ------------------------------
(***************************************************************************)
(* Governance of one group, as the social service runs it: members propose *)
(* a new version of the configuration, vote, and any of them asks for the  *)
(* outcome.                                                                *)
(*                                                                         *)
(* Every HTTP request reads outside any transaction, decides, and writes   *)
(* in one transaction (or one UPDATE) that names its rows by id and checks *)
(* nothing it has read.  A request is at                                   *)
(*   idle      no request;                                                 *)
(*   draft     a proposal whose version number is still to be read;        *)
(*   insert, vote, approve, reject    the write it has decided on.         *)
(* The rows written by one transaction are locked in the same order by     *)
(* all of them, so each write is one step.  What stops a stale write is    *)
(* only the two unique indexes of migration 002, on the version number and *)
(* on the committed configuration of a group.                              *)
(*                                                                         *)
(* A configuration keeps its quorum; the fields that no decision reads     *)
(* (amount, periodicity, order, policy) are left out.                      *)
(***************************************************************************)
EXTENDS Naturals, FiniteSets, FiniteSetsExt

CONSTANTS
  Members,    \* active members; no code of the repository changes them
  Founder,    \* founder, who may act without being a member
  Base,       \* the configuration the group starts with
  Proposals,  \* proposals; each stands for its new configuration as well
  Quorums,    \* quorum_pct of configurations
  Requests    \* concurrent HTTP requests

ASSUME GovernanceAssumption ==
  /\ IsFiniteSet(Members)
  /\ Base \notin Proposals
  /\ Quorums \subseteq 51..100

VARIABLES
  active,     \* active_config_id of the group
  configs,    \* table group_configs
  proposals,  \* table config_proposals
  pc,         \* the write each request has decided on
  seen,       \* what each request has read
  reached     \* history: proposals whose stored votes once met the quorum

vars == <<active, configs, proposals, pc, seen, reached>>

-------------------------------------------------------------------------------

Governors == Members \cup {Founder}

ConfigIds == Proposals \cup {Base}

Decisions == {"approve", "reject"}

Votes == [voter: Governors, decision: Decisions]

NoConfig == [state |-> "none", version |-> 0, quorum |-> 100, prev |-> Base]

NoProposal == [status |-> "none", base |-> Base, votes |-> {}]

NotSeen == [proposal |-> Base, base |-> Base, version |-> 0, quorum |-> 100,
            votes |-> {}]

MemberCount == Cardinality(Members)

Count(votes, decision) == Cardinality({v \in votes : v.decision = decision})

(* Mutant: the quota rounded down.                                         *)
RequiredVotesDown(quorum) == (MemberCount * quorum) \div 100

(* `requiredVotes`: the quota rounded up.                                  *)
RequiredVotes(quorum) == (MemberCount * quorum + 99) \div 100

PendingVotes(votes) ==
  IF MemberCount > Cardinality(votes) THEN MemberCount - Cardinality(votes) ELSE 0

(* The switch of `ResolveProposal`.                                        *)
Outcome(votes, quorum) ==
  LET required == RequiredVotes(quorum)
      yes      == Count(votes, "approve")
  IN  IF yes >= required THEN "approve"
      ELSE IF yes + PendingVotes(votes) < required THEN "reject"
      ELSE "pending"

-------------------------------------------------------------------------------

Init ==
  /\ active = Base
  /\ \E quorum \in Quorums :
       configs = [c \in ConfigIds |->
         IF c = Base THEN [state |-> "committed", version |-> 1,
                           quorum |-> quorum, prev |-> Base]
         ELSE NoConfig]
  /\ proposals = [p \in Proposals |-> NoProposal]
  /\ pc = [t \in Requests |-> "idle"]
  /\ seen = [t \in Requests |-> NotSeen]
  /\ reached = {}

Decide(t, write, what) ==
  /\ pc[t] = "idle"
  /\ pc' = [pc EXCEPT ![t] = write]
  /\ seen' = [seen EXCEPT ![t] = what]
  /\ UNCHANGED <<active, configs, proposals, reached>>

Leave(t) ==
  /\ pc' = [pc EXCEPT ![t] = "idle"]
  /\ seen' = [seen EXCEPT ![t] = NotSeen]

(* An error, or a write refused by a unique index: nothing is written.     *)
Fail(t) ==
  /\ Leave(t)
  /\ UNCHANGED <<active, configs, proposals, reached>>

-------------------------------------------------------------------------------
(* The reads of each request.                                              *)

OpenProposals == {p \in Proposals : proposals[p].status = "open"}

BaseOf(p) == configs[proposals[p].base]

(* Mutant: the number is incremented by the query and by the service.      *)
NextVersionTwice == Max({configs[c].version : c \in ConfigIds}) + 2

NextVersion == Max({configs[c].version : c \in ConfigIds}) + 1

(* `CreateProposal`: only on top of a committed active configuration.  The *)
(* group and its configuration are two queries; a configuration that the   *)
(* second finds committed is the one in use at that moment.                *)
CreateProposal(t, quorum) ==
  /\ configs[active].state = "committed"
  /\ Decide(t, "draft", [NotSeen EXCEPT !.base = active, !.quorum = quorum])

(* The last query of `CreateProposal`; the base may be superseded by now.  *)
ReadNextVersion(t) ==
  /\ pc[t] = "draft"
  /\ pc' = [pc EXCEPT ![t] = "insert"]
  /\ seen' = [seen EXCEPT ![t].version = NextVersion]
  /\ UNCHANGED <<active, configs, proposals, reached>>

(* Mutant: a member who votes again is not refused.                        *)
VotedUnchecked(votes, voter) == FALSE

Voted(votes, voter) == \E v \in votes : v.voter = voter

(* `CastVote`: open proposal, governor who has not voted; the vote is      *)
(* appended to the list as read.                                           *)
CastVote(t, p, voter, decision) ==
  /\ p \in OpenProposals
  /\ ~Voted(proposals[p].votes, voter)
  /\ Decide(t, "vote",
       [NotSeen EXCEPT !.proposal = p,
          !.votes = proposals[p].votes
                      \cup {[voter |-> voter, decision |-> decision]}])

(* `ResolveProposal`, on the votes as read and the quorum of the base.     *)
ResolveProposal(t, p) ==
  LET outcome == Outcome(proposals[p].votes, BaseOf(p).quorum)
  IN  /\ p \in OpenProposals
      /\ outcome # "pending"
      /\ Decide(t, outcome,
           [NotSeen EXCEPT !.proposal = p, !.base = proposals[p].base])

-------------------------------------------------------------------------------
(* The writes.                                                             *)

(* Mutant: no unique index on the version.                                 *)
VersionAlwaysFree(version) == TRUE

(* Index idx_group_config_version.                                         *)
VersionFree(version) == \A c \in ConfigIds : configs[c].version # version

(* `buildProposedConfig`: the base as read, with the patch.                *)
ProposedConfig(draft) ==
  [state |-> "review", version |-> draft.version, quorum |-> draft.quorum,
   prev |-> draft.base]

InsertProposal(t, p) ==
  /\ pc[t] = "insert"
  /\ proposals[p].status = "none"
  /\ VersionFree(seen[t].version)
  /\ configs' = [configs EXCEPT ![p] = ProposedConfig(seen[t])]
  /\ proposals' = [proposals EXCEPT ![p] =
       [status |-> "open", base |-> seen[t].base, votes |-> {}]]
  /\ Leave(t)
  /\ UNCHANGED <<active, reached>>

InsertRefused(t) ==
  /\ pc[t] = "insert"
  /\ ~VersionFree(seen[t].version)
  /\ Fail(t)

(* The quota itself, for the history variable.                             *)
MeetsQuorum(votes, quorum) ==
  Count(votes, "approve") * 100 >= MemberCount * quorum

(* `UpdateProposalVotes`: the whole list is overwritten.                   *)
UpdateVotes(t) ==
  LET p == seen[t].proposal
  IN  /\ pc[t] = "vote"
      /\ proposals' = [proposals EXCEPT ![p].votes = seen[t].votes]
      /\ reached' = reached \cup
           IF MeetsQuorum(seen[t].votes, BaseOf(p).quorum) THEN {p} ELSE {}
      /\ Leave(t)
      /\ UNCHANGED <<active, configs>>

(* Mutant: several committed configurations are allowed.                   *)
CommittedAlwaysFree(p, base) == TRUE

(* Index idx_group_one_committed, once the base is superseded.             *)
CommittedFree(p, base) ==
  \A c \in ConfigIds \ {p, base} : configs[c].state # "committed"

(* `MarkProposalApproved`.                                                 *)
Approve(t) ==
  LET p    == seen[t].proposal
      base == seen[t].base
  IN  /\ pc[t] = "approve"
      /\ CommittedFree(p, base)
      /\ proposals' = [proposals EXCEPT ![p].status = "approved"]
      /\ configs' = [configs EXCEPT ![base].state = "superseded",
                                    ![p].state = "committed"]
      /\ active' = p
      /\ Leave(t)
      /\ UNCHANGED reached

ApproveRefused(t) ==
  /\ pc[t] = "approve"
  /\ ~CommittedFree(seen[t].proposal, seen[t].base)
  /\ Fail(t)

(* `MarkProposalRejected`.                                                 *)
Reject(t) ==
  LET p == seen[t].proposal
  IN  /\ pc[t] = "reject"
      /\ proposals' = [proposals EXCEPT ![p].status = "rejected"]
      /\ configs' = [configs EXCEPT ![p].state = "superseded"]
      /\ Leave(t)
      /\ UNCHANGED <<active, reached>>

(* The connection or the process is lost before the write commits.         *)
Abandon(t) ==
  /\ pc[t] # "idle"
  /\ Fail(t)

-------------------------------------------------------------------------------

Read(t) ==
  \/ \E quorum \in Quorums : CreateProposal(t, quorum)
  \/ ReadNextVersion(t)
  \/ \E p \in Proposals, voter \in Governors, decision \in Decisions :
       CastVote(t, p, voter, decision)
  \/ \E p \in Proposals : ResolveProposal(t, p)

Write(t) ==
  \/ \E p \in Proposals : InsertProposal(t, p)
  \/ InsertRefused(t)
  \/ UpdateVotes(t)
  \/ Approve(t)
  \/ ApproveRefused(t)
  \/ Reject(t)

Next == \E t \in Requests : Read(t) \/ Write(t) \/ Abandon(t)

Spec == Init /\ [][Next]_vars

-------------------------------------------------------------------------------
(* Properties.                                                             *)

TypeOK ==
  /\ active \in ConfigIds
  /\ configs \in [ConfigIds ->
       [state: {"none", "review", "committed", "superseded"},
        version: 0..(Cardinality(Proposals) + 1),
        quorum: Quorums \cup {100}, prev: ConfigIds]]
  /\ proposals \in [Proposals ->
       [status: {"none", "open", "approved", "rejected"},
        base: ConfigIds, votes: SUBSET Votes]]
  /\ pc \in [Requests -> {"idle", "draft", "insert", "vote", "approve", "reject"}]
  /\ reached \subseteq Proposals

(* A committed configuration is the group's active one, whatever stale     *)
(* resolutions are still to be written: the group never has two, nor one   *)
(* it does not use.                                                        *)
CommittedIsActive ==
  \A c \in ConfigIds : configs[c].state = "committed" => active = c

(* Proposals created at the same time do not share a version number, and   *)
(* a version is always higher than the one it changes.                     *)
VersionsOrdered ==
  \A c \in ConfigIds : configs[c].state # "none" =>
    /\ c # Base => configs[configs[c].prev].version < configs[c].version
    /\ \A d \in ConfigIds \ {c} : configs[d].version # configs[c].version

(* Nobody's vote is counted twice, although two votes of one member may be *)
(* in flight and lists are overwritten.                                    *)
OneVoteEach ==
  \A p \in Proposals : \A v, w \in proposals[p].votes :
    v.voter = w.voter => v = w

(* A configuration becomes active only if at some time its recorded votes  *)
(* met the quorum of the configuration it changes.                         *)
ActiveHadQuorum == active # Base => active \in reached

(* A configuration in force is replaced only by one made from it: of two   *)
(* proposals made from the same one, the later approval cannot undo the    *)
(* change of the earlier, unless a stale rejection has put that out of     *)
(* force.                                                                  *)
InForceReplacedBySuccessor ==
  [][active' # active /\ configs[active].state = "committed" =>
       configs[active'].prev = active]_vars

-------------------------------------------------------------------------------
(* A statement of the repository that the code does not keep.              *)

(* Migration 008: a resolved proposal cannot be modified.  An approved     *)
(* proposal can become rejected, and its configuration, in use, superseded. *)
ResolvedIsFinal ==
  [][\A p \in Proposals : proposals[p].status \in {"approved", "rejected"} =>
       proposals'[p].status = proposals[p].status]_vars

===============================================================================
