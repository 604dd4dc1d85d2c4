----------------------------- MODULE MCGovernance -----------------------------
(***************************************************************************)
(* Governance for TLC: three governors, m1 the founder.  The other two,    *)
(* the proposals and the requests are interchangeable.                     *)
(***************************************************************************)
EXTENDS Governance, TLC

CONSTANTS m1, m2, m3

Interchangeable ==
  Permutations({m2, m3}) \cup Permutations(Proposals) \cup Permutations(Requests)

===============================================================================
