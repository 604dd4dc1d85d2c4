\* Two members and a founder who is not one, two proposals, two requests.
SPECIFICATION Spec
CONSTANTS
  m1 = m1  m2 = m2  m3 = m3
  Members = {m2, m3}
  Founder = m1
  Base = base
  Proposals = {p1, p2}
  Quorums = {51}
  Requests = {t1, t2}
INVARIANTS
  TypeOK
  CommittedIsActive
  VersionsOrdered
  OneVoteEach
  ActiveHadQuorum
PROPERTY
  InForceReplacedBySuccessor
SYMMETRY Interchangeable
CHECK_DEADLOCK FALSE
