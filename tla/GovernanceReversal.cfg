\* Lost votes let a stale rejection follow an approval.
SPECIFICATION Spec
CONSTANTS
  m1 = m1  m2 = m2  m3 = m3
  Members = {m1, m2, m3}
  Founder = m1
  Base = base
  Proposals = {p1}
  Quorums = {51}
  Requests = {t1, t2}
PROPERTY
  ResolvedIsFinal
CHECK_DEADLOCK FALSE
