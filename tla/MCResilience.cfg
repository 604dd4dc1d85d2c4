\* One cycle with any policy, three tasks, a fund that covers nothing, a part
\* of a gap, the gap or more, contributions up to one above the threshold.
SPECIFICATION Spec
CONSTANTS
  Cycles = {c1}
  Tasks = {t1, t2, t3}
  Threshold = 3
  MaxCollected = 4
  MaxFund = 4
INVARIANTS
  TypeOK
  DebitsTold
  SchedulersApart
CHECK_DEADLOCK FALSE
