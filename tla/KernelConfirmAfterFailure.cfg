\* A confirmation decided before a failure commits overwrites it.
SPECIFICATION Spec
CONSTANTS
  c1 = c1  r1 = r1
  Cycles = {c1}
  TxRefs = {r1, r2}
  CycleOf <- MCCycleOf
  AmountOf <- MCAmountOf
  Threshold <- MCThreshold
  OpRefs = {x1, x2}
  PayoutOf <- MCPayoutOf
  Tasks = {t1, t2, t3}
  MaxCrashes = 0
PROPERTY
  ConfirmedOnlyFromPending
CHECK_DEADLOCK FALSE
