\* A contribution checked before a payout is triggered lands after it.  No
\* operator calls, so that only the payout takes the cycle out of committed.
SPECIFICATION Spec
CONSTANTS
  c1 = c1  r1 = r1
  Cycles = {c1}
  TxRefs = {r1, r2}
  CycleOf <- MCCycleOf
  AmountOf <- MCAmountOf
  Threshold <- MCThreshold
  OpRefs = {}
  PayoutOf <- MCPayoutOf
  Tasks = {t1, t2, t3}
  MaxCrashes = 0
PROPERTY
  ContributionOnlyOnCommitted
CHECK_DEADLOCK FALSE
