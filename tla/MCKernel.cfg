\* One cycle, three tasks: overlapping deliveries, evaluations, confirmations;
\* and an unending scheduler, for EligibleIsLeft alone.
SPECIFICATION FairSpec
CONSTANTS
  c1 = c1  r1 = r1
  Cycles = {c1}
  TxRefs = {r1, r2}
  CycleOf <- MCCycleOf
  AmountOf <- MCAmountOf
  Threshold <- MCThreshold
  OpRefs = {x1, x2}
  PayoutOf <- MCPayoutOf
  Tasks = {t1, t2, t3}
  MaxCrashes = 1
INVARIANTS
  TypeOK
  BooksAgree
  CollectedIsSumOfReconciled
  PaidOnceAndBacked
  LedgerExplainsCycle
  OutboxMirrorsLedger
  Inductive
PROPERTIES
  ClosedIsFinal
  KeepsPromise
  EligibleIsLeft
CHECK_DEADLOCK FALSE
