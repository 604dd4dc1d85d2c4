\* One event of the kernel, a payout with any provider or a notice with any
\* channels; one transfer, three dispatches, one loss, one restart.
SPECIFICATION FairSpec
CONSTANTS
  p1 = p1
  Events = {p1, n1}
  Payouts = {p1}
  Notices = {n1}
  Transfers = {t1}
  CycleOf <- CycleOfTransfers
  MaxAttempts = 3
  MaxRestarts = 1
  MaxReports = 2
  MaxLosses = 1
  MaxPosted = 1
INVARIANTS
  TypeOK
  MoneyMovesOnce
  KernelKnowsTruth
  OutcomeAccounted
  TransferAccounted
  NoticesHonest
PROPERTY
  OutcomeReachesKernel
CHECK_DEADLOCK FALSE
