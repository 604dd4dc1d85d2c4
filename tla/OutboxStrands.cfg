\* A crash leaves a claimed event in `processing` for ever.
SPECIFICATION FairSpec
CONSTANTS
  Events = {e1, e2, e3}
  Payouts = {e1, e2}
  Immediate = {e1}
  Workers = {w1, w2}
  MaxAttempts = 3
  BatchSize = 2
  AlarmAttempts = 1
  ReportLimit = 1
  MaxLosses = 1
PROPERTY
  AtLeastOnce
CHECK_DEADLOCK FALSE
