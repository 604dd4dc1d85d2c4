\* Three writers, three keys, four calls of append.
SPECIFICATION FairSpec
CONSTANTS
  EntryKeys = {k1, k2, k3}
  Writers = {t1, t2, t3}
  MaxAppends = 4
INVARIANTS
  TypeOK
  ChainedToCommitted
  AuditsAgree
  IntactUnlessGapOrFork
  PartPassesOnlyAsPrefix
PROPERTY
  AppendsEnd
CHECK_DEADLOCK FALSE
