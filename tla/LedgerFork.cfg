\* Overlapping appends chain two entries to the same one.
SPECIFICATION Spec
CONSTANTS
  EntryKeys = {k1, k2, k3}
  Writers = {t1, t2, t3}
  MaxAppends = 4
INVARIANT
  ChainedToPreceding
CHECK_DEADLOCK FALSE
