\* A misprogramming flash part and the reboot service's own flush.
SPECIFICATION Spec
CONSTANTS
  Blocks = {b1, b2}
  Recs = {r1}
  Vals = {v1, v2}
  PairCount = 2
  MaxSequence = 3
  FlashFaults = TRUE
  RebootService = TRUE
  Torn = Torn
  None = None
INVARIANTS CleanCacheIsDurable
