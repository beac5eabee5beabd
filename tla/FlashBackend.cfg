\* Power cuts anywhere: sound flash with the reboot service, and misprogramming flash.
SPECIFICATION PartSpec
CONSTANTS
  Blocks = {b1, b2}
  Recs = {r1, r2}
  Vals = {v1, v2}
  PairCount = 2
  MaxSequence = 3
  FlashFaults = FALSE
  RebootService = TRUE
  Torn = Torn
  None = None
INVARIANTS TypeOK TornIsJournaled ServedSectorsAreDurable CleanCacheIsDurable SoundFlashBoots
PROPERTIES ImplementsAtomicDisk
