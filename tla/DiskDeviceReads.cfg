\* Reads and writes against read-ahead, three records in one slot, sound flash.
SPECIFICATION Spec
CONSTANTS
  DriveCount = 1
  RecordCount = 3
  RecordWords = 2
  SlotCount = 1
  SequenceModulus = 8
  Words = {w0, w1}
  Addresses <- OneDrive
  Commands = {1, 2}
  Payloads <- Uniform
  FlushFaults = FALSE
  Supervised = FALSE
SYMMETRY WordSymmetry
INVARIANTS ReadReturnsLatest NoCacheRace
