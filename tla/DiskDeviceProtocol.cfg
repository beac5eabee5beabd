\* Every command, failing flushes, the supervisor's flush and the write gate.
SPECIFICATION FairSpec
CONSTANTS
  DriveCount = 1
  RecordCount = 1
  RecordWords = 2
  SlotCount = 1
  SequenceModulus = 8
  Words = {w0, w1}
  Addresses <- TwoDrives
  Commands = {0, 1, 2, 3, 5, 6}
  Payloads <- Uniform
  FlushFaults = TRUE
  Supervised = TRUE
INVARIANTS TypeOK HandshakeIsSound QuiescentIsSettled
PROPERTIES FatalIsFinal CommandCompletes
