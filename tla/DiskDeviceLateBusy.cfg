\* A command submitted while core 1 latches a failed flush.
SPECIFICATION FairSpec
CONSTANTS
  DriveCount = 1
  RecordCount = 1
  RecordWords = 2
  SlotCount = 1
  SequenceModulus = 8
  Words = {w0, w1}
  Addresses <- TwoDrives
  Commands = {0, 1, 2, 3, 5, 6}
  Payloads <- Uniform
  FlushFaults = TRUE
  Supervised = TRUE
PROPERTIES FatalIsNotBusy
