\* Orderly stops and the Z80's reboot request against a Z80 that keeps using the disk.
SPECIFICATION FairSpec
CONSTANTS
  FifoDepth = 2
  Outs = {"CLEAR", "READ", "WRITE", "LAST", "FLUSH", "BAD", "REBOOT"}
  FlushFaults = TRUE
  StopTwice = FALSE
  RebootTwice = FALSE
INVARIANTS StoppedIsDurable RebootIsSafe
PROPERTIES PauseIsQuiet StopSettles
