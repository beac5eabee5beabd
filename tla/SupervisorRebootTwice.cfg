\* A second reboot request, refused while the first is granted.
SPECIFICATION FairSpec
CONSTANTS
  FifoDepth = 2
  Outs = {"WRITE", "LAST", "REBOOT"}
  FlushFaults = FALSE
  StopTwice = FALSE
  RebootTwice = TRUE
INVARIANTS RebootIsSafe
