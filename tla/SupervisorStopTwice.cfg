\* A second stop command while core 1 resumes.
SPECIFICATION FairSpec
CONSTANTS
  FifoDepth = 2
  Outs = {"WRITE", "LAST"}
  FlushFaults = FALSE
  StopTwice = TRUE
  RebootTwice = FALSE
PROPERTIES StopResumes
