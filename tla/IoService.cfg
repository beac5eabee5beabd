\* Every port access against the worker.
SPECIFICATION FairSpec
CONSTANTS
  MaxPayload = 2
  GenerationModulus = 3
INVARIANTS TypeOK ResponseIsOwn GateHasOwner
PROPERTIES BusyEnds
