CONSTANTS
  Sig <- WithException
  Exc <- Cpu
  Unmaskable <- Kill
  DepthMax = 5
  Program = {"catch", "set", "remove", "bad-set", "throw", "io"}
SPECIFICATION FairSpec
INVARIANTS AllBlocked CountExact GcRestored
PROPERTIES DeferredHandled
CHECK_DEADLOCK FALSE
