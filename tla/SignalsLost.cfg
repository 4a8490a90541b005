CONSTANTS
  Sig <- Two
  Exc = {}
  Unmaskable <- Kill
  DepthMax = 6
  Program = {"catch", "set", "remove", "bad-set", "throw", "io"}
SPECIFICATION Spec
PROPERTIES DeferredKept
CHECK_DEADLOCK FALSE
