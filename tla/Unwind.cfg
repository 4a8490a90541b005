CONSTANTS
  Tag = {"a"}
  DepthMax = 6
  Matches <- One
  Programs <- Transfers
SPECIFICATION Spec
INVARIANTS ContextKept HandlersOff NoAbort TransferKept
PROPERTIES Cleanups
CHECK_DEADLOCK FALSE
