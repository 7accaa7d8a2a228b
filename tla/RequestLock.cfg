SPECIFICATION Spec
CONSTANTS
  Call <- TwoCalls
  Key = {"k1"}
  Request = {"comment", "put1"}
  KeyOf <- SharedKeyOf
  RequestOf <- OtherRequestOf
  Kind <- SharedKind
  Base <- SharedBase
  Retries <- OneRetry
  Faults = TRUE
  Overrun = FALSE
  Cleanup = FALSE
CHECK_DEADLOCK FALSE
INVARIANTS
  OneExecutorPerKey
PROPERTIES
  CompletedIsFinal
  LockReleased
  CallSettles
