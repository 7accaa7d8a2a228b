SPECIFICATION Spec
CONSTANTS
  Call <- TwoCalls
  Key = {"k1", "k2"}
  Request = {"put1", "merge"}
  KeyOf <- RaceKeyOf
  RequestOf <- MergeRequestOf
  Kind <- MergeKind
  Base <- MergeBase
  Retries <- OneRetry
  Faults = TRUE
  Overrun = TRUE
  Cleanup = TRUE
CHECK_DEADLOCK FALSE
INVARIANTS
  TruthfulSuccess
  VersionedOnce
  VersionWrittenOnce
