SPECIFICATION Spec
CONSTANTS
  Write = {"w1", "w2"}
  Source = {"transaction", "change_request"}
  View = {"approval_inbox"}
  SourceOf <- TwoSourceOf
  Reads <- InboxReads
  Affects <- InboxAffects
  Cron <- OneCron
  Sync = {FALSE}
  Replayed = {"w1"}
  Rank <- IdRank
  ScanLimit = 99
  MaxAttempts = 2
  NoJob = NoJob
  Crashes = TRUE
CHECK_DEADLOCK FALSE
INVARIANTS
  DoneJobsKept
  TablesCatchUp
