SPECIFICATION Spec
CONSTANTS
  Person = {"ann", "bob"}
  Account = {"ann"}
  Bootstrap = {"bob"}
  Role = {"admin", "pm"}
  Member <- TwoAndOne
  WriteRole = {"admin"}
  Sync = {s1, s2}
SYMMETRY Syncs
INVARIANTS
  SyncAligns
PROPERTIES
  LockoutOnlyByStaleSync
