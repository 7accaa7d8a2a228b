\* Two weeks, two overlapping saves of the rows and two clients.
SPECIFICATION Spec
CONSTANTS
  Week = {w1, w2}
  Value = {none, a, unclear}
  Empty = none
  Unclear = {unclear}
  Sync = {s1, s2}
  Client = {c1, c2}
  MaxInput = 3
  Faults = TRUE
SYMMETRY Symmetric
CHECK_DEADLOCK FALSE
INVARIANTS SyncedMatches
PROPERTIES WeekKept HistoryKept
