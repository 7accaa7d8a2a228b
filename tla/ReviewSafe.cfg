\* Two pages that save, review, resubmit and trash one project.
SPECIFICATION ReviewSpec
CONSTANTS
  Portal = {p}
  Console = {c}
  Data = {d1, d2}
  MaxWrites = 5
  Faults = TRUE
SYMMETRY Symmetric
CHECK_DEADLOCK FALSE
INVARIANTS HistoryTells RequestAgrees ResubmissionTimely
PROPERTIES HistoryKept WritesApart
