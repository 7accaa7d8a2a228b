\* Two pages, the worker and an administrator, on a day between two pay days and after the end of the month.
SPECIFICATION Spec
CONSTANTS
  Page = {p1, p2}
  Tx = {salary, bonus}
  Labor = {salary}
  Keyword = {bonus}
  TxDay <- Days
  LastDay = 10
  Weekend = {4, 5}
  PayDay = {3, 10}
  CheckDay = {4, 11}
  MaxInput = 3
  Faults = TRUE
CHECK_DEADLOCK FALSE
INVARIANTS ConfirmationKept ConfirmedWasJudged MissingReported
PROPERTIES JudgementsKept PagesSettle
