SPECIFICATION Spec
CONSTANTS
  Event = {"submitted", "upsert"}
  Worker = {"cron", "loop"}
  Recipient = {"admin", "finance"}
  RecipientsOf <- MCRecipientsOf
  MaxAttempts = 2
  NoEvent = NoEvent
  Crashes = TRUE
CHECK_DEADLOCK FALSE
INVARIANTS
  OneHandlerPerEvent
  AttemptsBounded
PROPERTIES
  ImplementsAtLeastOnce
  OthersSettle
