--------------------------- MODULE MCOutboxWorker ---------------------------
(* Instances of OutboxWorker for TLC. *)
EXTENDS OutboxWorker, TLC

(* A state change that two approvers hear of, and an event nobody does. *)
MCRecipientsOf == "submitted" :> {"admin", "finance"} @@ "upsert" :> {}
=============================================================================
