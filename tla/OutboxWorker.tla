---------------------------- MODULE OutboxWorker ----------------------------
(***************************************************************************)
(* The outbox and its workers (outbox.mjs).  Write transactions create     *)
(* events; any number of workers - the daily cron endpoint, the one-shot   *)
(* and the looping worker process - run processOutboxBatch concurrently:   *)
(* scan the due events, claim each in a transaction, deliver it, notify    *)
(* its recipients (notifications.mjs), and mark the outcome with a merge   *)
(* outside of any transaction.                                             *)
(*                                                                         *)
(* Abstractions: nextAttemptAt is only whether it has passed; the batch    *)
(* limit of a status query is not reached; the recipients of an event are  *)
(* given (those of a transaction.state_changed event, none for others); a  *)
(* Firestore call that throws has had no effect.  A definition called a    *)
(* mutant is no part of the model: it is a bug a property must catch.      *)
(***************************************************************************)
EXTENDS Naturals, FiniteSets

CONSTANTS
  Event,         \* outbox events
  Worker,        \* concurrent runs of processOutboxBatch
  Recipient,     \* members that can be notified
  RecipientsOf,  \* whom createNotificationsForOutboxEvent notifies of an event
  MaxAttempts,   \* maxAttempts, 8 by default
  NoEvent,       \* the claim of a worker that handles no event
  Crashes        \* may a worker die, or fail to record a failure?

ASSUME ConstantsAssumption ==
  /\ RecipientsOf \in [Event -> SUBSET Recipient]
  /\ MaxAttempts \in Nat \ {0}
  /\ NoEvent \notin Event
  /\ Crashes \in BOOLEAN

VARIABLES
  status,     \* [Event -> status of the outbox document]
  attempts,   \* [Event -> attempts of the outbox document]
  due,        \* events whose nextAttemptAt has passed
  pc,         \* [Worker -> where processOutboxBatch is]
  batch,      \* [Worker -> scanned documents, <<event, attempts>>, still to claim]
  claimed,    \* [Worker -> the claimed event, NoEvent between claims]
  todo,       \* [Worker -> recipients the handler has still to notify]
  delivered,  \* events with a document in outbox_deliveries
  notified    \* notifications, <<event, recipient>>: the id is their hash

vars == <<status, attempts, due, pc, batch, claimed, todo, delivered, notified>>

(* Mutant: the scan and the claim forget the events to be retried. *)
ClaimablePending == {e \in Event : status[e] = "PENDING" /\ e \in due}

(* What the status queries list and claimEvent accepts. *)
Claimable == {e \in Event : status[e] \in {"PENDING", "FAILED"} /\ e \in due}

Init ==
  /\ status = [e \in Event |-> "absent"]
  /\ attempts = [e \in Event |-> 0]
  /\ due = {}
  /\ pc = [w \in Worker |-> "idle"]
  /\ batch = [w \in Worker |-> {}]
  /\ claimed = [w \in Worker |-> NoEvent]
  /\ todo = [w \in Worker |-> {}]
  /\ delivered = {}
  /\ notified = {}

-----------------------------------------------------------------------------
(* A committed write transaction creates its event, due at once. *)
Enqueue(e) ==
  /\ status[e] = "absent"
  /\ status' = [status EXCEPT ![e] = "PENDING"]
  /\ due' = due \union {e}
  /\ UNCHANGED <<attempts, pc, batch, claimed, todo, delivered, notified>>

(* The retry delay of a failed event, min(300, 2^n) s, runs out. *)
BecomeDue(e) ==
  /\ status[e] = "FAILED"
  /\ e \notin due
  /\ due' = due \union {e}
  /\ UNCHANGED <<status, attempts, pc, batch, claimed, todo, delivered, notified>>

(* The two status queries, and the list of their documents without repeats. *)
Scan(w) ==
  /\ pc[w] = "idle"
  /\ Claimable # {}
  /\ pc' = [pc EXCEPT ![w] = "batch"]
  /\ batch' = [batch EXCEPT ![w] = {<<e, attempts[e]>> : e \in Claimable}]
  /\ UNCHANGED <<status, attempts, due, claimed, todo, delivered, notified>>

(* Mutant: the claim trusts the scan, and does not read the document again. *)
ClaimScanned(w, doc) ==
  /\ pc[w] = "batch"
  /\ status' = [status EXCEPT ![doc[1]] = "PROCESSING"]
  /\ attempts' = [attempts EXCEPT ![doc[1]] = @ + 1]
  /\ batch' = [batch EXCEPT ![w] = @ \ {doc}]
  /\ claimed' = [claimed EXCEPT ![w] = doc[1]]
  /\ pc' = [pc EXCEPT ![w] = "deliver"]
  /\ UNCHANGED <<due, todo, delivered, notified>>

(* claimEvent's transaction reads the document again. *)
Claim(w, doc) ==
  LET e == doc[1] IN
  /\ pc[w] = "batch"
  /\ e \in Claimable
  /\ status' = [status EXCEPT ![e] = "PROCESSING"]
  /\ attempts' = [attempts EXCEPT ![e] = @ + 1]
  /\ batch' = [batch EXCEPT ![w] = @ \ {doc}]
  /\ claimed' = [claimed EXCEPT ![w] = e]
  /\ pc' = [pc EXCEPT ![w] = "deliver"]
  /\ UNCHANGED <<due, todo, delivered, notified>>

(* claimEvent returns null: another worker took the event since the scan, or
   tried it, and its next time lies after nowIso, which is the scan's time. *)
Skip(w, doc) ==
  /\ pc[w] = "batch"
  /\ doc[1] \notin Claimable \/ attempts[doc[1]] # doc[2]
  /\ batch' = [batch EXCEPT ![w] = @ \ {doc}]
  /\ UNCHANGED <<status, attempts, due, pc, claimed, todo, delivered, notified>>

EndBatch(w) ==
  /\ pc[w] = "batch"
  /\ batch[w] = {}
  /\ pc' = [pc EXCEPT ![w] = "idle"]
  /\ UNCHANGED <<status, attempts, due, batch, claimed, todo, delivered, notified>>

(* defaultOutboxHandler: create the delivery document, unless it exists, then
   list the recipients. *)
Deliver(w) ==
  /\ pc[w] = "deliver"
  /\ delivered' = delivered \union {claimed[w]}
  /\ todo' = [todo EXCEPT ![w] = RecipientsOf[claimed[w]]]
  /\ pc' = [pc EXCEPT ![w] = "notify"]
  /\ UNCHANGED <<status, attempts, due, batch, claimed, notified>>

(* One create per recipient; a notification that exists already is kept. *)
Notify(w, r) ==
  /\ pc[w] = "notify"
  /\ r \in todo[w]
  /\ notified' = notified \union {<<claimed[w], r>>}
  /\ todo' = [todo EXCEPT ![w] = @ \ {r}]
  /\ UNCHANGED <<status, attempts, due, pc, batch, claimed, delivered>>

(* The worker is done with its event and goes on with its batch. *)
Release(w) ==
  /\ claimed' = [claimed EXCEPT ![w] = NoEvent]
  /\ todo' = [todo EXCEPT ![w] = {}]
  /\ pc' = [pc EXCEPT ![w] = "batch"]

(* Mutant: the success is written before the notifications. *)
MarkSuccessEarly(w) ==
  /\ pc[w] = "notify"
  /\ status' = [status EXCEPT ![claimed[w]] = "DONE"]
  /\ Release(w)
  /\ UNCHANGED <<attempts, due, batch, delivered, notified>>

MarkSuccess(w) ==
  /\ pc[w] = "notify"
  /\ todo[w] = {}
  /\ status' = [status EXCEPT ![claimed[w]] = "DONE"]
  /\ Release(w)
  /\ UNCHANGED <<attempts, due, batch, delivered, notified>>

(* The handler or markSuccess throws. *)
HandlerError(w) ==
  /\ pc[w] \in {"deliver", "notify"}
  /\ pc' = [pc EXCEPT ![w] = "failing"]
  /\ UNCHANGED <<status, attempts, due, batch, claimed, todo, delivered, notified>>

(* Mutant: the last try is miscounted. *)
MarkFailureLate(w) ==
  /\ pc[w] = "failing"
  /\ status' = [status EXCEPT ![claimed[w]] =
                  IF attempts[claimed[w]] > MaxAttempts THEN "DEAD" ELSE "FAILED"]
  /\ due' = due \ {claimed[w]}
  /\ Release(w)
  /\ UNCHANGED <<attempts, batch, delivered, notified>>

MarkFailure(w) ==
  LET e == claimed[w] IN
  /\ pc[w] = "failing"
  /\ status' = [status EXCEPT ![e] =
                  IF attempts[e] >= MaxAttempts THEN "DEAD" ELSE "FAILED"]
  /\ due' = due \ {e}
  /\ Release(w)
  /\ UNCHANGED <<attempts, batch, delivered, notified>>

(* The process dies, or claimEvent or markFailure throws out of the loop: the
   rest of the batch is dropped, and nothing takes back a claimed event. *)
Abort(w) ==
  /\ Crashes
  /\ pc[w] # "idle"
  /\ pc' = [pc EXCEPT ![w] = "idle"]
  /\ batch' = [batch EXCEPT ![w] = {}]
  /\ claimed' = [claimed EXCEPT ![w] = NoEvent]
  /\ todo' = [todo EXCEPT ![w] = {}]
  /\ UNCHANGED <<status, attempts, due, delivered, notified>>

-----------------------------------------------------------------------------
Progress(w) ==
  \/ Scan(w) \/ EndBatch(w) \/ Deliver(w) \/ MarkSuccess(w) \/ MarkFailure(w)
  \/ \E doc \in batch[w] : Claim(w, doc) \/ Skip(w, doc)
  \/ \E r \in Recipient : Notify(w, r)

Next ==
  \/ \E e \in Event : Enqueue(e) \/ BecomeDue(e)
  \/ \E w \in Worker : Progress(w) \/ HandlerError(w) \/ Abort(w)

(* Workers are run again and again (cron, or the worker loop), a running one
   makes progress, and retry delays run out. *)
Fairness ==
  /\ \A w \in Worker : WF_vars(Progress(w))
  /\ \A e \in Event : WF_vars(BecomeDue(e))

Spec == Init /\ [][Next]_vars /\ Fairness

-----------------------------------------------------------------------------
(* Properties *)

(* Every variable keeps the shape of the documents and loops it stands for. *)
TypeOK ==
  /\ status \in [Event -> {"absent", "PENDING", "PROCESSING", "FAILED",
                           "DONE", "DEAD"}]
  /\ attempts \in [Event -> Nat]
  /\ due \subseteq Event
  /\ pc \in [Worker -> {"idle", "batch", "deliver", "notify", "failing"}]
  /\ batch \in [Worker -> SUBSET (Event \X Nat)]
  /\ claimed \in [Worker -> Event \union {NoEvent}]
  /\ todo \in [Worker -> SUBSET Recipient]
  /\ delivered \subseteq Event
  /\ notified \subseteq Event \X Recipient

(* The effect of an event is complete: delivered, and everyone notified. *)
Complete(e) == e \in delivered /\ {e} \X RecipientsOf[e] \subseteq notified

(* An event marked DONE has been delivered and all its recipients notified,
   even if the worker that did part of it failed or died. *)
DoneIsComplete == \A e \in Event : status[e] = "DONE" => Complete(e)

(* The claim transaction excludes: no two workers handle the same event. *)
OneHandlerPerEvent ==
  \A v, w \in Worker : v # w /\ claimed[v] # NoEvent => claimed[v] # claimed[w]

(* maxAttempts bounds the tries, and only an event that has used them all is
   dead: a crash between claim and mark neither adds nor hides a try. *)
AttemptsBounded ==
  \A e \in Event :
    /\ attempts[e] <= MaxAttempts
    /\ status[e] \in {"absent", "PENDING", "FAILED"} => attempts[e] < MaxAttempts
    /\ status[e] = "DEAD" => attempts[e] = MaxAttempts

(* A claim that outlived its worker. *)
Orphaned(e) == status[e] = "PROCESSING" /\ \A w \in Worker : claimed[w] # e

(* Once workers stop dying, every event settles, whatever has failed before -
   but for those a worker took with it. *)
OthersSettle ==
  <>[][\A w \in Worker : ~Abort(w)]_vars =>
    \A e \in Event :
      status[e] = "PENDING" ~> status[e] \in {"DONE", "DEAD"} \/ Orphaned(e)

(* The inductive strengthening: a claimed event is PROCESSING and belongs to
   one worker, and what its handler has behind it is written. *)
ClaimInv ==
  /\ \A w \in Worker :
       /\ pc[w] \in {"deliver", "notify", "failing"} <=> claimed[w] # NoEvent
       /\ claimed[w] # NoEvent => status[claimed[w]] = "PROCESSING"
       /\ pc[w] = "notify" =>
            /\ claimed[w] \in delivered
            /\ \A r \in RecipientsOf[claimed[w]] \ todo[w] :
                 <<claimed[w], r>> \in notified
  /\ OneHandlerPerEvent
  /\ DoneIsComplete

(* The outbox as a queue that promises at-least-once delivery. *)
Outcome(s) ==
  CASE s = "absent" -> "none"
    [] s = "DONE" -> "done"
    [] s = "DEAD" -> "dead"
    [] OTHER -> "open"

Abstract == INSTANCE AtLeastOnce WITH
  Item <- Event,
  state <- [e \in Event |-> Outcome(status[e])],
  effects <- {e \in Event : Complete(e)}

(* Every step of the workers is a step of the abstract queue or none. *)
ImplementsAtLeastOnce == Abstract!Spec
=============================================================================
