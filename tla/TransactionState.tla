--------------------------- MODULE TransactionState ---------------------------
(***************************************************************************)
(* The approval of a transaction (routes/transactions.mjs,                 *)
(* state-policy.mjs): people read it and then create, edit, submit,        *)
(* approve or reject it with the version they have read; evidence routes   *)
(* merge into it whatever its version; the outbox worker notifies          *)
(* approvers of a submission and the submitter of a decision, from the     *)
(* document as it is by then (notifications.mjs).                          *)
(*                                                                         *)
(* Abstractions: one transaction; its fields but for the workflow's are    *)
(* one value, the version that wrote them; the ledger that the POST route  *)
(* creates on demand, the audit entry and the events nobody is notified of *)
(* are left out; the outbox is the set of undelivered state_changed        *)
(* events, which OutboxWorker refines.  A definition called a mutant is no *)
(* part of the model.                                                      *)
(***************************************************************************)
EXTENDS Naturals, FiniteSets

CONSTANTS
  Actor,       \* members
  Editor,      \* those whose role is in writeCore
  Approver,    \* those with the role admin or finance
  Submitter,   \* those with the permission transaction:submit
  Decider,     \* those with transaction:approve and transaction:reject
  Nobody,      \* the value of a field that is not set
  MaxVersion   \* bound: how often the document is written

(* OTHER is what only a generic write stores. *)
State == {"DRAFT", "SUBMITTED", "APPROVED", "REJECTED", "OTHER"}

ASSUME ConstantsAssumption ==
  /\ Editor \union Approver \union Submitter \union Decider \subseteq Actor
  /\ Nobody \notin Actor
  /\ MaxVersion \in Nat

VARIABLES
  tx,        \* the document; version 0 while it does not exist
  seen,      \* [Actor -> what the actor has last read of it]
  round,     \* the version that submitted it last, 0 if none
  events,    \* transaction.state_changed events ever enqueued
  done,      \* events the outbox worker is done with
  notices    \* notifications, <<event, recipient>>: the id is their hash

vars == <<tx, seen, round, events, done, notices>>

(* What an actor bases a write on: the version, which is sent along, and what
   it stands for. *)
Seen(t) == [version |-> t.version, state |-> t.state, content |-> t.content]

NoTransaction ==
  [version |-> 0, state |-> "DRAFT", content |-> 0, createdBy |-> Nobody,
   updatedBy |-> Nobody, submittedBy |-> Nobody, approvedBy |-> Nobody]

Init ==
  /\ tx = NoTransaction
  /\ seen = [a \in Actor |-> Seen(NoTransaction)]
  /\ round = 0
  /\ events = {}
  /\ done = {}
  /\ notices = {}

-----------------------------------------------------------------------------
(* GET: somebody opens the transaction. *)
Open(a) ==
  /\ tx.version > 0
  /\ seen' = [seen EXCEPT ![a] = Seen(tx)]
  /\ UNCHANGED <<tx, round, events, done, notices>>

(* A write that replaces the given fields and keeps the others. *)
Write(a, state, content) ==
  [tx EXCEPT !.version = @ + 1,
             !.state = state,
             !.content = content,
             !.createdBy = IF @ = Nobody THEN a ELSE @,
             !.updatedBy = a]

(* Becoming SUBMITTED starts a new round of approval. *)
NewRound(state) ==
  round' = IF state = "SUBMITTED" /\ tx.state # "SUBMITTED"
           THEN tx.version + 1 ELSE round

(* Mutant: an edit with a stale version is let through. *)
EditBlind(a, state) ==
  /\ a \in Editor
  /\ tx.version < MaxVersion
  /\ tx' = Write(a, state, tx.version + 1)
  /\ NewRound(state)
  /\ UNCHANGED <<seen, events, done, notices>>

(* Mutant for SignaturesKept: an edit may name the submitter itself. *)
EditNaming(a, state) ==
  /\ a \in Editor
  /\ tx.version < MaxVersion
  /\ seen[a].version = tx.version
  /\ tx' = [Write(a, state, tx.version + 1) EXCEPT !.submittedBy = a]
  /\ NewRound(state)
  /\ UNCHANGED <<seen, events, done, notices>>

(* POST /transactions sets the state of the payload, DRAFT without one, and a
   generic write the state of its patch, the old one without: neither asks
   the transition policy.  stripServerManagedFields keeps both from naming a
   submitter or an approver. *)
Edit(a, state) ==
  /\ a \in Editor
  /\ tx.version < MaxVersion
  /\ seen[a].version = tx.version
  /\ tx' = Write(a, state, tx.version + 1)
  /\ NewRound(state)
  /\ UNCHANGED <<seen, events, done, notices>>

(* The evidence routes, with mergeSystemManagedDoc. *)
Attach(a) ==
  /\ 0 < tx.version /\ tx.version < MaxVersion
  /\ tx' = Write(a, tx.state, tx.version + 1)
  /\ UNCHANGED <<seen, round, events, done, notices>>

(* Mutant: a decision can be changed. *)
AllowedAgain(from, to) ==
  \/ <<from, to>> \in {<<"DRAFT", "SUBMITTED">>, <<"REJECTED", "SUBMITTED">>}
  \/ from # "DRAFT" /\ to \in {"APPROVED", "REJECTED"}

(* ALLOWED_TRANSITIONS *)
Allowed(from, to) ==
  <<from, to>> \in {<<"DRAFT", "SUBMITTED">>, <<"REJECTED", "SUBMITTED">>,
                    <<"SUBMITTED", "APPROVED">>, <<"SUBMITTED", "REJECTED">>}

Permitted(a, to) ==
  \/ to = "SUBMITTED" /\ a \in Submitter
  \/ to \in {"APPROVED", "REJECTED"} /\ a \in Decider

(* Whom a decision is for: the submitter, or the creator of a document whose
   state was submitted by an edit. *)
SubmitterOf(t) == IF t.submittedBy # Nobody THEN t.submittedBy ELSE t.createdBy

(* PATCH /transactions/:txId/state *)
ChangeState(a, to) ==
  /\ 0 < tx.version /\ tx.version < MaxVersion
  /\ Permitted(a, to)
  /\ seen[a].version = tx.version
  /\ Allowed(tx.state, to)
  /\ tx' = [Write(a, to, tx.content) EXCEPT
              !.submittedBy = IF to = "SUBMITTED" THEN a ELSE @,
              !.approvedBy = IF to = "APPROVED" THEN a ELSE @]
  /\ NewRound(to)
  /\ events' = events \union
       {[id |-> tx.version + 1, next |-> to, by |-> a, round |-> round,
         author |-> SubmitterOf(tx)]}
  /\ UNCHANGED <<seen, done, notices>>

(* Mutant: the creator is told, whoever submitted. *)
RecipientsOfCreated(e) ==
  IF e.next = "SUBMITTED" THEN Approver ELSE {tx.createdBy}

(* createNotificationsForOutboxEvent: the event does not name its actor, and
   the submitter is the one of the document as it is now. *)
RecipientsOf(e) ==
  IF e.next = "SUBMITTED" THEN Approver
  ELSE {SubmitterOf(tx)}

(* The outbox worker: a try may fail after some of the notifications. *)
Deliver(e) ==
  /\ e \in events \ done
  /\ \E sent \in SUBSET RecipientsOf(e) :
       /\ notices' = notices \union ({e} \X sent)
       /\ done' = IF sent = RecipientsOf(e) THEN done \union {e} ELSE done
  /\ UNCHANGED <<tx, seen, round, events>>

-----------------------------------------------------------------------------
Next ==
  \/ \E a \in Actor :
       \/ Open(a) \/ Attach(a)
       \/ \E state \in State : Edit(a, state) \/ ChangeState(a, state)
  \/ \E e \in events : Deliver(e)

Spec == Init /\ [][Next]_vars

-----------------------------------------------------------------------------
(* Properties *)

Document ==
  [version : 0 .. MaxVersion, state : State, content : 0 .. MaxVersion,
   createdBy : Actor \union {Nobody}, updatedBy : Actor \union {Nobody},
   submittedBy : Actor \union {Nobody}, approvedBy : Actor \union {Nobody}]

Event ==
  [id : 1 .. MaxVersion, next : State, by : Actor, round : 0 .. MaxVersion,
   author : Actor \union {Nobody}]

(* Every variable keeps the shape of the documents it stands for. *)
TypeOK ==
  /\ tx \in Document
  /\ seen \in [Actor -> [version : 0 .. MaxVersion, state : State,
                         content : 0 .. MaxVersion]]
  /\ round \in 0 .. MaxVersion
  /\ events \subseteq Event
  /\ done \subseteq events
  /\ notices \subseteq events \X (Actor \union {Nobody})

(* Nobody approves, rejects, submits or reopens what they have not seen: a
   write that changes the state is made by someone whose last look at the
   document shows it as it is, with all edits and evidences so far. *)
InformedChange ==
  [][tx'.state # tx.state => seen[tx'.updatedBy] = Seen(tx)]_vars

Decisions == {e \in events : e.next \in {"APPROVED", "REJECTED"}}

(* A submission is decided once: two approvers who decide at the same time do
   not both succeed, and a decision is not changed before it is submitted
   again. *)
DecidedOnce ==
  \A d, e \in Decisions : d.round = e.round => d = e

Latest(e) == \A f \in events : f.next = e.next => f.id <= e.id

(* The document names the members who submitted and approved it last, whatever
   is edited or merged into it afterwards. *)
SignaturesKept ==
  \A e \in events : Latest(e) =>
    /\ e.next = "SUBMITTED" => tx.submittedBy = e.by
    /\ e.next = "APPROVED" => tx.approvedBy = e.by

(* Another member has submitted it since the event. *)
Overtaken(e) ==
  \E f \in events : f.next = "SUBMITTED" /\ f.id > e.id /\ f.by # e.author

(* When the event of a decision is done, the member whose submission was
   decided has been notified, unless another has submitted the transaction
   again: the recipient is read when the event is delivered, by the daily cron
   run, and edits, evidences and reopening do not change it, but a
   resubmission does. *)
DecisionReachesSubmitter ==
  \A e \in done \intersect Decisions :
    <<e, e.author>> \in notices \/ Overtaken(e)

(* The inductive strengthening: a version stands for one document. *)
SeenInv ==
  \A a \in Actor :
    /\ seen[a].version <= tx.version
    /\ seen[a].version = tx.version => seen[a] = Seen(tx)

RoundInv ==
  /\ round <= tx.version
  /\ \A e \in events : e.id <= tx.version
  /\ tx.state = "SUBMITTED" => \A e \in Decisions : e.round < round
  /\ \A e \in Decisions : e.round <= round
  /\ DecidedOnce

AuthorInv ==
  /\ tx.version > 0 => tx.createdBy # Nobody
  /\ \A e \in Decisions : SubmitterOf(tx) = e.author \/ Overtaken(e)
=============================================================================
