---------------------------- MODULE ProjectReview ----------------------------
(***************************************************************************)
(* The executive review of a registered project (routes/projects.mjs) and  *)
(* the pages that save, review, resubmit, trash and restore it.  Saves and *)
(* the trash send the version of the page's copy and write the whole copy  *)
(* back; a review and a resubmission read the project, merge a status and  *)
(* a history computed from what they read, whatever its version is by      *)
(* then, and patch the project's request in a write of its own.  A page    *)
(* that resubmits first saves: two calls, four steps.  A review or a       *)
(* resubmission is sent once: its calls set retries to 0, which overrides  *)
(* the client's default of two, so a handler that throws is not run again. *)
(*                                                                         *)
(* Abstractions: what pages edit is one value, Data; a page stands for a   *)
(* person with one call under way, so the handler of a call that the       *)
(* client has given up is another page; the request is the document of     *)
(* project_requests that clients see.  Left out: who, when and comments,   *)
(* the audit entries and notices sent after the writes, the entries of a   *)
(* team that no page changes after registration, and the branches for      *)
(* clients without the BFF.  A definition called a mutant is no part of    *)
(* the model.                                                              *)
(***************************************************************************)
EXTENDS Naturals, SequencesExt

CONSTANTS
  Portal,      \* pages of project managers: PortalProjectEdit
  Console,     \* pages of executives and administrators
  Data,        \* what the form of a project may hold
  MaxWrites,   \* bound on the writes of the project
  Faults       \* whether a handler may end before its last step

Page == Portal \union Console

ASSUME ReviewAssumption ==
  /\ Portal \intersect Console = {}
  /\ Data # {}
  /\ MaxWrites \in Nat \ {0}
  /\ Faults \in BOOLEAN

Rejected == {"REVISION_REJECTED", "DUPLICATE_DISCARDED"}
ReviewStatus == {"PENDING", "APPROVED"} \union Rejected
Entry == [status : ReviewStatus, previous : ReviewStatus]

VARIABLES
  project,    \* the document of the project
  request,    \* the document of its request
  copy,       \* [Page -> what the page last received of both]
  call,       \* [Page -> where the handler of the page's call is]
  torn,       \* the request missed a review, or several raced to patch it
  elsewhere   \* the request was decided on the page of requests

reviewVars == <<project, request, copy, call, torn, elsewhere>>

Projects == [version : 1..MaxWrites, data : Data, status : ReviewStatus,
             history : Seq(Entry), trashed : BOOLEAN]
RequestStatus == {"none", "PENDING", "APPROVED", "REJECTED"}
Calls == [pc : {"rename", "read", "merge", "patch"},
          kind : {"save", "resubmit", "review"},
          status : ReviewStatus,   \* what a review or resubmission writes
          data : Data,             \* what a save wrote
          seen : Projects,         \* the page's copy, then what was read
          overtaken : BOOLEAN]     \* another saved or reviewed before the read
NoCall == [pc |-> "idle"]

ReviewTypeOK ==
  /\ project \in Projects
  /\ request \in [status : RequestStatus,
                  outcome : {"none"} \union (ReviewStatus \ {"PENDING"}),
                  payload : Data]
  /\ copy \in [Page -> [project : Projects, request : RequestStatus]]
  /\ call \in [Page -> Calls \union {NoCall}]
  /\ torn \in BOOLEAN
  /\ elsewhere \in BOOLEAN

(* Registration creates the project through POST /projects, with no review *)
(* status, and the request later: its status is "none" until it is there.  *)
ReviewInit ==
  \E d \in Data :
    /\ project = [version |-> 1, data |-> d, status |-> "PENDING",
                  history |-> <<>>, trashed |-> FALSE]
    /\ request = [status |-> "none", outcome |-> "none", payload |-> d]
    /\ copy = [p \in Page |-> [project |-> project, request |-> "none"]]
    /\ call = [p \in Page |-> NoCall]
    /\ torn = FALSE
    /\ elsewhere = FALSE

Idle(p) == call[p].pc = "idle"

(* A handler at step pc, or none if it has no further step. *)
NewCall(p, pc, kind, s, d) ==
  IF pc = "idle" THEN NoCall
  ELSE [pc |-> pc, kind |-> kind, status |-> s, data |-> d,
        seen |-> copy[p].project, overtaken |-> FALSE]
Patching == {p \in Page : call[p].pc = "patch"}

(* The calls after page p has committed a save or a review and goes on as c. *)
Overtaking(p, c) ==
  [q \in Page |->
     CASE q = p -> c
       [] q # p /\ call[q].pc \in {"rename", "read"} -> [call[q] EXCEPT !.overtaken = TRUE]
       [] OTHER -> call[q]]

-----------------------------------------------------------------------------
(* Registration ends with the request, already approved for the portal. *)
Register ==
  /\ request.status = "none"
  /\ request' = [request EXCEPT !.status = "APPROVED"]
  /\ torn' = (torn \/ (project.history # <<>> /\ Patching = {}))
  /\ UNCHANGED <<project, copy, call, elsewhere>>

(* A page receives the documents as they are. *)
Look(p) ==
  /\ Idle(p)
  /\ copy' = [copy EXCEPT ![p] = [project |-> project, request |-> request.status]]
  /\ UNCHANGED <<project, request, call, torn, elsewhere>>

(* A versioned write from the page's copy; a copy of another version is    *)
(* answered 409 and nothing happens.                                       *)
Versioned(p, document) ==
  /\ copy[p].project.version = project.version
  /\ project.version < MaxWrites
  /\ project' = [document EXCEPT !.version = project.version + 1]

CanResubmit(p) ==
  /\ p \in Portal
  /\ copy[p].project.status \in Rejected
  /\ copy[p].request # "none"

(* POST /projects with the page's copy and form; a new name may go on to   *)
(* rename the folder, a resubmission to its second call.                   *)
Save(p, d, kind) ==
  /\ Idle(p)
  /\ kind = "resubmit" => CanResubmit(p)
  /\ Versioned(p, [copy[p].project EXCEPT !.data = d])
  /\ \E pc \in {IF kind = "resubmit" THEN "read" ELSE "idle"}
               \union (IF d # project.data THEN {"rename"} ELSE {}) :
       call' = Overtaking(p, NewCall(p, pc, kind, "PENDING", d))
  /\ UNCHANGED <<request, copy, torn, elsewhere>>

(* mergeSystemManagedDoc with a patch of Drive's fields. *)
MergeDrive ==
  /\ project.version < MaxWrites
  /\ project' = [project EXCEPT !.version = @ + 1]

Rename(p) ==
  /\ call[p].pc = "rename"
  /\ MergeDrive
  /\ call' = [call EXCEPT ![p] = IF @.kind = "resubmit" THEN [@ EXCEPT !.pc = "read"]
                                ELSE NoCall]
  /\ UNCHANGED <<request, copy, torn, elsewhere>>

(* The routes that provision or link the project's folder. *)
Provision ==
  /\ MergeDrive
  /\ UNCHANGED <<request, copy, call, torn, elsewhere>>

(* The page of the executive sends a decision, but not what it shows. *)
Review(p, s) ==
  /\ Idle(p)
  /\ ~copy[p].project.trashed
  /\ call' = [call EXCEPT ![p] = NewCall(p, "read", "review", s, copy[p].project.data)]
  /\ UNCHANGED <<project, request, copy, torn, elsewhere>>

(* Mutant for ResubmissionTimely: the handler trusts the page's copy.      *)
ReadCopied(p) ==
  /\ call[p].pc = "read"
  /\ call' = [call EXCEPT ![p] = [@ EXCEPT !.pc = "merge",
                                           !.seen = copy[p].project]]
  /\ UNCHANGED <<project, request, copy, torn, elsewhere>>

(* ensureDocumentExists, of a review and of a resubmission. *)
Read(p) ==
  /\ call[p].pc = "read"
  /\ call' = [call EXCEPT ![p] = [@ EXCEPT !.pc = "merge", !.seen = project]]
  /\ UNCHANGED <<project, request, copy, torn, elsewhere>>

(* Mutant for HistoryTells: the previous status is read in the transaction. *)
ReviewedLate(c) ==
  [project EXCEPT !.version = @ + 1, !.status = c.status,
     !.history = Append(c.seen.history,
                        [status |-> c.status, previous |-> project.status])]

(* Mutant for HistoryKept: the merge of a system field keeps the version. *)
ReviewedUnversioned(c) ==
  [project EXCEPT !.status = c.status,
     !.history = Append(c.seen.history,
                        [status |-> c.status, previous |-> c.seen.status])]

(* Mutant for WritesApart: the whole document that was read is written. *)
ReviewedWhole(c) ==
  [c.seen EXCEPT !.version = project.version + 1, !.status = c.status,
     !.history = Append(c.seen.history,
                        [status |-> c.status, previous |-> c.seen.status])]

(* What a review or a resubmission makes of the project. *)
Reviewed(c) ==
  [project EXCEPT !.version = @ + 1, !.status = c.status,
     !.history = Append(c.seen.history,
                        [status |-> c.status, previous |-> c.seen.status])]

(* mergeSystemManagedDoc with the review: a transaction of its own, which  *)
(* replaces status and history by what was made of the read.               *)
Merge(p) ==
  /\ call[p].pc = "merge"
  /\ project.version < MaxWrites
  /\ project' = Reviewed(call[p])
  /\ call' = Overtaking(p, [call[p] EXCEPT !.pc = "patch"])
  /\ torn' = (Patching # {})
  /\ UNCHANGED <<request, copy, elsewhere>>

RequestStatusOf(s) ==
  CASE s \in {"PENDING", "APPROVED"} -> s
    [] s \in Rejected -> "REJECTED"
OutcomeOf(s) == IF s = "PENDING" THEN "none" ELSE s

(* Mutant for RequestAgrees: a resubmission keeps the outcome it answers. *)
PatchedOver(c) ==
  [status  |-> RequestStatusOf(c.status),
   outcome |-> IF c.status = "PENDING" THEN request.outcome ELSE c.status,
   payload |-> IF c.status = "PENDING" THEN c.seen.data ELSE request.payload]

(* The request after a review or a resubmission. *)
Patched(c) ==
  [status  |-> RequestStatusOf(c.status),
   outcome |-> OutcomeOf(c.status),
   payload |-> IF c.status = "PENDING" THEN c.seen.data ELSE request.payload]

(* The documents of the request are looked up and patched, if there are any. *)
Patch(p) ==
  /\ call[p].pc = "patch"
  /\ IF request.status = "none" THEN UNCHANGED <<request, elsewhere>>
     ELSE /\ request' = Patched(call[p])
          /\ elsewhere' = FALSE
  /\ call' = [call EXCEPT ![p] = NoCall]
  /\ UNCHANGED <<project, copy, torn>>

(* Any step may throw, the function may die, a second call may not be sent; *)
(* nobody repeats the call, as reviewProjectExecutiveStatusViaBff and       *)
(* resubmitProjectExecutiveReviewViaBff allow no retries.                   *)
Abandon(p) ==
  /\ Faults
  /\ ~Idle(p)
  /\ torn' = (torn \/ call[p].pc = "patch")
  /\ call' = [call EXCEPT ![p] = NoCall]
  /\ UNCHANGED <<project, request, copy, elsewhere>>

Trash(p) ==
  /\ Idle(p)
  /\ ~copy[p].project.trashed
  /\ Versioned(p, [project EXCEPT !.trashed = TRUE])
  /\ UNCHANGED <<request, copy, call, torn, elsewhere>>

Restore(p) ==
  /\ Idle(p)
  /\ copy[p].project.trashed
  /\ Versioned(p, [project EXCEPT !.trashed = FALSE])
  /\ UNCHANGED <<request, copy, call, torn, elsewhere>>

(* The page of requests decides a pending request, not its project. *)
DecideRequest(p, s) ==
  /\ Idle(p)
  /\ copy[p].request = "PENDING"
  /\ request' = [request EXCEPT !.status = s]
  /\ elsewhere' = TRUE
  /\ UNCHANGED <<project, copy, call, torn>>

ReviewNext ==
  \/ Register
  \/ Provision
  \/ \E p \in Page :
       \/ Look(p)
       \/ \E d \in Data, kind \in {"save", "resubmit"} : Save(p, d, kind)
       \/ Rename(p)
       \/ Read(p)
       \/ Merge(p)
       \/ Patch(p)
       \/ Abandon(p)
  \/ \E p \in Console :
       \/ \E s \in ReviewStatus \ {"PENDING"} : Review(p, s)
       \/ Trash(p)
       \/ Restore(p)
       \/ \E s \in {"APPROVED", "REJECTED"} : DecideRequest(p, s)

ReviewSpec == ReviewInit /\ [][ReviewNext]_reviewVars

-----------------------------------------------------------------------------
(* The history of a project reads as one story: each entry starts from the *)
(* status the one before left, and the last is the project's status - even *)
(* when reviews overlap and an entry is replaced (executive-review and     *)
(* resubmit compute both from one read).                                   *)
HistoryTells ==
  LET h == project.history
  IN /\ project.status = IF h = <<>> THEN "PENDING" ELSE Last(h).status
     /\ \A i \in 1 .. Len(h) :
          h[i].previous = IF i = 1 THEN "PENDING" ELSE h[i - 1].status

(* An entry of the history is lost only to a review or resubmission that   *)
(* had read the project before the entry was written; saves, the trash and *)
(* Drive's merges never drop one, although saves send the whole history    *)
(* back.                                                                   *)
HistoryKept ==
  [][\/ IsPrefix(project.history, project'.history)
     \/ \E p \in Page : /\ call[p].pc = "merge" /\ call'[p].pc = "patch"
                        /\ call[p].seen.history # project.history]_reviewVars

(* Every write changes its own part of the project: what is edited changes *)
(* by saves, the review by reviews and resubmissions, the trash by trash   *)
(* and restore, although each writes the whole document.                   *)
WritesApart ==
  [][/\ project'.data # project.data =>
          \E p \in Page, d \in Data, kind \in {"save", "resubmit"} : Save(p, d, kind)
     /\ (project'.status # project.status \/ project'.history # project.history) =>
          \E p \in Page : call[p].pc = "merge" /\ call'[p].pc = "patch"
     /\ project'.trashed # project.trashed =>
          \E p \in Page : Trash(p) \/ Restore(p)]_reviewVars

(* The request that clients see says what the project says of its review,  *)
(* when no handler is between the two writes, unless one ended there or    *)
(* two overlapped there, the request was registered after the review, or   *)
(* the page of requests decided it on its own.                             *)
RequestAgrees ==
  (Patching = {} /\ ~torn /\ request.status # "none" /\ project.history # <<>>) =>
    /\ request.outcome = OutcomeOf(project.status)
    /\ elsewhere \/ request.status = RequestStatusOf(project.status)

(* What is resubmitted is what was saved for it, of a project that was     *)
(* rejected, unless another page saved or reviewed between the two calls   *)
(* of handleResubmit.                                                      *)
ResubmissionTimely ==
  \A p \in Page :
    LET c == call[p]
    IN (c.pc \in {"merge", "patch"} /\ c.kind = "resubmit" /\ ~c.overtaken) =>
         c.seen.data = c.data /\ c.seen.status \in Rejected
=============================================================================
