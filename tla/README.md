# InnerPlatform in TLA+

A model of the parts of InnerPlatform that people share and that can go wrong
between them: the *backend for frontend* (BFF) in `server/bff`, an Express
application on Firestore, run as serverless functions and by a few worker
processes, and the pages of the React client that write the tenant's documents
themselves. The modules model how requests, retries, queues, workers, open pages
and operators interleave and fail; TLC checks them on small instances and TLAPS
proves the safety properties for all values of the constants.

Paths are relative to the repository's root; `bff/` stands for `server/bff/`.

## 1. The system

### Components that carry the core logic

| Component | Source | State | Operations |
|---|---|---|---|
| Client request loop | `src/app/platform/api-client.ts` | attempt number, timer | send, time out, retry, throw |
| Idempotent mutating routes | `bff/idempotency.mjs`, `bff/bff-utils.mjs`, `bff/idempotency-cleanup.mjs` | `idempotency_keys` | begin, complete, fail, cleanup; versioned, merge and append writes |
| Transaction workflow | `bff/routes/transactions.mjs`, `bff/state-policy.mjs` | `transactions`, `evidences`, `comments` | upsert, change state, comment, attach evidence |
| Outbox and notifications | `bff/outbox.mjs`, `bff/notifications.mjs` | `outbox`, `outbox_deliveries`, `notifications` | enqueue with a write, claim, deliver, notify, mark |
| Generic write and projections | `bff/app.mjs`, `bff/relation-rules.mjs`, `bff/work-queue.mjs`, `bff/projections.mjs` | `change_events`, `work_queue`, `views` | write, claim, rebuild a view, mark, replay |
| Member roles | `bff/routes/members.mjs`, `bff/auth-governance.mjs`, `bff/rbac-policy.mjs` | `members`, custom claims of Firebase Auth | change a role, deep-sync a person |
| Audit chain | `bff/audit-chain.mjs`, `bff/routes/audit.mjs`, `scripts/pii_rotate_fields.mjs` | `audit_chain/head`, `audit_logs` | append, verify, rotate keys |
| Projects and executive review | `bff/routes/projects.mjs`, `PortalProjectEdit.tsx`, `ProjectMigrationAuditPage.tsx`, `ProjectRequestApprovalPage.tsx` | `projects`, `project_requests`, the copies of open pages | save, trash, restore, review, resubmit, decide a request |
| Payroll runs | `bff/payroll-worker.mjs`, `src/app/data/payroll-store.tsx`, `src/app/platform/payroll-review.ts`, `PortalPayrollPage.tsx` | `payroll_runs`, `payroll_schedules` | daily worker, review by open pages, judgement, confirmation |
| Weekly cash flow sheets | `src/app/data/cashflow-weeks-store.tsx`, `SettlementLedgerPage.tsx`, `CashflowWeeklyPage.tsx` | `cashflow_weeks`, `weekly_submission_status` | type amounts, sync them from the expense rows, submit, close, flag a variance |
| Expense sheet and bank import | `SettlementLedgerPage.tsx`, `PortalBankStatementPage.tsx`, `src/app/platform/bank-statement.ts`, `src/app/data/portal-store.tsx` | `expense_sheets`, `bank_statements`, `expense_intake`, the stores of open pages | edit and save the grid, upload and merge a statement, retry a save |
| Client error reports | `bff/app.mjs`, `bff/slack-alerts.mjs` | `client_error_events` | ingest, send to Slack, worker |

The remaining parts (authentication, PII encryption, Google Drive and Sheets,
language-model helpers, spreadsheet export, the calculation core in Rust, the
other stores and pages of the client, Firestore rules, scripts) are listed in
`PROJECT.json` with the reason why each is not modelled: mostly single calls of
external services, pure functions, or presentation.

### How they interact

A mutating request is sent by `PlatformApiClient.request` with an idempotency
key. `createMutatingRoute` begins the key in a transaction, runs the route's
handler, completes the key with the response, and answers. The handler writes
its entity and an outbox event in one Firestore transaction (or batch) and
*then* appends to the audit chain, in a transaction of its own. `POST /write`
also enqueues the rebuilds of the views that the relation rules name, and runs
the work queue before it answers. Cron runs (`vercel.json`) and looping worker
processes drain the outbox and the work queue concurrently; the outbox handler
reads the transaction again and creates notifications. Nobody holds a lock
across these steps: what keeps them apart is the version of the entity, the
pending mark of the key, the claim of an event or job, the head of the chain.

The client also writes Firestore itself, without version or transaction. A page
computes from the documents its store last received and writes fields or whole
documents back; the payroll worker does the same from the server. A saved expense
sheet fills the weeks of the cash flow sheet; a bank statement is merged into the
expense sheet; a project's review patches the request that another page decides.
Here nothing keeps the writers apart but which fields a write names, and the
properties say what is kept nevertheless and who exactly can lose it.

### What is hard

* **Overlap.** A client that timed out retries while the server is still
  executing; two workers scan the same events; two requests rebuild one view;
  two administrators demote each other.
* **Partial failure.** Commit, audit append, completion of the key, claim
  and mark are separate calls; each may throw, and a function may be killed
  between any two.
* **Stale reads.** Plans, checks and recipients are computed from documents read
  before, outside of the transaction that uses them; pages compute from
  snapshots and write whole documents back.
* **Retries.** Keys are retried and expire, events and jobs are retried with a
  delay, syncs are repeated: what is done twice must have one effect.

`PROJECT.json` lists the forty that matter most at the line where each bites,
with the properties that cover each, or a note why none does. Section 5 names
others that the modules exempt, section 6 those of parts that are not modelled.

## 2. Modules

| Module | Models | Proofs |
|---|---|---|
| `MutatingRequest` | client loop, idempotency, the three kinds of writes, audit append, faults, TTL, cleanup | `MutatingRequest_proofs` |
| `AtLeastOnce` | abstract: what a retry queue promises | |
| `OutboxWorker` | outbox events, concurrent workers, notifications; implements `AtLeastOnce` | `OutboxWorker_proofs` |
| `ProjectionQueue` | generic write, work queue, view rebuilds, replay | `ProjectionQueue_proofs` |
| `MemberRoles` | role changes, deep sync, generic writes of members | `MemberRoles_proofs` |
| `TransactionState` | reading, editing, deciding a transaction, and its notifications | `Approvals_proofs` |
| `AuditChain` | append, verification, key rotation, edits outside the program | `AuditChain_proofs` |
| `PayrollRun` | the worker, open pages, judgements and the confirmation of one month's run | `PayrollRun_proofs` |
| `WeekSheet` | week documents written by the sync of expense rows and by clients | `Sheets_proofs` |
| `ProjectReview` | saves, reviews, resubmissions and the trash of one project, and its request | `Approvals_proofs` |
| `ExpenseSheet` | the sheet written whole by a weekly page and a bank page | `Sheets_proofs` |

Two proof modules are about two components each, what people approve and what
they type into sheets, and extend both. The second component's names say which
it is (`ReviewSpec` and `ReviewTypeOK`, `ExpenseSpec` and `ExpenseTypeOK`).

Each `MC...` module gives instances of one module to TLC; each `.cfg` is a run.
The modules meet in the operations they share: `MutatingRequest` calls the
append of `AuditChain` as one step, which `NoFalseAlarm` justifies (concurrent
appends are serialised by the head); `TransactionState` treats the outbox as a
set of events that are delivered at some time, possibly after failed tries that
sent some of the notifications, which is what `OutboxWorker` shows of it
(`ImplementsAtLeastOnce`, `DoneIsComplete`); its writes are one step each, which
`VersionWrittenOnce` shows of a route, and so are the versioned saves of
`ProjectReview`. `ExpenseSheet` ends a save of the grid where `WeekSheet`
takes the stored rows up. They are not composed in one module: the joint state
space would be out of reach, and the interfaces are single documents.

A definition whose comment says *Mutant* is no part of the model: it is a bug
that the code might have, for which the property named in `PROJECT.json` must
fail. It shows that the property depends on the code.

### Correspondence to the code

`PROJECT.json` maps each definition to its lines. The conventions:

* A Firestore transaction is one step if what it reads is read inside it. A read
  outside of the transaction that uses it (`SyncRead` and `SyncCheck` before
  `SyncCommit`, `Scan` before `Claim`, `Read` before `WriteView`) is a step of its own.
  In `AuditChain` the transaction is split into `Read`, `Append` (commit if the
  head is unchanged) and `Retry`, because that validation is what its properties are about.
* `set(..., { merge: true })` without a transaction (`complete`, `fail`,
  `markSuccess`, `markFailure`) is an unconditional step.
* A Firestore call that throws has had no effect. (A call that committed and whose
  answer was lost is not modelled; for a whole request it is `Crash`.)
* Time is whether a deadline has passed: an `expiresAt`, a `nextAttemptAt`.
* Ids that are hashes or random are values; a digest is the content it is made
  of, so two digests are equal when the contents are.
* What a page computes from is what it last received, or the current document
  with the write arriving later: either way others may write in between.
* What is recorded only for the properties - `effect`, `audited`, `reflected`,
  `clashed`, `round`, `overtaken`, `written`, `rotated`, `touched`, `stale`,
  `reset`, `judged`, `wasConfirmed`, `overdue`, `torn`, `rewritten`, `elsewhere`,
  `apart` -
  never occurs in a guard that the code does not have. (`written` is asked only
  whether a random id is fresh.)

**MutatingRequest.** `call` is the loop of `request`, `phase` where
`createMutatingRoute` is for one attempt, `idem` the document of the key.
`Begin...` are the four outcomes of `begin`; `Commit...` and `RejectWrite` the
handler's transaction; `Audit`, `Complete`, `Fail` the rest. `StepError` is the
catch block, whatever was committed before; `Crash` covers a lost request, a
killed function and a lost response. One entity document stands for the one
that calls contend for.

**OutboxWorker.** `pc` is where `processOutboxBatch` is for a worker; `batch`
holds what was scanned with the `attempts` it then had, `todo` the recipients
still to be notified. `HandlerError` is any error in the handler, `Abort` the end
of the process or an error that leaves the loop. Who is notified is a constant:
`TransactionState` models that.

**ProjectionQueue.** A collection is the number of writes it took, a view the set
of input and content it was built from, so a view is stale exactly if a rebuild
would change it. Inputs are read one by one, as the queries are.

**MemberRoles.** `role` is the role of each member document, `claim` that of the
auth account, `req` what a sync made of its reads. `SyncEnd` is the end of a
request at any point: success, error or crash.

**TransactionState.** `seen` is what each person last read; its version is the
`expectedVersion` they send. `Edit` is `POST /transactions` and a generic write
of the document, `Attach` the evidence routes, `ChangeState` the state route.
`round` numbers submissions. Direct Firestore writes by the client are left out.

**AuditChain.** `logs` is `audit_logs`, `written` the entries as they were
appended. A scan is any downward closed set of the query's order: what some
limit returns. `Linked` is the body of verify's loop for one entry. One who
edits an entry outside the program does not recompute digests.

**PayrollRun.** `run` is the document of one month's run, `txs` what each open
page fetched. The worker takes three steps (schedule, read, batch), so others
write between its read and its batch. `AutoSave` is the effect of
`PortalPayrollPage` that computes the review from its copy, `SaveReview` the
write; a failed update writes a new document (`reset`), as `upsertSchedule`
does. A writer is in `overtaken` from when another changes the run under it
until it reads again; `stale` says that such a writer has written. `Matches` is
the comparison of the effect, which is one of JSON texts: what a page computes
has its keys in the order in which it saves them
(`sanitizePayrollReviewCandidate`, `mergeCandidate`), while Firestore hands out
the keys of a map sorted. So a page recognises its own candidates as long as its
listener still has them as they were written (`printed`; the confirmed document
is equal for Firestore and brings no snapshot), and those of others only if there
are none. `Refresh` is the next snapshot of the query, `Open` and `Close` load
and leave a page.

**WeekSheet.** `job` is one save of the expense page: rows stored, weeks marked
pending, each week looked at and written, outcome reported. `op` is what a
client of the cash flow page is doing, with the same look and write of
`upsertWeekAmounts`, the update-or-create of submission and closing, the dialog
before a closing. A read that fails counts as a document that is absent,
because the code counts it so. `torn` marks a week whose amounts are not the
work of one whole save: two overlapped, one failed after storing its rows or
was left, a client typed over it or took the document for absent. The stored
rows have other writers than this page: `Rewrite` is what `saveBankStatementRows`
of the bank page, an intake item, a renamed budget code or the migration wizard
does to the rows of any weeks (`ExpenseSheet` says what a merge does to single
rows). `Receive` brings such rows to the page, which shows them unless it is
saving or dirty and takes them for the rows before its next save (`seen`).
`rewritten` marks a week whose stored rows were changed so and not saved by this
page since.

**ProjectReview.** `copy` is what a page last received, `call` where the handler
of its call is: a save is one versioned write (and perhaps the rename of the
folder), a review or resubmission reads, merges the project, and patches the
request, in three steps that may end anywhere (`Abandon`). A handler that throws is
not run again: unlike other calls, which are retried twice, those of a review and
a resubmission set `retries: 0` (`src/app/lib/platform-bff-client.ts:903` and
`:924`), which overrides the client's `maxRetries` (`api-client.ts:256`, `:206`).
Neither does the person repeat it: after the merge the project is pending, and
`handleResubmit` is offered for rejected ones and saves first, with a version. A page that resubmits
saves first, in a call of its own. `DecideRequest` is the page that decides
requests directly in Firestore (`elsewhere`); `Register` the late creation of
the request.

**ExpenseSheet.** `view` is each page's store, brought up to date by `Deliver`;
the weekly page's `grid` is saved, dirty, saving or failed; the bank page's
`bankSave` writes the sheet, the statement and the items, one after the other.
`Merged` is the merge of `bank-statement.ts`: a line takes the row of its
identity, else one of the same date and counterparty. `Hydrate` is the effect
that syncs the grid with the store after a failed save. `apart` says that a
closed page or an overwriting save of the weekly page left the three writes on
different statements.

## 3. Runs

| Run | Instance | Shows |
|---|---|---|
| `request_safe` | a versioned write with one retry and a merge, own keys, faults, overrun, cleanup | no lost update, no false success, versioned writes execute once |
| `request_lock` | two different requests under one key, faults, no overrun | the pending mark is a lock, completed is final, locks are released, calls settle |
| `outbox_safe` | two workers, two events, two recipients, two attempts, crashes | exclusive claims, bounded attempts, refinement of `AtLeastOnce` (so complete delivery), settling |
| `projection_safe` | two writes to two collections of one view, cron worker, replay, crashes | a DONE job was shown, views whose rebuilds did not overlap catch up |
| `members_safe` | two syncs, a person with two documents, one without an account | undisturbed syncs align roles, what can remove the last admin |
| `members_lockout` | one sync and role changes, two admins | *finding:* none is left |
| `transactions_safe` | a project manager and an approver, five versions | informed and single decisions, notices reach their submitter |
| `audit_safe` | two writers, three entries, two keys, edits and deletions | no false alarm, soundness of verification |
| `payroll_safe` | the worker, two pages, an administrator, two payments, two pay days, days before and after the end of the month, failing calls | confirmation and judgements are lost only to overtaken copies or failed updates; pages settle unless two contend |
| `week_safe` | two weeks, two overlapping saves, two clients, other writers of the rows, failing calls | synced weeks show the rows unless others changed those; what a week loses is lost to one who took it for absent |
| `review_safe` | a manager's and an executive's page, five versions of the project, handlers that end anywhere | writes of whole documents stay apart, the history is one story, project and request agree unless torn |
| `sheet_safe` | a weekly and a bank page, three lines of which two look alike, two uploads, two edits, a refused write | typed work stays with its line, what shows as saved is saved, sheet, statement and items come to agree |

Type invariants, and two invariants beside (`DoneIsComplete`, which the
refinement contains, and `OneHandlerPerJob`), are proved for all constants
(section 4) and so left out of the runs. Constants of note:
`Faults`, `Crashes` let calls throw and processes die; `Overrun` lets an
attempt outlive its key's TTL (600 s against a function's 60 s, so off where the
lock is checked and on where safety must not depend on it); `Cleanup` runs the
cleanup job; `Sync` is what requests send as `options.sync`; `MaxAttempts`,
`MaxVersion`, `MaxWrites`, `MaxKey`, `MaxRows`, `MaxTyped`, `MaxUploads`,
`MaxFaults`, `Retries` and the set `Id` are the bounds.

### The properties

* `TruthfulSuccess` - a caller that is told 2xx is told the truth about a
  committed and audited write of its own request, even if a retry, another call
  or an expired key produced the answer.
* `VersionWrittenOnce`, `VersionedOnce` - optimistic locking loses no update,
  and makes versioned requests exactly-once whatever becomes of their key.
  (Of appends it would be false, see section 5.)
* `OneExecutorPerKey`, `CompletedIsFinal`, `LockReleased`, `CallSettles` - the
  key's pending mark excludes, its result is kept, its lock ends, its caller returns.
* `DoneIsComplete`, `OneHandlerPerEvent`, `AttemptsBounded`,
  `ImplementsAtLeastOnce`, `OthersSettle` - a DONE event has reached everyone;
  claims exclude; tries are counted right across crashes; once workers stop
  dying everything settles but what a worker took with it.
* `DoneJobsKept`, `OneHandlerPerJob`, `TablesCatchUp` - the same for jobs, and the
  consistency of a view that every collection it reads names in a relation rule
  (`Tables`), in the absence of overlapping rebuilds.
* `SyncAligns`, `LockoutOnlyByStaleSync` - a successful undisturbed sync leaves one
  role everywhere; only an overtaken sync, or one of a person with two documents,
  removes the last admin.
* `InformedChange`, `DecidedOnce`, `SignaturesKept`, `DecisionReachesSubmitter` -
  nobody decides what they have not seen, a submission is decided once, the
  document names those who acted last, the notice of a decision reaches the one
  it is for unless another member submits first.
* `NoFalseAlarm`, `VerifySound` - an untouched chain verifies while it grows;
  what verifies is exactly the first entries appended, up to the last one scanned.
* `ConfirmationKept`, `ConfirmedWasJudged`, `MissingReported` - a confirmed run
  stays confirmed, rests on judgements of people, and a missed pay day is not
  forgotten, as long as nobody wrote from an overtaken copy or after a failed update.
* `JudgementsKept`, `PagesSettle` - a judgement disappears only with its payment
  from the window or from the list of the page that saves; open pages stop saving
  unless two are open and one of them has a candidate to save, in which case
  they may replace each other's review for ever (`Contended`; without it TLC finds
  the loop, also for two pages with the same list).
* `SyncedMatches`, `WeekKept`, `HistoryKept` (of a week) - "synced" is true but
  for torn saves and weeks whose rows somebody else has changed since; submission, closing, other people's amounts and the variance
  history are lost only to a writer who took the document for absent (or, the
  history, to one with an older copy).
* `HistoryTells`, `HistoryKept` (of a project), `WritesApart` - a project's
  history is consistent with itself and its status even when entries are lost,
  they are lost only to overlapping reviews, and a save from an old copy never
  undoes a review, a restore or the trash.
* `RequestAgrees`, `ResubmissionTimely` - the two documents of a review disagree
  only after a torn or overlapping review, a late registration or a decision
  made elsewhere; a resubmission answers the rejection it was made for unless
  somebody came between its two calls.
* `NotesOfLine`, `NotesNotCopied`, `WorkKept` - the merge of a statement never puts
  typed work on a stranger's line or on two, and never drops it where it does
  not have to guess.
* `SavedIsShown`, `SheetFollows`, `BankSettles` - a page that shows no unsaved work
  shows what is stored; the three documents of an upload agree when the page is
  clean; an upload is stored in the end.

### Bounds, and why they are enough

Two of each concurrent party (calls, workers, syncs, writers): all exclusion
in the code is pairwise - one document, one winner - and the proofs confirm
that numbers do not matter for the safety properties proved. One retry shows an
overlap, a replay, a restart of a failed key and an expired one; two attempts
per event show a retry after partial delivery and exhaustion. Two recipients
make delivery partial, one event without any the empty case. Five versions of a
transaction are creation, submission, decision, reopening and resubmission
by somebody else, the shortest history in which a late notice can miss; runs
with a third member and four versions gave nothing new. Three audit entries have
a first, a middle and a last one; two keys one rotation.

Two open pages are one that overtakes and one that is overtaken. Of payments one
is in the labour category and one only named by its memo, so that worker and
pages match different ones; the days checked are one between the two pay days,
on which the one is due and the other ahead, and one after the end of the month;
three inputs are a judgement, a confirmation and something that undoes it. A week
takes three values: no rows, clear rows, rows that await a review. Five versions
of a project are its review, a save, a write that overtakes, and the merge
of the overtaken one. Of statement lines two are alike and one lacks a key; the
second statement has a line twice; two uploads and two edits let a merge find
typed rows, lines that return and lines that are gone; one refused write is
enough to leave each of the three writes undone.

The passing runs have between 10,000 (`request_lock`) and two million
(`review_safe`) distinct states and take up to three minutes; symmetry is used for
interchangeable syncs, writers, clients and data, in runs without liveness.

`CHECK_DEADLOCK FALSE` is set where a finite number of calls, events, writes,
inputs or versions ends: the system then simply has nothing left to do.
`MemberRoles` never stops, and its runs check it.

### Fairness

Four modules have liveness properties that use it. In `MutatingRequest` the client's timer fires
(`setTimeout` of `executeFetch`), a running function makes progress, and time
passes. A crash is never obliged to happen or to stop happening: `CallSettles` and
`LockReleased` hold with any number of them, by the client's timer and the
key's TTL. In `OutboxWorker` workers are run again and again (cron, the loop
of `outbox-worker.mjs`), make progress, and retry delays run out.
`OthersSettle` assumes that workers stop dying at some time, and says so; it
exempts what a dead worker had claimed, because nobody takes that up again.
(`ProjectionQueue` states the same fairness; its checked properties are safety.)
In `PayrollRun` an open page's effect runs when what it depends on has changed,
and the write it sends is made: React's scheduling and the client's connection.
Less is assumed than that, namely that as long as some page can go on, one does.
Nobody's action and not the worker's is required. In `ExpenseSheet` the timer of
a dirty bank page fires (900 ms after each change of its state, which a failed
save is) and its writes are answered; that writes fail only `MaxFaults` times is
the bound, and stands for a connection that comes back.

## 4. Proofs

All theorems are over arbitrary constants that satisfy the module's assumption
(`ConstantsAssumption`, `ReviewAssumption`, `ExpenseAssumption`), which TLC
evaluates in every run. They say what kind of set or number each constant is, which
parts are of which whole (who may decide is a member), and that what the code
tells apart is apart: no model value for "nobody" is a member, an empty cell is not
a missing item (`NoNote # None`), an uploaded statement has a line.

| Theorem | For any ... | Argument |
|---|---|---|
| `TypeCorrect`, `TruthCorrect` | calls, keys, retries, faults | `TruthInv`: every 2xx on its way - in an attempt about to complete, in a stored response, in an answer - is backed by a write. Needed because the answer may be produced by another attempt |
| `VersionCorrect`, `VersionedOnceCorrect` | as above | `VersionInv`: an attempt before its commit has no effect, effects are at most `version`, that of a versioned write is its base plus one |
| `LockCorrect`, `ResponseFinal` | as above, if no attempt outlives its TTL and no cleanup runs | `LockInv`: an executing attempt's key is locked, and it is alone |
| `ClaimCorrect`, `DoneCorrect`, `ClaimsExclusive`, `AttemptsCorrect` | events, workers, recipients, attempts | `ClaimInv`: a claimed event is PROCESSING and belongs to one worker, and what its handler has behind it is written |
| `OutboxRefines` | as above | initial states and steps of `OutboxWorker` map to those of `AtLeastOnce` or to stutters; uses `ClaimInv` for `Finish` |
| `JobCorrect`, `JobsKept`, `JobsExclusive` | writes, views, workers | `JobInv`: jobs belong to committed writes and to one worker, and what a rebuild reads after its claim includes the job's write |
| `TablesCaughtUp` | as above | `CatchUpInv`, of the views in `Tables` whose rebuilds never overlapped: one worker at most is at such a view; what it has read of a collection is current, or some other job of the view is not DONE; what the view shows of a collection is current, or a job of it is still to write. A write makes a job for every view that a rule names, which is why a rebuild's old read always leaves one |
| `TriesCorrect`, `WritesCorrect` | as above | a job is tried `MaxAttempts` times at most and is dead after no fewer, since claims exclude; a committed write has a job for each view that its rule names (`Enqueued`), so a view that has not shown it has a job that is not DONE. The work queue is not an `AtLeastOnce` queue as the outbox is: a rebuild serves every job of its view, so a job may be served before it is claimed, or after it is DEAD |
| `MembersCorrect`, `SyncCorrect`, `LockoutCorrect` | people, documents, roles, syncs | `FreshInv`: what an undisturbed sync made of its reads and its check still holds |
| `TransactionTyped`, `TransactionCorrect`, `DecisionCorrect`, `SignaturesCorrect`, `ReachCorrect`, `InformedCorrect` | members, permissions, versions | a version stands for one document (`SeenInv`); decisions belong to rounds before the open one (`RoundInv`); a decision's author stays the one to tell until overtaken (`AuthorInv`) |
| `ReviewCorrect`, `ReviewsTyped`, `HistoryTold`, `RequestsAgree`, `ResubmittedTimely`, `EntriesKept`, `PartsKeptApart` | pages, data, writes, faults | `ReviewInv`: a copy of the current version is the project (`CopyInv`); not only the stored document but every copy and every read in a handler tells one story (`StoryInv`), because a merge stores the history that was read; a resubmission's data and the rejection it answers are the project's, or of what it read (`TimelyInv`); unless torn, one handler at most is between its two writes, with the status the project has (`PatchInv`) |
| `ChainTyped`, `ChainCorrect`, `NoFalseAlarmCorrect`, `VerifySoundCorrect` | writers, entries, keys, scans | `ChainInv`, `LogInv`: what was appended is one chain up to the head, and the log is that but for edits. Soundness is an induction along the chain, made with least elements of sets of numbers (`LeastNat`, from the library's well-foundedness of `<` on `Nat`) |
| `PayrollTyped`, `ConfirmationCorrect`, `JudgedCorrect`, `MissingCorrect`, `JudgementsCorrect` | pages, payments, days, calendars | `IInv` with `CopiesOK`, `WorkerOK`, `RunOK`: what a page or the worker is about to write agrees with the run it was computed from until it is overtaken; judgements have an author. Needed because each write's effect is decided when it is computed |
| `WeekTyped`, `SyncedCorrect`, `WeekKeptCorrect`, `HistoryCorrect` | weeks, values, saves, clients | `LoneSaves`: a week that is not torn is in the hands of one save, whose rows are the stored ones unless `rewritten`, and what it has written shows; a week that is not `rewritten` has the rows the page knows (`RowsKnown`), so that a save whose payload leaves it out changes nothing of it; the others by the type invariant and one case per action |
| `ExpenseCorrect`, `ExpensesTyped`, `BankShows`, `SheetsFollow`, `NotesBelong`, `NotesMergedOnce`, `WorkIsKept` | lines, keys, statements, bounds | That there is a match of lines with rows at all is proved from a least counterexample (`MatchExists`, see below); it takes each row once (`MergedParts`). `ExpenseInv`: a page that is clean shows what is stored (`BankInv`); between the three writes of an upload those that are made are of that upload (`FollowInv`); every sheet anyone holds, in a store, a grid or a save on its way, has each note on its line or a twin of it (`NotesInv`, `Orderly`) |

No theorem assumes anything but the constants' assumptions and, where it says
so, the switches `Overrun` and `Cleanup`. The invariants named in the last column
were first checked by TLC as invariants of the runs' instances.

Two arguments are inductions along data, which the library's induction theorems
cannot be instantiated for: along the audit chain, and along the lines of a
statement, each matched with what the lines before it left. Both are made from
the fact that a nonempty set of numbers has a least element: of the lines up to
which no match can be extended, or the entries that do not agree, take the least.
It serves where a function is described by what it satisfies (`CHOOSE` of a
match), as `Merged` is, and needs no recursive definition.

**Only model-checked:** the liveness properties (`LockReleased`,
`CallSettles`, `OthersSettle`, `PagesSettle`, `BankSettles`), since TLAPS does not
reason about fairness and `ENABLED`. Every other property of the passing runs is
stated by a theorem.

## 5. Findings

**The last admin can be removed** (`members_lockout`): the deep sync counts
admins in a query outside its transaction, and counts documents where one person
may have two. `LockoutOnlyByStaleSync` states what remains true.

Met on the way, without a run. Each is an exemption that a passing property
spells out, or lies outside of what is modelled:

* The catch block of `createMutatingRoute` marks the key failed also when only
  the audit append or `complete` threw after the commit, and the retry begins it
  anew: comments and evidences are duplicated. Versioned writes are not
  (`VersionedOnce`), but their retry is told 409.
* An event whose worker died stays PROCESSING: it is neither retried nor DEAD, and
  no alert counts it (the exemption of `OthersSettle`). The work queue has the
  same shape.
* Of two overlapping rebuilds the one that read first may write last, and both
  jobs are DONE (the exemption of `TablesCatchUp`).
* The financial view of a project counts its change requests
  (`bff/projections.mjs:38`), but the rule of change requests
  (`policies/relation-rules.json:47`) does not name that view: its count is stale until
  something else rebuilds it. `Tables` is the set of views of which that is not so.
* `pii:rotate` replaces `userEmailEnc`, which each audit entry's hash covers:
  the chain no longer verifies (`NoFalseAlarm` is about logs nobody touched).
  `verify` never gets beyond the first 10,000 entries.
* The recipient of a decision is read at delivery, so a resubmission by another
  member redirects the notice (`Overtaken` in `DecisionReachesSubmitter`); events
  do not carry the actor that `createNotificationsForOutboxEvent` means to
  exclude, so approvers are asked to approve their own submission; `POST
  /transactions` and generic writes set any state, past the transition policy.
* A confirmation that arrives between the read and the batch of the payroll
  worker, or while a page's review is on its way, is undone (`stale`); an update
  of a run that fails for any reason makes the client write a new run (`reset`).
* Two pages of payroll that are open with a candidate save over each other for
  ever, without anybody's action, even when both have computed the same review:
  each reads the candidates that the other wrote with their keys in Firestore's
  order, which `src/app/platform/payroll-review.ts:225` takes for a difference
  (`Contended`).
* The merge of a bank statement changes rows of weeks and marks none of them: a
  week stays "synced" over its old amounts until the weekly page saves its rows
  (`rewritten`; without that disjunct TLC finds it).
* A read of a week that fails counts as an absent week, and the write that
  follows replaces it, with its submission and history (`TakenForAbsent`).
* Two overlapping reviews of a project lose an entry of its history, and a
  handler that ends between its writes leaves project and request apart (`torn`).
  `notify-registration` looks only at the legacy collection of requests.
* A grid whose save failed is synced with the store, which drops what was typed,
  while `src/app/platform/weekly-accounting-state.ts:205` tells the user that
  the input is kept and can be saved again (`Hydrate`). What is typed during a
  save, of the grid or of the statement, is dropped when the save ends.
* A statement line without a row of its own takes the typed work of another line
  with the same date and counterparty (the twins of `NotesOfLine`).

## 6. Not modelled, and the plan

Left out of the modelled parts: the ledger that `POST /transactions` creates on
demand; the content of evidences and comments and the calls to Google Drive;
roles and permissions beyond the sets of who may do what; member documents other
than one named after the uid and one after the email (`pickCanonicalMember` also
takes one of another name whose `uid` field is the person's); the limit of a batch
(the scan limit of the work queue is a constant that the runs keep out of the
way: with a small one a READY job behind finished ones is never found); the
alerts view, built from other views, whose job may run before theirs
(`ProjectionQueue` can express it, no run does); writes that the client makes to
transactions without the BFF; acknowledgements, expected amounts and the monthly
close beside payroll runs; a second tab of expense rows, and the migration wizard
as a page of its own (it changes stored rows, as `Rewrite` does, and types
amounts, as a client does); the participation entries of a team and
the legacy collection of requests beside the review of a project; derived cells,
drafts in the browser and the triage of intake items, which no page mounts.

Most of the repository's lines are pages: forms, tables, dialogs and their
wording, whose state is one user's and whose writes are single documents that
nobody else writes. They are presentation for the purposes of this project, as
are the mapping of spreadsheets by external services, the static data and the
scripts started once by hand. What people, workers and pages share and
contend for is modelled, but for the following.

Hazards of parts that are not modelled, which reading the code brought up: the
alerts view may be rebuilt before the views it is computed from
(`bff/projections.mjs:292`); two first transactions of a ledger both create it
(`bff/routes/transactions.mjs:191`); the histories of counterparties are updated
without a transaction (`bff/counterparty-budget-history.mjs:60`); a monthly close
whose update fails is merged anew without its acknowledgement
(`payroll-store.tsx:497`); submitting a week changes its transactions one by one
(`PortalWeeklyExpensePage.tsx:664`); a snapshot of the project resets a form that
is being filled in (`PortalProjectEdit.tsx:265`); the participation entries of a
team are synced after the project's commit (`bff/routes/projects.mjs:606`); an
executive's review carries no version (`ProjectMigrationAuditPage.tsx:217`);
leaving a cell disarms the autosave of unsaved rows
(`SettlementLedgerPage.tsx:323`); rows derived in the background replace rows
changed meanwhile (`ImportEditor.tsx:719`); the running balance of rows before
an edited one is summed by a rule of its own
(`src/app/platform/settlement-row-derivation.ts:330`).

The plan, most important first:

1. `EvidenceSync`: provisioning and syncing evidence with Drive between read and
   merge (`bff/routes/transactions.mjs:741`), over the writes of `TransactionState`.
2. `ClientErrors`: ingestion and the Slack worker, an instance of `AtLeastOnce` that
   has no claim: the event is pending before the request itself sends it, and
   the worker finds it meanwhile (`bff/app.mjs:1008`).
3. The derivation of settlement rows
   (`src/app/platform/settlement-row-derivation.ts`), as operators against a
   reference definition: a running balance derived from an edited row on must be
   that of deriving all rows.
