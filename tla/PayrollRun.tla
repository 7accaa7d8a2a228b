----------------------------- MODULE PayrollRun -----------------------------
(***************************************************************************)
(* The payroll run of one project and month                                *)
(* (payroll-worker.mjs, payroll-store.tsx, payroll-review.ts).             *)
(* Four parties write the run's document without a transaction or version: *)
(* the daily worker, which matches payments; the pages of project          *)
(* managers, which save the review they compute whenever their copy of the *)
(* run differs from it; the manager who judges a payment or moves the pay  *)
(* day; the administrator who confirms that salaries were paid.            *)
(*                                                                         *)
(* Abstractions: a day is its number in the month; a transaction is        *)
(* outgoing, of this project; HOLD is PENDING (both are unresolved); what  *)
(* a client writes is computed from the current document and committed     *)
(* later, which stands for late snapshots and late writes alike, and a     *)
(* client has one write under way; amounts, names, times, acknowledgements *)
(* of the run and the date of the missing-candidate alert are left out.  A *)
(* definition called a mutant is no part of the model.                     *)
(***************************************************************************)
EXTENDS Integers, FiniteSets

CONSTANTS
  Page,        \* pages of project managers
  Tx,          \* transactions of the project that may be approved
  TxDay,       \* [Tx -> day of the transaction]
  Labor,       \* those in the cash flow category LABOR_COST
  Keyword,     \* those whose memo or counterparty names salaries
  LastDay,     \* of the month
  Weekend,     \* days that are no business days
  PayDay,      \* days of the month that may be scheduled
  CheckDay,    \* bound: the days on which anything happens
  MaxInput,    \* bound on what people do
  Faults       \* whether calls of the client may fail

ASSUME ConstantsAssumption ==
  /\ Page \intersect {"worker", "admin", "schedule", "nobody"} = {}
  /\ IsFiniteSet(Tx)
  /\ TxDay \in [Tx -> Int]
  /\ Labor \subseteq Tx
  /\ Keyword \subseteq Tx
  /\ LastDay \in Nat \ {0}
  /\ Weekend \subseteq Int
  /\ PayDay \subseteq Nat
  /\ CheckDay \subseteq Int
  /\ MaxInput \in Nat
  /\ Faults \in BOOLEAN

Judgement == {"PAYROLL", "NOT_PAYROLL"}
Decision == {"none", "PENDING"} \union Judgement
Paid == {"UNKNOWN", "AUTO_MATCHED", "MISSING", "CONFIRMED"}
ReviewStatus == {"PENDING", "COMPLETED", "MISSING_CANDIDATE"}

Run == [planned : Int, paid : Paid, review : [Tx -> Decision],
        status : ReviewStatus, matched : SUBSET Tx]

VARIABLES
  day,      \* today
  pay,      \* dayOfMonth of the schedule
  approved, \* transactions in state APPROVED
  run,      \* the document of the run
  printed,  \* the page that still has the candidates as it wrote them itself
  open,     \* the pages that are open
  txs,      \* [Page -> the transactions it fetched when it was opened]
  saving,   \* [Page -> the review it has computed and is about to write]
  confirming, \* what the administrator has seen and is about to confirm
  worker,   \* where the daily worker is, and what it has read
  ran,      \* whether it has been started today
  inputs,   \* how much people have done
  overtaken, \* writers whose copy of the run is no longer current
  stale,    \* whether such a writer has written
  reset,    \* whether a failed update made the client write a new document
  judged,   \* transactions that somebody has judged to be payroll
  wasConfirmed, \* the document has a confirmedAt
  overdue   \* the worker has seen the scheduled day behind it

vars == <<day, pay, approved, run, printed, txs, open, saving, confirming, worker, ran,
          inputs, overtaken, stale, reset, judged, wasConfirmed, overdue>>

-----------------------------------------------------------------------------
(* Dates (business-days.ts, payroll-worker.mjs) *)

(* computePlannedPayDate: the day of the month, or its last day. *)
Planned(d) == IF d < 1 THEN 1 ELSE IF d > LastDay THEN LastDay ELSE d

(* The days strictly between two days. *)
Between(d, e) == (d + 1)..(e - 1) \union (e + 1)..(d - 1)

(* buildPayrollReviewWindow: from the third business day before to the third
   after, which addBusinessDays finds by counting. *)
InReviewWindow(d, planned) == Cardinality(Between(d, planned) \ Weekend) < 3

DueForReview(planned) == day >= planned \/ InReviewWindow(day, planned)

(* The worker's window, in calendar days. *)
InMatchWindow(d, planned) == planned - 2 <= d /\ d <= planned + 2

InMonth == day <= LastDay

-----------------------------------------------------------------------------
(* The review that a client computes from its copies
   (resolvePayrollRunReview) *)

(* Mutant: what was judged not to be payroll is no candidate any more. *)
CandidatesLeft(r, list) ==
  {t \in list \intersect (Labor \union Keyword) :
     InReviewWindow(TxDay[t], r.planned) /\ r.review[t] # "NOT_PAYROLL"}

(* Approved payments in the window with a sign of being salaries. *)
Candidates(r, list) ==
  {t \in list \intersect (Labor \union Keyword) : InReviewWindow(TxDay[t], r.planned)}

(* A candidate keeps its judgement, others drop out. *)
Reviewed(r, list) ==
  LET candidates == Candidates(r, list) IN
  [t \in Tx |-> IF t \notin candidates THEN "none"
                ELSE IF r.review[t] = "none" THEN "PENDING" ELSE r.review[t]]

Having(review, d) == {t \in Tx : review[t] = d}

NoCandidate(review) == \A t \in Tx : review[t] = "none"

StatusOf(review, due) ==
  IF NoCandidate(review) THEN IF due THEN "MISSING_CANDIDATE" ELSE "PENDING"
  ELSE IF Having(review, "PENDING") # {} THEN "PENDING" ELSE "COMPLETED"

(* Mutant: a confirmed run is judged like any other. *)
PaidAnew(paid, review, due) ==
  IF NoCandidate(review) THEN IF due THEN "MISSING" ELSE "UNKNOWN"
  ELSE IF \A t \in Tx : review[t] \in {"none", "NOT_PAYROLL"} THEN "MISSING"
  ELSE "AUTO_MATCHED"

(* Nothing found, or nothing that is payroll, is MISSING. *)
PaidOf(paid, review, due) ==
  IF paid = "CONFIRMED" THEN "CONFIRMED"
  ELSE IF NoCandidate(review) THEN IF due THEN "MISSING" ELSE "UNKNOWN"
  ELSE IF \A t \in Tx : review[t] \in {"none", "NOT_PAYROLL"} THEN "MISSING"
  ELSE "AUTO_MATCHED"

(* toPayrollReviewSnapshot *)
Snapshot == [review : [Tx -> Decision], status : ReviewStatus, paid : Paid]

SnapshotOf(r, list) ==
  LET review == Reviewed(r, list)
      due == DueForReview(r.planned) IN
  [review |-> review, status |-> StatusOf(review, due), paid |-> PaidOf(r.paid, review, due)]

-----------------------------------------------------------------------------
(* Writing the run *)

NoSave == <<>>
Idle == [pc |-> "idle", planned |-> 1, paid |-> "UNKNOWN", matched |-> {}, next |-> {}]

WorkerIdle == worker.pc = "idle"

(* Everybody with a copy of the run. *)
Reader ==
  {p \in Page : saving[p] # NoSave}
    \union (IF confirming = {} THEN {} ELSE {"admin"})
    \union (IF worker.pc = "write" THEN {"worker"} ELSE {})

(* The document becomes doc, by the hand of w; the others get it from
   Firestore, and w keeps what it wrote. *)
Put(w, doc) ==
  /\ run' = doc
  /\ printed' = IF w \in Page /\ ~NoCandidate(doc.review) THEN w ELSE "nobody"
  /\ overtaken' = (IF doc = run THEN overtaken ELSE overtaken \union Reader) \ {w}
  /\ stale' = (stale \/ w \in overtaken)

(* The copy of w is dropped. *)
Drop(w) ==
  /\ overtaken' = overtaken \ {w}
  /\ UNCHANGED <<run, printed, stale>>

Input ==
  /\ inputs < MaxInput
  /\ inputs' = inputs + 1

-----------------------------------------------------------------------------
(* The worker *)

(* Read the schedules. *)
WorkerStart ==
  /\ WorkerIdle /\ ~ran /\ InMonth
  /\ worker' = [Idle EXCEPT !.pc = "upsert", !.planned = Planned(pay)]
  /\ ran' = TRUE
  /\ UNCHANGED <<day, pay, approved, run, printed, txs, open, saving, confirming,
                 inputs, overtaken, stale, reset, judged, wasConfirmed, overdue>>

(* 1) The run's dates; nothing else of a document that exists. *)
WorkerUpsert ==
  /\ worker.pc = "upsert"
  /\ Put("worker", [run EXCEPT !.planned = worker.planned])
  /\ worker' = [worker EXCEPT !.pc = "read"]
  /\ overdue' = (overdue /\ run.planned = worker.planned)
  /\ UNCHANGED <<day, pay, approved, txs, open, saving, confirming, ran, inputs, reset,
                 judged, wasConfirmed>>

(* 2) The run and the payments around the scheduled day, *)
WorkerRead ==
  /\ worker.pc = "read"
  /\ worker' = [worker EXCEPT !.pc = "write", !.paid = run.paid, !.matched = run.matched,
       !.next = {t \in approved \intersect Labor : InMatchWindow(TxDay[t], worker.planned)}]
  /\ UNCHANGED <<day, pay, approved, run, printed, txs, open, saving, confirming, ran,
                 inputs, overtaken, stale, reset, judged, wasConfirmed, overdue>>

(* Mutant for MissingReported: a day more of grace. *)
NextPaidLate ==
  IF worker.next # {} THEN "AUTO_MATCHED"
  ELSE IF day > worker.planned + 1 THEN "MISSING" ELSE worker.paid

(* A match, or a day that has passed without one. *)
NextPaid ==
  IF worker.next # {} THEN "AUTO_MATCHED"
  ELSE IF day > worker.planned THEN "MISSING" ELSE worker.paid

WorkerChanges ==
  /\ worker.paid # "CONFIRMED"
  /\ NextPaid # worker.paid \/ worker.next # worker.matched

(* and after all runs were read, the batch. *)
WorkerWrite ==
  /\ worker.pc = "write"
  /\ IF WorkerChanges
     THEN Put("worker", [run EXCEPT !.paid = NextPaid, !.matched = worker.next])
     ELSE Drop("worker")
  /\ worker' = Idle
  /\ overdue' = (overdue \/ (/\ day > worker.planned
                             /\ run.planned = worker.planned
                             /\ "worker" \notin overtaken))
  /\ UNCHANGED <<day, pay, approved, txs, open, saving, confirming, ran, inputs, reset,
                 judged, wasConfirmed>>

(* The process ends or a call throws; the next run is tomorrow's. *)
WorkerAbort ==
  /\ Faults
  /\ ~WorkerIdle
  /\ Drop("worker")
  /\ worker' = Idle
  /\ UNCHANGED <<day, pay, approved, txs, open, saving, confirming, ran, inputs, reset,
                 judged, wasConfirmed, overdue>>

-----------------------------------------------------------------------------
(* The pages of project managers *)

(* Mutant: the sanitizer writes another order than the review computes. *)
MatchesText(p) ==
  /\ NoCandidate(run.review)
  /\ SnapshotOf(run, txs[p]) = [review |-> run.review, status |-> run.status, paid |-> run.paid]

(* payrollReviewSnapshotMatches compares candidates as JSON text.  What a page
   computes has the keys in the order in which it saves them; Firestore hands
   out the keys of a map sorted, so that all others see another text. *)
Matches(p) ==
  /\ printed = p \/ NoCandidate(run.review)
  /\ SnapshotOf(run, txs[p]) = [review |-> run.review, status |-> run.status, paid |-> run.paid]

(* The effect of PortalPayrollPage computes the review, *)
AutoSave(p) ==
  /\ p \in open /\ InMonth
  /\ saving[p] = NoSave
  /\ ~Matches(p)
  /\ saving' = [saving EXCEPT ![p] = SnapshotOf(run, txs[p])]
  /\ UNCHANGED <<day, pay, approved, run, printed, txs, open, confirming, worker, ran,
                 inputs, overtaken, stale, reset, judged, wasConfirmed, overdue>>

(* or somebody judges a candidate (onDecideCandidate), *)
Decide(p, t, d) ==
  /\ Input
  /\ p \in open /\ InMonth
  /\ saving[p] = NoSave
  /\ Reviewed(run, txs[p])[t] # "none"
  /\ saving' = [saving EXCEPT ![p] =
       SnapshotOf([run EXCEPT !.review = [Reviewed(run, txs[p]) EXCEPT ![t] = d]], txs[p])]
  /\ judged' = IF d = "PAYROLL" THEN judged \union {t} ELSE judged
  /\ UNCHANGED <<day, pay, approved, run, printed, txs, open, confirming, worker, ran,
                 overtaken, stale, reset, wasConfirmed, overdue>>

(* and savePayrollReview writes it over three fields of the run. *)
SaveReview(p) ==
  /\ saving[p] # NoSave
  /\ Put(p, [run EXCEPT !.review = saving[p].review, !.status = saving[p].status,
                        !.paid = saving[p].paid])
  /\ saving' = [saving EXCEPT ![p] = NoSave]
  /\ UNCHANGED <<day, pay, approved, txs, open, confirming, worker, ran, inputs, reset,
                 judged, wasConfirmed, overdue>>

(* Firestore has sent the document to p again. *)
Reread(p) == printed' = IF printed = p THEN "nobody" ELSE printed

(* The page is loaded, and fetches its transactions once. *)
Open(p) ==
  /\ Input
  /\ saving[p] = NoSave
  /\ open' = open \union {p}
  /\ txs' = [txs EXCEPT ![p] = approved]
  /\ Reread(p)
  /\ UNCHANGED <<day, pay, approved, run, saving, confirming, worker, ran, overtaken,
                 stale, reset, judged, wasConfirmed, overdue>>

(* The page is left, and what it has not sent is lost. *)
Close(p) ==
  /\ Input
  /\ p \in open
  /\ open' = open \ {p}
  /\ saving' = [saving EXCEPT ![p] = NoSave]
  /\ overtaken' = overtaken \ {p}
  /\ txs' = [txs EXCEPT ![p] = {}]
  /\ Reread(p)
  /\ UNCHANGED <<day, pay, approved, run, confirming, worker, ran, stale, reset,
                 judged, wasConfirmed, overdue>>

(* A snapshot brings the document with a change of a field that is left out,
   or of another run of the query. *)
Refresh(p) ==
  /\ Input
  /\ printed = p
  /\ Reread(p)
  /\ UNCHANGED <<day, pay, approved, run, txs, open, saving, confirming, worker, ran,
                 overtaken, stale, reset, judged, wasConfirmed, overdue>>

(* upsertSchedule: the schedule, then the run: *)
Schedule(d) ==
  /\ Input /\ InMonth
  /\ d # pay
  /\ pay' = d
  /\ UNCHANGED <<day, approved, txs, open, saving, confirming, worker, ran, judged,
                 wasConfirmed>>

(* its dates, *)
ScheduleUpdate(d) ==
  /\ Schedule(d)
  /\ Put("schedule", [run EXCEPT !.planned = Planned(d)])
  /\ overdue' = (overdue /\ run.planned = Planned(d))
  /\ UNCHANGED reset

(* A document as upsertSchedule creates it. *)
NewRun(d) == [planned |-> Planned(d), paid |-> "UNKNOWN",
              review |-> [t \in Tx |-> "none"], status |-> "PENDING", matched |-> {}]

(* or, whatever made that fail, a new document merged into it, *)
ScheduleReset(d) ==
  /\ Faults
  /\ Schedule(d)
  /\ Put("schedule", NewRun(d))
  /\ reset' = TRUE
  /\ overdue' = FALSE

(* or nothing, if the second write fails too. *)
ScheduleOnly(d) ==
  /\ Faults
  /\ Schedule(d)
  /\ UNCHANGED <<run, printed, overtaken, stale, reset, overdue>>

-----------------------------------------------------------------------------
(* The administrator, whose page has its own list of transactions *)

(* Mutant: a complete review is enough, whatever it found. *)
CanFinalizeAny(review) ==
  review.paid # "CONFIRMED" /\ review.status = "COMPLETED"

(* getFinalConfirmBlockReason: the review is complete and found a salary. *)
CanFinalize(review) ==
  /\ review.paid # "CONFIRMED"
  /\ review.status = "COMPLETED"
  /\ Having(review.review, "PAYROLL") # {}

(* getFinalConfirmMatchedTxIds *)
FinalMatched(review) ==
  LET payroll == Having(review.review, "PAYROLL") IN
  IF payroll # {} THEN payroll ELSE run.matched

(* onConfirmPaid, from the review of the page (effectiveRunByProject), *)
ConfirmPaid ==
  /\ Input /\ InMonth
  /\ confirming = {}
  /\ CanFinalize(SnapshotOf(run, approved))
  /\ confirming' = FinalMatched(SnapshotOf(run, approved))
  /\ UNCHANGED <<day, pay, approved, run, printed, txs, open, saving, worker, ran,
                 overtaken, stale, reset, judged, wasConfirmed, overdue>>

(* and the write of confirmPayrollPaid. *)
SaveConfirmation ==
  /\ confirming # {}
  /\ Put("admin", [run EXCEPT !.paid = "CONFIRMED", !.matched = confirming])
  /\ confirming' = {}
  /\ wasConfirmed' = TRUE
  /\ UNCHANGED <<day, pay, approved, txs, open, saving, worker, ran, inputs, reset,
                 judged, overdue>>

-----------------------------------------------------------------------------
(* The rest of the world *)

(* A transaction is approved, or an approved one is edited. *)
ChangeState(t) ==
  /\ Input
  /\ approved' = IF t \in approved THEN approved \ {t} ELSE approved \union {t}
  /\ UNCHANGED <<day, pay, run, printed, txs, open, saving, confirming, worker, ran,
                 overtaken, stale, reset, judged, wasConfirmed, overdue>>

(* The next day of CheckDay.  No run of the worker lasts past midnight, and a
   copy made before it is no longer current. *)
NextDay ==
  /\ WorkerIdle
  /\ \E d \in CheckDay :
       /\ d > day
       /\ \A e \in CheckDay : e > day => e >= d
       /\ day' = d
  /\ ran' = FALSE
  /\ overtaken' = overtaken \union Reader
  /\ UNCHANGED <<pay, approved, run, printed, txs, open, saving, confirming, worker,
                 inputs, stale, reset, judged, wasConfirmed, overdue>>

Init ==
  /\ day \in CheckDay /\ \A d \in CheckDay : day <= d
  /\ pay \in PayDay
  /\ approved = Tx
  /\ run = NewRun(pay)
  /\ printed = "nobody"
  /\ txs = [p \in Page |-> approved]
  /\ open = Page
  /\ saving = [p \in Page |-> NoSave]
  /\ confirming = {}
  /\ worker = Idle
  /\ ran = FALSE
  /\ inputs = 0
  /\ overtaken = {}
  /\ stale = FALSE
  /\ reset = FALSE
  /\ judged = {}
  /\ wasConfirmed = FALSE
  /\ overdue = FALSE

WorkerStep == WorkerStart \/ WorkerUpsert \/ WorkerRead \/ WorkerWrite

Next ==
  \/ WorkerStep \/ WorkerAbort
  \/ \E p \in Page : AutoSave(p) \/ SaveReview(p) \/ Open(p) \/ Close(p) \/ Refresh(p)
  \/ \E p \in Page, t \in Tx, d \in Judgement \union {"PENDING"} : Decide(p, t, d)
  \/ \E d \in PayDay : ScheduleUpdate(d) \/ ScheduleReset(d) \/ ScheduleOnly(d)
  \/ ConfirmPaid \/ SaveConfirmation
  \/ \E t \in Tx : ChangeState(t)
  \/ NextDay

(* Pages render when their data changes, and their writes are sent: as long as
   some can, one does.  (A browser does so for each page; this is enough.) *)
Fairness == WF_saving(\E p \in Page : AutoSave(p) \/ SaveReview(p))

Spec == Init /\ [][Next]_vars /\ Fairness

-----------------------------------------------------------------------------
(* Properties *)

(* Variables and documents stay in their domains. *)
TypeOK ==
  /\ day \in CheckDay
  /\ pay \in PayDay
  /\ approved \in SUBSET Tx
  /\ run \in Run
  /\ printed \in Page \union {"nobody"}
  /\ txs \in [Page -> SUBSET Tx]
  /\ open \in SUBSET Page
  /\ saving \in [Page -> Snapshot \union {NoSave}]
  /\ confirming \in SUBSET Tx
  /\ worker \in [pc : {"idle", "upsert", "read", "write"}, planned : Int,
                 paid : Paid, matched : SUBSET Tx, next : SUBSET Tx]
  /\ ran \in BOOLEAN
  /\ inputs \in 0..MaxInput
  /\ overtaken \in SUBSET (Page \union {"admin", "worker"})
  /\ stale \in BOOLEAN
  /\ reset \in BOOLEAN
  /\ judged \in SUBSET Tx
  /\ wasConfirmed \in BOOLEAN
  /\ overdue \in BOOLEAN

(* A run that was confirmed, as its confirmedAt says, is CONFIRMED as long as
   nobody wrote from a copy that others had overtaken: the worker skips
   confirmed runs and the review keeps CONFIRMED, but neither looks again
   when it writes. *)
ConfirmationKept == wasConfirmed /\ ~stale /\ ~reset => run.paid = "CONFIRMED"

(* The payments of a confirmed run were judged to be payroll by a project
   manager: matches of the worker alone never confirm. *)
ConfirmedWasJudged ==
  run.paid = "CONFIRMED" /\ ~stale => run.matched # {} /\ run.matched \subseteq judged

(* Once the worker has found the pay day behind it, the run is not UNKNOWN
   any more, whatever the pages compute. *)
MissingReported == overdue /\ ~stale => run.paid # "UNKNOWN"

(* A judgement disappears only by the save of a page, if the payment is out of
   the window of the run or that page does not know the payment, having fetched
   its list before. *)
JudgementsKept ==
  [][\A t \in Tx : run.review[t] \in Judgement /\ run'.review[t] = "none" =>
       \/ stale' \/ reset'
       \/ \E p \in Page :
            /\ saving[p] # NoSave /\ saving'[p] = NoSave
            /\ ~InReviewWindow(TxDay[t], run.planned) \/ t \notin txs[p]]_vars

Settled == \A p \in open : saving[p] = NoSave /\ (InMonth => Matches(p))

(* Of two open pages one has candidates to write, which the other's list has
   not, or which it sees in another text. *)
Contended ==
  \E p, q \in open : p # q /\ Candidates(run, txs[p]) # {}

(* When people pause, the pages stop saving, unless two are open and one has
   candidates: each of them may then save over the review of the other for
   ever, even if both have computed the same one. *)
PagesSettle == <>[](Settled \/ Contended)
=============================================================================
