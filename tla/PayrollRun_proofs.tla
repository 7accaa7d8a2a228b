-------------------------- MODULE PayrollRun_proofs --------------------------
(* Proofs about PayrollRun, for any pages, transactions, calendar and bounds. *)
EXTENDS PayrollRun, TLAPS

(* The steps of Next. *)
LEMMA NextCases ==
  ASSUME Next
  PROVE  \/ WorkerStart
         \/ WorkerUpsert
         \/ WorkerRead
         \/ WorkerWrite
         \/ WorkerAbort
         \/ \E p \in Page : AutoSave(p)
         \/ \E p \in Page : SaveReview(p)
         \/ \E p \in Page : Open(p) \/ Close(p) \/ Refresh(p)
         \/ \E p \in Page, t \in Tx, d \in Judgement \union {"PENDING"} : Decide(p, t, d)
         \/ \E d \in PayDay : ScheduleUpdate(d)
         \/ \E d \in PayDay : ScheduleReset(d)
         \/ \E d \in PayDay : ScheduleOnly(d)
         \/ ConfirmPaid
         \/ SaveConfirmation
         \/ \E t \in Tx : ChangeState(t)
         \/ NextDay
BY DEF Next, WorkerStep

-----------------------------------------------------------------------------
(* Types *)

WorkerRecord == [pc : {"idle", "upsert", "read", "write"}, planned : Int,
                 paid : Paid, matched : SUBSET Tx, next : SUBSET Tx]

LEMMA PlannedTyped == ASSUME NEW d \in Int PROVE Planned(d) \in Int
BY ConstantsAssumption DEF Planned

LEMMA PayDayInt == \A d \in PayDay : d \in Int /\ Planned(d) \in Int
BY PlannedTyped, ConstantsAssumption

LEMMA ReviewedTyped ==
  ASSUME NEW review \in [Tx -> Decision], NEW r, r.review = review, NEW list
  PROVE  Reviewed(r, list) \in [Tx -> Decision]
BY DEF Reviewed, Decision

LEMMA StatusTyped ==
  ASSUME NEW review, NEW due PROVE StatusOf(review, due) \in ReviewStatus
BY DEF StatusOf, ReviewStatus

(* What PaidOf says: it keeps CONFIRMED, and makes none. *)
LEMMA PaidShape ==
  ASSUME NEW paid, NEW review, NEW due
  PROVE  /\ PaidOf(paid, review, due) \in Paid
         /\ PaidOf(paid, review, due) = "CONFIRMED" <=> paid = "CONFIRMED"
         /\ due => PaidOf(paid, review, due) # "UNKNOWN"
BY DEF PaidOf, Paid

LEMMA SnapshotTyped ==
  ASSUME NEW r, r.review \in [Tx -> Decision], NEW list
  PROVE  /\ SnapshotOf(r, list) \in Snapshot
         /\ SnapshotOf(r, list).review = Reviewed(r, list)
         /\ SnapshotOf(r, list).paid = "CONFIRMED" <=> r.paid = "CONFIRMED"
         /\ DueForReview(r.planned) => SnapshotOf(r, list).paid # "UNKNOWN"
<1> DEFINE review == Reviewed(r, list)
           due == DueForReview(r.planned)
<1>1. SnapshotOf(r, list) =
        [review |-> review, status |-> StatusOf(review, due),
         paid |-> PaidOf(r.paid, review, due)]
  BY DEF SnapshotOf
<1>2. review \in [Tx -> Decision]
  BY ReviewedTyped
<1> HIDE DEF review, due
<1>3. StatusOf(review, due) \in ReviewStatus
  BY StatusTyped
<1>4. /\ PaidOf(r.paid, review, due) \in Paid
      /\ PaidOf(r.paid, review, due) = "CONFIRMED" <=> r.paid = "CONFIRMED"
      /\ due => PaidOf(r.paid, review, due) # "UNKNOWN"
  BY PaidShape
<1>5. /\ SnapshotOf(r, list) \in Snapshot
      /\ SnapshotOf(r, list).review = review
      /\ SnapshotOf(r, list).paid = PaidOf(r.paid, review, due)
  BY <1>1, <1>2, <1>3, <1>4 DEF Snapshot
<1> QED BY <1>4, <1>5 DEF review, due

LEMMA IdleTyped == Idle \in WorkerRecord
BY DEF Idle, WorkerRecord, Paid

LEMMA NewRunTyped ==
  ASSUME NEW d \in PayDay
  PROVE  /\ NewRun(d) \in Run
         /\ NewRun(d).paid = "UNKNOWN"
         /\ \A t \in Tx : NewRun(d).review[t] = "none"
<1>1. Planned(d) \in Int
  BY PayDayInt
<1>2. [t \in Tx |-> "none"] \in [Tx -> Decision]
  BY DEF Decision
<1>3. "UNKNOWN" \in Paid /\ "PENDING" \in ReviewStatus
  BY DEF Paid, ReviewStatus
<1> QED BY <1>1, <1>2, <1>3 DEF NewRun, Run

LEMMA NextPaidShape ==
  ASSUME worker \in WorkerRecord
  PROVE  /\ NextPaid \in Paid
         /\ NextPaid = "CONFIRMED" => worker.paid = "CONFIRMED"
         /\ day > worker.planned => NextPaid # "UNKNOWN" \/ NextPaid = "MISSING"
BY DEF NextPaid, WorkerRecord, Paid

LEMMA SnapshotThere == \A s \in Snapshot : s # NoSave
<1> SUFFICES ASSUME NEW s \in Snapshot PROVE s # NoSave
  OBVIOUS
<1>1. "paid" \in DOMAIN s
  BY DEF Snapshot
<1>2. "paid" \notin DOMAIN NoSave
  BY DEF NoSave
<1> QED BY <1>1, <1>2

(* What a write of the document does to the copies of others. *)
LEMMA PutEffect ==
  ASSUME TypeOK, NEW w, NEW doc, Put(w, doc)
  PROVE  /\ run' = doc /\ printed' \in Page \union {"nobody"}
         /\ stale' \in BOOLEAN
         /\ stale' <=> (stale \/ w \in overtaken)
         /\ overtaken' \in SUBSET (Page \union {"admin", "worker"})
         /\ \A x \in Reader : x # w /\ x \notin overtaken' => doc = run /\ x \notin overtaken
<1>1. Reader \in SUBSET (Page \union {"admin", "worker"})
  BY DEF Reader
<1>2. overtaken' \in SUBSET (Page \union {"admin", "worker"})
  BY <1>1 DEF Put, TypeOK
<1>3. stale' <=> (stale \/ w \in overtaken)
  BY DEF Put, TypeOK
<1>4. stale' \in BOOLEAN
  BY DEF Put, TypeOK
<1>5. \A x \in Reader : x # w /\ x \notin overtaken' => doc = run /\ x \notin overtaken
  BY DEF Put
<1>6. run' = doc /\ printed' \in Page \union {"nobody"}
  BY DEF Put
<1> QED BY <1>2, <1>3, <1>4, <1>5, <1>6

LEMMA InputTyped == ASSUME TypeOK, Input PROVE inputs' \in 0 .. MaxInput
BY ConstantsAssumption DEF TypeOK, Input

(* The document as each writer leaves it. *)
LEMMA DocTyped ==
  ASSUME TypeOK
  PROVE  /\ [run EXCEPT !.planned = worker.planned] \in Run
         /\ [run EXCEPT !.paid = NextPaid, !.matched = worker.next] \in Run
         /\ [run EXCEPT !.paid = "CONFIRMED", !.matched = confirming] \in Run
<1>1. run \in Run /\ worker \in WorkerRecord
  BY DEF TypeOK, WorkerRecord
<1>2. NextPaid \in Paid /\ "CONFIRMED" \in Paid
  BY <1>1, NextPaidShape DEF Paid
<1>5. confirming \in SUBSET Tx
  BY DEF TypeOK
<1>6. [run EXCEPT !.planned = worker.planned] \in Run
  BY <1>1 DEF Run, WorkerRecord
<1>7. [run EXCEPT !.paid = NextPaid, !.matched = worker.next] \in Run
  BY <1>1, <1>2 DEF Run, WorkerRecord
<1>8. [run EXCEPT !.paid = "CONFIRMED", !.matched = confirming] \in Run
  BY <1>1, <1>2, <1>5 DEF Run
<1> QED BY <1>6, <1>7, <1>8

LEMMA ReviewWritten ==
  ASSUME TypeOK, NEW p \in Page, saving[p] # NoSave
  PROVE  [run EXCEPT !.review = saving[p].review, !.status = saving[p].status,
                     !.paid = saving[p].paid] \in Run
<1>1. saving[p] \in Snapshot /\ run \in Run
  BY DEF TypeOK
<1> QED BY <1>1 DEF Run, Snapshot

LEMMA Rescheduled ==
  ASSUME TypeOK, NEW d \in PayDay
  PROVE  [run EXCEPT !.planned = Planned(d)] \in Run
<1>1. Planned(d) \in Int /\ run \in Run
  BY PayDayInt DEF TypeOK
<1> QED BY <1>1 DEF Run

LEMMA WorkerTyped ==
  ASSUME TypeOK, WorkerStart \/ WorkerUpsert \/ WorkerRead \/ WorkerWrite \/ WorkerAbort
  PROVE  TypeOK'
<1>0. worker \in WorkerRecord /\ Idle \in WorkerRecord
  BY IdleTyped DEF TypeOK, WorkerRecord
<1>1. CASE WorkerStart
  <2>1. Planned(pay) \in Int
    BY PayDayInt DEF TypeOK
  <2>2. worker' \in WorkerRecord
    BY <1>0, <1>1, <2>1 DEF WorkerStart, WorkerRecord
  <2> QED BY <1>1, <2>2 DEF WorkerStart, TypeOK, WorkerRecord
<1>2. CASE WorkerUpsert
  <2>1. Put("worker", [run EXCEPT !.planned = worker.planned])
    BY <1>2 DEF WorkerUpsert
  <2>2. run' \in Run /\ stale' \in BOOLEAN /\ printed' \in Page \union {"nobody"}
        /\ overtaken' \in SUBSET (Page \union {"admin", "worker"})
    BY <2>1, PutEffect, DocTyped
  <2>3. worker' \in WorkerRecord
    BY <1>0, <1>2 DEF WorkerUpsert, WorkerRecord
  <2>4. overdue' \in BOOLEAN
    BY <1>2 DEF WorkerUpsert, TypeOK
  <2> QED BY <1>2, <2>2, <2>3, <2>4 DEF WorkerUpsert, TypeOK, WorkerRecord
<1>3. CASE WorkerRead
  <2>1. {t \in approved \intersect Labor : InMatchWindow(TxDay[t], worker.planned)}
          \in SUBSET Tx
    BY DEF TypeOK
  <2>2. run.paid \in Paid /\ run.matched \in SUBSET Tx
    BY DEF TypeOK, Run
  <2>3. worker' \in WorkerRecord
    BY <1>0, <1>3, <2>1, <2>2 DEF WorkerRead, WorkerRecord
  <2> QED BY <1>3, <2>3 DEF WorkerRead, TypeOK, WorkerRecord
<1>4. CASE WorkerWrite
  <2>1. run' \in Run /\ stale' \in BOOLEAN /\ printed' \in Page \union {"nobody"}
        /\ overtaken' \in SUBSET (Page \union {"admin", "worker"})
    <3>1. CASE WorkerChanges
      BY <1>4, <3>1, PutEffect, DocTyped DEF WorkerWrite
    <3>2. CASE ~WorkerChanges
      BY <1>4, <3>2 DEF WorkerWrite, Drop, TypeOK
    <3> QED BY <3>1, <3>2
  <2>2. overdue' \in BOOLEAN
    BY <1>4 DEF WorkerWrite, TypeOK
  <2> QED BY <1>0, <1>4, <2>1, <2>2 DEF WorkerWrite, TypeOK, WorkerRecord
<1>5. CASE WorkerAbort
  BY <1>0, <1>5 DEF WorkerAbort, Drop, TypeOK, WorkerRecord
<1> QED BY <1>1, <1>2, <1>3, <1>4, <1>5

LEMMA PageTyped ==
  ASSUME TypeOK, NEW p \in Page,
         \/ AutoSave(p) \/ SaveReview(p) \/ Open(p) \/ Close(p) \/ Refresh(p)
         \/ \E t \in Tx, d \in Judgement \union {"PENDING"} : Decide(p, t, d)
  PROVE  TypeOK'
<1>0. run.review \in [Tx -> Decision]
  BY DEF TypeOK, Run
<1>1. CASE AutoSave(p)
  <2>1. SnapshotOf(run, txs[p]) \in Snapshot
    BY <1>0, SnapshotTyped
  <2>2. saving' \in [Page -> Snapshot \union {NoSave}]
    BY <1>1, <2>1 DEF AutoSave, TypeOK
  <2> QED BY <1>1, <2>2 DEF AutoSave, TypeOK
<1>2. CASE SaveReview(p)
  <2>1. run' \in Run /\ stale' \in BOOLEAN /\ printed' \in Page \union {"nobody"}
        /\ overtaken' \in SUBSET (Page \union {"admin", "worker"})
    <3> DEFINE doc == [run EXCEPT !.review = saving[p].review,
                                  !.status = saving[p].status, !.paid = saving[p].paid]
    <3>1. doc \in Run /\ Put(p, doc)
      BY <1>2, ReviewWritten DEF SaveReview
    <3> HIDE DEF doc
    <3> QED BY <3>1, PutEffect
  <2>2. saving' \in [Page -> Snapshot \union {NoSave}]
    BY <1>2 DEF SaveReview, TypeOK
  <2> QED BY <1>2, <2>1, <2>2 DEF SaveReview, TypeOK
<1>3. CASE Open(p)
  <2>1. inputs' \in 0 .. MaxInput
    BY <1>3, InputTyped DEF Open
  <2>2. txs' \in [Page -> SUBSET Tx]
    BY <1>3 DEF Open, TypeOK
  <2>3. printed' \in Page \union {"nobody"} /\ open' \in SUBSET Page
    BY <1>3 DEF Open, Reread, TypeOK
  <2> QED BY <1>3, <2>1, <2>2, <2>3 DEF Open, TypeOK
<1>4. CASE Close(p)
  <2>1. inputs' \in 0 .. MaxInput
    BY <1>4, InputTyped DEF Close
  <2>2. saving' \in [Page -> Snapshot \union {NoSave}] /\ open' \in SUBSET Page
    BY <1>4 DEF Close, TypeOK
  <2>3. txs' \in [Page -> SUBSET Tx] /\ printed' \in Page \union {"nobody"}
    BY <1>4 DEF Close, Reread, TypeOK
  <2> QED BY <1>4, <2>1, <2>2, <2>3 DEF Close, TypeOK
<1>5. CASE Refresh(p)
  <2>1. inputs' \in 0 .. MaxInput /\ printed' \in Page \union {"nobody"}
    BY <1>5, InputTyped DEF Refresh, Reread, TypeOK
  <2> QED BY <1>5, <2>1 DEF Refresh, TypeOK
<1>6. ASSUME NEW t \in Tx, NEW d \in Judgement \union {"PENDING"}, Decide(p, t, d)
      PROVE  TypeOK'
  <2> DEFINE r == [run EXCEPT !.review = [Reviewed(run, txs[p]) EXCEPT ![t] = d]]
  <2>1. inputs' \in 0 .. MaxInput
    BY <1>6, InputTyped DEF Decide
  <2>2. r.review \in [Tx -> Decision]
    <3>1. Reviewed(run, txs[p]) \in [Tx -> Decision]
      BY <1>0, ReviewedTyped
    <3>2. d \in Decision
      BY DEF Decision
    <3>3. [Reviewed(run, txs[p]) EXCEPT ![t] = d] \in [Tx -> Decision]
      BY <3>1, <3>2
    <3> QED BY <3>3 DEF TypeOK, Run
  <2>3. SnapshotOf(r, txs[p]) \in Snapshot
    BY <2>2, SnapshotTyped
  <2>4. saving' \in [Page -> Snapshot \union {NoSave}]
    BY <1>6, <2>3 DEF Decide, TypeOK
  <2>5. judged' \in SUBSET Tx
    BY <1>6 DEF Decide, TypeOK
  <2> QED BY <1>6, <2>1, <2>4, <2>5 DEF Decide, TypeOK
<1> QED BY <1>1, <1>2, <1>3, <1>4, <1>5, <1>6

LEMMA ScheduleTyped ==
  ASSUME TypeOK, NEW d \in PayDay, ScheduleUpdate(d) \/ ScheduleReset(d) \/ ScheduleOnly(d)
  PROVE  TypeOK'
<1>1. /\ inputs' \in 0 .. MaxInput
      /\ pay' \in PayDay
      /\ UNCHANGED <<day, approved, txs, open, saving, confirming, worker, ran, judged,
                     wasConfirmed>>
  BY InputTyped DEF ScheduleUpdate, ScheduleReset, ScheduleOnly, Schedule
<1>2. CASE ScheduleUpdate(d)
  <2>1. run' \in Run /\ stale' \in BOOLEAN /\ printed' \in Page \union {"nobody"}
        /\ overtaken' \in SUBSET (Page \union {"admin", "worker"})
    <3> DEFINE doc == [run EXCEPT !.planned = Planned(d)]
    <3>1. doc \in Run /\ Put("schedule", doc)
      BY <1>2, Rescheduled DEF ScheduleUpdate
    <3> HIDE DEF doc
    <3> QED BY <3>1, PutEffect
  <2>2. overdue' \in BOOLEAN
    BY <1>2 DEF ScheduleUpdate, TypeOK
  <2> QED BY <1>1, <1>2, <2>1, <2>2 DEF ScheduleUpdate, TypeOK
<1>3. CASE ScheduleReset(d)
  <2>1. run' \in Run /\ stale' \in BOOLEAN /\ printed' \in Page \union {"nobody"}
        /\ overtaken' \in SUBSET (Page \union {"admin", "worker"})
    BY <1>3, PutEffect, NewRunTyped DEF ScheduleReset
  <2> QED BY <1>1, <1>3, <2>1 DEF ScheduleReset, TypeOK
<1>4. CASE ScheduleOnly(d)
  BY <1>1, <1>4 DEF ScheduleOnly, TypeOK
<1> QED BY <1>2, <1>3, <1>4

LEMMA OtherTyped ==
  ASSUME TypeOK, ConfirmPaid \/ SaveConfirmation \/ NextDay \/ \E t \in Tx : ChangeState(t)
  PROVE  TypeOK'
<1>1. CASE ConfirmPaid
  <2>1. confirming' \in SUBSET Tx
    <3>1. \A review : FinalMatched(review) \in SUBSET Tx
      BY DEF FinalMatched, Having, TypeOK, Run
    <3> QED BY <1>1, <3>1 DEF ConfirmPaid
  <2> QED BY <1>1, <2>1, InputTyped DEF ConfirmPaid, TypeOK
<1>2. CASE SaveConfirmation
  <2>1. run' \in Run /\ stale' \in BOOLEAN /\ printed' \in Page \union {"nobody"}
        /\ overtaken' \in SUBSET (Page \union {"admin", "worker"})
    BY <1>2, PutEffect, DocTyped DEF SaveConfirmation
  <2> QED BY <1>2, <2>1 DEF SaveConfirmation, TypeOK
<1>3. CASE NextDay
  <2>1. Reader \in SUBSET (Page \union {"admin", "worker"})
    BY DEF Reader
  <2> QED BY <1>3, <2>1 DEF NextDay, TypeOK
<1>4. ASSUME NEW t \in Tx, ChangeState(t)
      PROVE  TypeOK'
  <2>1. approved' \in SUBSET Tx
    BY <1>4 DEF ChangeState, TypeOK
  <2> QED BY <1>4, <2>1, InputTyped DEF ChangeState, TypeOK
<1> QED BY <1>1, <1>2, <1>3, <1>4

LEMMA NextTyped == ASSUME TypeOK, [Next]_vars PROVE TypeOK'
<1>1. CASE Next
  BY <1>1, NextCases, WorkerTyped, PageTyped, ScheduleTyped, OtherTyped
<1>2. CASE UNCHANGED vars
  BY <1>2 DEF vars, TypeOK
<1> QED BY <1>1, <1>2

LEMMA InitTyped == ASSUME Init PROVE TypeOK
<1>1. run \in Run
  BY NewRunTyped DEF Init
<1>2. worker \in WorkerRecord
  BY IdleTyped DEF Init
<1>3. inputs \in 0 .. MaxInput
  <2>1. inputs = 0 /\ MaxInput \in Nat
    BY ConstantsAssumption DEF Init
  <2> QED BY <2>1
<1>4. /\ day \in CheckDay /\ pay \in PayDay
      /\ approved \in SUBSET Tx /\ confirming \in SUBSET Tx /\ judged \in SUBSET Tx
      /\ overtaken \in SUBSET (Page \union {"admin", "worker"})
  BY DEF Init
<1>5. printed \in Page \union {"nobody"} /\ open \in SUBSET Page
  BY DEF Init
<1>6. txs \in [Page -> SUBSET Tx] /\ saving \in [Page -> Snapshot \union {NoSave}]
  BY DEF Init
<1>7. /\ ran \in BOOLEAN /\ stale \in BOOLEAN /\ reset \in BOOLEAN
      /\ wasConfirmed \in BOOLEAN /\ overdue \in BOOLEAN
  BY DEF Init
<1> QED BY <1>1, <1>2, <1>3, <1>4, <1>5, <1>6, <1>7 DEF TypeOK, WorkerRecord

(* Variables and documents stay in their domains. *)
THEOREM PayrollTyped == Spec => []TypeOK
<1>1. Init => TypeOK
  BY InitTyped
<1>2. TypeOK /\ [Next]_vars => TypeOK'
  BY NextTyped
<1> QED BY <1>1, <1>2, PTL DEF Spec

-----------------------------------------------------------------------------
(* The invariant *)

(* Only payments with a sign of being salaries have a decision. *)
Signs(review) == \A t \in Tx : review[t] # "none" => t \in Labor \union Keyword

(* What a copy of the run that nobody has overtaken says of the document. *)
Current(p) ==
  /\ saving[p].paid = "CONFIRMED" <=> run.paid = "CONFIRMED"
  /\ day >= run.planned => saving[p].paid # "UNKNOWN"
  /\ \A t \in Tx :
       run.review[t] \in Judgement /\ saving[p].review[t] = "none" =>
         ~InReviewWindow(TxDay[t], run.planned) \/ t \notin txs[p]

CopyOK(p) ==
  saving[p] # NoSave =>
    /\ Having(saving[p].review, "PAYROLL") \subseteq judged
    /\ Signs(saving[p].review)
    /\ p \notin overtaken => Current(p)

CopiesOK == \A p \in Page : CopyOK(p)

WorkerOK == worker.pc = "write" /\ "worker" \notin overtaken => worker.paid = run.paid

RunOK ==
  /\ Having(run.review, "PAYROLL") \subseteq judged
  /\ Signs(run.review)
  /\ confirming \subseteq judged
  /\ overdue => day > run.planned

Promises == ConfirmationKept /\ ConfirmedWasJudged /\ MissingReported

IInv == TypeOK /\ CopiesOK /\ WorkerOK /\ RunOK /\ Promises

LEMMA Numbers ==
  ASSUME TypeOK
  PROVE  /\ day \in Int /\ run.planned \in Int /\ worker.planned \in Int
         /\ \A d \in PayDay : Planned(d) \in Int
BY PayDayInt, ConstantsAssumption DEF TypeOK, Run

LEMMA Disjoint ==
  "worker" \notin Page /\ "admin" \notin Page /\ "schedule" \notin Page
BY ConstantsAssumption

(* A review computed from the document, and perhaps one judgement more. *)
LEMMA SnapshotFresh ==
  ASSUME TypeOK, Signs(run.review), NEW r, r.planned = run.planned, r.paid = run.paid,
         r.review \in [Tx -> Decision], NEW list, NEW J,
         Having(r.review, "PAYROLL") \subseteq J
  PROVE  /\ SnapshotOf(r, list) \in Snapshot
         /\ Having(SnapshotOf(r, list).review, "PAYROLL") \subseteq J
         /\ Signs(SnapshotOf(r, list).review)
         /\ SnapshotOf(r, list).paid = "CONFIRMED" <=> run.paid = "CONFIRMED"
         /\ day >= run.planned => SnapshotOf(r, list).paid # "UNKNOWN"
         /\ \A t \in Tx :
              run.review[t] \in Judgement /\ SnapshotOf(r, list).review[t] = "none" =>
                ~InReviewWindow(TxDay[t], run.planned) \/ t \notin list
<1> DEFINE s == SnapshotOf(r, list)
<1>1. /\ s \in Snapshot
      /\ s.review = Reviewed(r, list)
      /\ s.paid = "CONFIRMED" <=> r.paid = "CONFIRMED"
      /\ DueForReview(r.planned) => s.paid # "UNKNOWN"
  BY SnapshotTyped
<1>2. \A t \in Tx : Reviewed(r, list)[t] =
        IF t \notin Candidates(r, list) THEN "none"
        ELSE IF r.review[t] = "none" THEN "PENDING" ELSE r.review[t]
  BY DEF Reviewed
<1>3. \A t \in Tx : t \in Candidates(r, list) <=>
        t \in list /\ t \in Labor \union Keyword /\ InReviewWindow(TxDay[t], run.planned)
  BY DEF Candidates
<1> HIDE DEF s
<1>4. Having(s.review, "PAYROLL") \subseteq J
  BY <1>1, <1>2 DEF Having
<1>5. Signs(s.review)
  BY <1>1, <1>2, <1>3 DEF Signs
<1>6. day >= run.planned => s.paid # "UNKNOWN"
  BY <1>1 DEF DueForReview
<1>7. ASSUME NEW t \in Tx, run.review[t] \in Judgement, s.review[t] = "none"
      PROVE  ~InReviewWindow(TxDay[t], run.planned) \/ t \notin list
  <2>1. t \in Labor \union Keyword
    BY <1>7 DEF Signs, Judgement
  <2>2. t \notin Candidates(r, list)
    <3>1. SUFFICES ASSUME t \in Candidates(r, list) PROVE FALSE
      OBVIOUS
    <3>2. r.review[t] = "none" => s.review[t] = "PENDING"
      BY <1>1, <1>2, <3>1
    <3>3. r.review[t] # "none" => s.review[t] = r.review[t]
      BY <1>1, <1>2, <3>1
    <3> QED BY <1>7, <3>2, <3>3
  <2> QED BY <1>3, <2>1, <2>2
<1> QED BY <1>1, <1>4, <1>5, <1>6, <1>7 DEF s

(* A write of the document keeps every other copy right or overtakes it. *)
LEMMA PutKeeps ==
  ASSUME IInv, NEW w, NEW doc, Put(w, doc), doc \in Run,
         w \in Page => saving'[w] = NoSave,
         \A p \in Page : p # w => saving'[p] = saving[p],
         day' = day, txs' = txs, judged' = judged,
         \/ w = "worker" /\ worker'.pc # "write"
         \/ w # "worker" /\ worker' = worker
  PROVE  CopiesOK' /\ WorkerOK'
<1>1. /\ run' = doc
      /\ \A x \in Reader : x # w /\ x \notin overtaken' => doc = run /\ x \notin overtaken
  BY PutEffect DEF IInv
<1>2. ASSUME NEW p \in Page PROVE CopyOK(p)'
  <2>1. CASE p = w
    BY <2>1 DEF CopyOK
  <2>2. CASE p # w
    <3>1. CopyOK(p) /\ saving'[p] = saving[p]
      BY <2>2 DEF IInv, CopiesOK
    <3>2. ASSUME saving[p] # NoSave, p \notin overtaken'
          PROVE  Current(p)'
      <4>1. p \in Reader
        BY <3>2 DEF Reader
      <4>2. run' = run /\ p \notin overtaken
        BY <1>1, <2>2, <3>2, <4>1
      <4> QED BY <3>1, <3>2, <4>2 DEF CopyOK, Current
    <3> QED BY <3>1, <3>2 DEF CopyOK, Having, Signs
  <2> QED BY <2>1, <2>2
<1>3. WorkerOK'
  <2>1. CASE w = "worker"
    BY <2>1 DEF WorkerOK
  <2>2. CASE w # "worker"
    <3>1. SUFFICES ASSUME worker.pc = "write", "worker" \notin overtaken'
                   PROVE  worker.paid = run'.paid
      BY <2>2 DEF WorkerOK
    <3>2. "worker" \in Reader
      BY <3>1 DEF Reader
    <3>3. run' = run /\ "worker" \notin overtaken
      BY <1>1, <2>2, <3>1, <3>2
    <3> QED BY <3>1, <3>3 DEF IInv, WorkerOK
  <2> QED BY <2>1, <2>2
<1> QED BY <1>2, <1>3 DEF CopiesOK

(* Steps that leave the document alone. *)
LEMMA SameRun ==
  ASSUME IInv, run' = run, stale' = stale, reset' = reset,
         wasConfirmed' = wasConfirmed, overdue' = overdue, judged \subseteq judged',
         day' \in Int, day' >= day, confirming' \subseteq judged'
  PROVE  RunOK' /\ Promises'
<1>1. /\ Having(run.review, "PAYROLL") \subseteq judged
      /\ Signs(run.review)
      /\ overdue => day > run.planned
      /\ Promises
  BY DEF IInv, RunOK
<1>2. day \in Int /\ run.planned \in Int
  BY Numbers DEF IInv
<1>3. overdue' => day' > run'.planned
  BY <1>1, <1>2
<1>4. Having(run.review, "PAYROLL")' \subseteq judged' /\ Signs(run.review)'
  BY <1>1 DEF Having, Signs
<1>5. Promises'
  BY <1>1 DEF Promises, ConfirmationKept, ConfirmedWasJudged, MissingReported
<1> QED BY <1>3, <1>4, <1>5 DEF RunOK

(* Steps that leave document and copies alone, but may age them. *)
LEMMA SameCopies ==
  ASSUME IInv, run' = run, saving' = saving, judged' = judged,
         overtaken \subseteq overtaken',
         \A p \in Page : saving[p] # NoSave => txs'[p] = txs[p],
         worker' = worker \/ worker'.pc # "write",
         day' = day \/ Reader \subseteq overtaken'
  PROVE  CopiesOK' /\ WorkerOK'
<1>1. ASSUME NEW p \in Page PROVE CopyOK(p)'
  <2>1. CopyOK(p)
    BY DEF IInv, CopiesOK
  <2>2. ASSUME saving[p] # NoSave, p \notin overtaken'
        PROVE  Current(p)'
    <3>1. p \in Reader
      BY <2>2 DEF Reader
    <3>2. day' = day /\ p \notin overtaken /\ txs'[p] = txs[p]
      BY <2>2, <3>1
    <3> QED BY <2>1, <2>2, <3>2 DEF CopyOK, Current
  <2> QED BY <2>1, <2>2 DEF CopyOK, Having, Signs
<1>2. WorkerOK'
  BY DEF IInv, WorkerOK
<1> QED BY <1>1, <1>2 DEF CopiesOK

-----------------------------------------------------------------------------
(* The steps *)

LEMMA WorkerUpsertKeeps ==
  ASSUME IInv, WorkerUpsert
  PROVE  (CopiesOK /\ WorkerOK /\ RunOK /\ Promises)'
<1> DEFINE doc == [run EXCEPT !.planned = worker.planned]
<1>0. TypeOK /\ day \in Int /\ run.planned \in Int /\ worker.planned \in Int
  BY Numbers DEF IInv
<1>1. Put("worker", doc)
  BY DEF WorkerUpsert
<1>2. /\ doc \in Run /\ doc.paid = run.paid /\ doc.review = run.review
      /\ doc.matched = run.matched /\ doc.planned = worker.planned
  BY <1>0, DocTyped DEF TypeOK, Run
<1>3. worker'.pc # "write" /\ saving' = saving
  BY <1>0 DEF WorkerUpsert, TypeOK
<1> HIDE DEF doc
<1>4. CopiesOK' /\ WorkerOK'
  BY <1>1, <1>2, <1>3, Disjoint, PutKeeps DEF WorkerUpsert
<1>5. run' = doc /\ (stale' <=> (stale \/ "worker" \in overtaken))
  BY <1>0, <1>1, PutEffect
<1>6. RunOK'
  <2>1. overdue' => day' > run'.planned
    BY <1>2, <1>5 DEF WorkerUpsert, IInv, RunOK
  <2>2. Having(run.review, "PAYROLL")' \subseteq judged' /\ Signs(run.review)'
    BY <1>2, <1>5 DEF WorkerUpsert, IInv, RunOK, Having, Signs
  <2> QED BY <2>1, <2>2 DEF RunOK, WorkerUpsert, IInv
<1>7. Promises'
  BY <1>2, <1>5 DEF WorkerUpsert, IInv, Promises, ConfirmationKept,
     ConfirmedWasJudged, MissingReported
<1> QED BY <1>4, <1>6, <1>7

LEMMA WorkerWriteKeeps ==
  ASSUME IInv, WorkerWrite
  PROVE  (CopiesOK /\ WorkerOK /\ RunOK /\ Promises)'
<1> DEFINE doc == [run EXCEPT !.paid = NextPaid, !.matched = worker.next]
<1>0. /\ TypeOK /\ day \in Int /\ run.planned \in Int /\ worker.planned \in Int
      /\ run \in Run /\ worker \in WorkerRecord
      /\ worker.pc = "write" /\ worker'.pc # "write"
  BY Numbers DEF IInv, TypeOK, WorkerRecord, WorkerWrite, Idle
<1>1. "worker" \notin overtaken => worker.paid = run.paid
  BY <1>0 DEF IInv, WorkerOK
<1>2. CASE WorkerChanges
  <2>1. Put("worker", doc)
    BY <1>2 DEF WorkerWrite
  <2>2. /\ doc \in Run /\ doc.paid = NextPaid /\ doc.review = run.review
        /\ doc.planned = run.planned
    BY <1>0, DocTyped DEF Run
  <2> HIDE DEF doc
  <2>3. CopiesOK' /\ WorkerOK'
    BY <1>0, <2>1, <2>2, Disjoint, PutKeeps DEF WorkerWrite
  <2>4. run' = doc /\ (stale' <=> (stale \/ "worker" \in overtaken))
    BY <1>0, <2>1, PutEffect
  <2>5. NextPaid # "CONFIRMED"
    BY <1>0, <1>2, NextPaidShape DEF WorkerChanges
  <2>6. RunOK'
    <3>1. overdue' => day' > run'.planned
      BY <1>0, <2>2, <2>4 DEF WorkerWrite, IInv, RunOK
    <3>2. Having(run.review, "PAYROLL")' \subseteq judged' /\ Signs(run.review)'
      BY <2>2, <2>4 DEF WorkerWrite, IInv, RunOK, Having, Signs
    <3> QED BY <3>1, <3>2 DEF RunOK, WorkerWrite, IInv
  <2>7. ConfirmationKept'
    BY <1>1, <1>2, <2>4 DEF ConfirmationKept, IInv, Promises, WorkerWrite, WorkerChanges
  <2>8. ConfirmedWasJudged'
    BY <2>2, <2>4, <2>5 DEF ConfirmedWasJudged
  <2>9. MissingReported'
    <3>1. SUFFICES ASSUME overdue', ~stale' PROVE NextPaid # "UNKNOWN"
      BY <2>2, <2>4 DEF MissingReported
    <3>2. "worker" \notin overtaken /\ ~stale /\ worker.paid = run.paid
      BY <1>1, <2>4, <3>1
    <3>3. CASE overdue
      <4>1. run.paid # "UNKNOWN"
        BY <3>2, <3>3 DEF IInv, Promises, MissingReported
      <4> QED BY <3>2, <4>1 DEF NextPaid
    <3>4. CASE day > worker.planned
      BY <3>4 DEF NextPaid
    <3> QED BY <3>1, <3>3, <3>4 DEF WorkerWrite
  <2> QED BY <2>3, <2>6, <2>7, <2>8, <2>9 DEF Promises
<1>3. CASE ~WorkerChanges
  <2>1. /\ run' = run /\ stale' = stale /\ saving' = saving /\ judged' = judged
        /\ txs' = txs /\ day' = day /\ reset' = reset /\ confirming' = confirming
        /\ wasConfirmed' = wasConfirmed /\ overtaken' = overtaken \ {"worker"}
    BY <1>3 DEF WorkerWrite, Drop
  <2>2. CopiesOK'
    <3>1. ASSUME NEW p \in Page PROVE CopyOK(p)'
      <4>1. p \notin overtaken' => p \notin overtaken
        BY <2>1, Disjoint
      <4>2. CopyOK(p)
        BY DEF IInv, CopiesOK
      <4>3. Current(p)' <=> Current(p)
        BY <2>1 DEF Current
      <4> QED BY <2>1, <4>1, <4>2, <4>3 DEF CopyOK
    <3> QED BY <3>1 DEF CopiesOK
  <2>3. WorkerOK'
    BY <1>0 DEF WorkerOK
  <2>4. RunOK'
    <3>1. overdue' => day' > run'.planned
      BY <1>0, <2>1 DEF WorkerWrite, IInv, RunOK
    <3>2. Having(run.review, "PAYROLL")' \subseteq judged' /\ Signs(run.review)'
      BY <2>1 DEF IInv, RunOK, Having, Signs
    <3> QED BY <2>1, <3>1, <3>2 DEF RunOK, IInv
  <2>5. ConfirmationKept' /\ ConfirmedWasJudged'
    BY <2>1 DEF IInv, Promises, ConfirmationKept, ConfirmedWasJudged
  <2>6. MissingReported'
    <3>1. SUFFICES ASSUME overdue', ~stale PROVE run.paid # "UNKNOWN"
      BY <2>1 DEF MissingReported
    <3>2. CASE overdue
      BY <3>1, <3>2 DEF IInv, Promises, MissingReported
    <3>3. CASE day > worker.planned /\ "worker" \notin overtaken
      <4>1. worker.paid = run.paid
        BY <1>1, <3>3
      <4>2. worker.paid = "CONFIRMED" \/ NextPaid = worker.paid
        BY <1>3 DEF WorkerChanges
      <4>3. NextPaid # "UNKNOWN"
        BY <3>3 DEF NextPaid
      <4> QED BY <4>1, <4>2, <4>3
    <3> QED BY <3>1, <3>2, <3>3 DEF WorkerWrite
  <2> QED BY <2>2, <2>3, <2>4, <2>5, <2>6 DEF Promises
<1> QED BY <1>2, <1>3

LEMMA SaveReviewKeeps ==
  ASSUME IInv, NEW p \in Page, SaveReview(p)
  PROVE  (CopiesOK /\ WorkerOK /\ RunOK /\ Promises)'
<1> DEFINE doc == [run EXCEPT !.review = saving[p].review,
                              !.status = saving[p].status, !.paid = saving[p].paid]
<1>0. /\ TypeOK /\ day \in Int /\ run.planned \in Int /\ run \in Run
      /\ saving[p] # NoSave /\ saving[p] \in Snapshot
  BY Numbers DEF IInv, TypeOK, SaveReview
<1>1. /\ Having(saving[p].review, "PAYROLL") \subseteq judged
      /\ Signs(saving[p].review)
      /\ p \notin overtaken => Current(p)
  BY <1>0 DEF IInv, CopiesOK, CopyOK
<1>2. Put(p, doc)
  BY DEF SaveReview
<1>3. /\ doc \in Run /\ doc.paid = saving[p].paid /\ doc.review = saving[p].review
      /\ doc.planned = run.planned /\ doc.matched = run.matched
  BY <1>0, ReviewWritten DEF Run
<1> HIDE DEF doc
<1>4. /\ saving'[p] = NoSave
      /\ \A q \in Page : q # p => saving'[q] = saving[q]
      /\ p # "worker" /\ worker' = worker
  BY <1>0, Disjoint DEF SaveReview, TypeOK
<1>5. CopiesOK' /\ WorkerOK'
  BY <1>2, <1>3, <1>4, PutKeeps DEF SaveReview
<1>6. run' = doc /\ (stale' <=> (stale \/ p \in overtaken))
  BY <1>0, <1>2, PutEffect
<1>7. RunOK'
  <2>1. overdue' => day' > run'.planned
    BY <1>3, <1>6 DEF SaveReview, IInv, RunOK
  <2>2. Having(run.review, "PAYROLL")' \subseteq judged' /\ Signs(run.review)'
    BY <1>1, <1>3, <1>6 DEF SaveReview, Having, Signs
  <2> QED BY <2>1, <2>2 DEF RunOK, SaveReview, IInv
<1>8. ASSUME ~stale'
      PROVE  /\ run'.paid = "CONFIRMED" <=> run.paid = "CONFIRMED"
             /\ day >= run.planned => run'.paid # "UNKNOWN"
  BY <1>1, <1>3, <1>6, <1>8 DEF Current
<1>9. ConfirmationKept' /\ ConfirmedWasJudged'
  BY <1>3, <1>6, <1>8 DEF SaveReview, IInv, Promises, ConfirmationKept, ConfirmedWasJudged
<1>10. MissingReported'
  BY <1>0, <1>6, <1>8 DEF SaveReview, IInv, Promises, MissingReported, RunOK
<1> QED BY <1>5, <1>7, <1>9, <1>10 DEF Promises

LEMMA ScheduleKeeps ==
  ASSUME IInv, NEW d \in PayDay, ScheduleUpdate(d) \/ ScheduleReset(d) \/ ScheduleOnly(d)
  PROVE  (CopiesOK /\ WorkerOK /\ RunOK /\ Promises)'
<1>0. /\ TypeOK /\ day \in Int /\ run.planned \in Int /\ run \in Run
  BY Numbers DEF IInv, TypeOK
<1>1. UNCHANGED <<day, approved, txs, saving, confirming, worker, ran, judged,
                  wasConfirmed>>
  BY DEF ScheduleUpdate, ScheduleReset, ScheduleOnly, Schedule
<1>2. CASE ScheduleUpdate(d)
  <2> DEFINE doc == [run EXCEPT !.planned = Planned(d)]
  <2>1. Put("schedule", doc)
    BY <1>2 DEF ScheduleUpdate
  <2>2. /\ doc \in Run /\ doc.paid = run.paid /\ doc.review = run.review
        /\ doc.matched = run.matched /\ doc.planned = Planned(d)
    BY <1>0, Rescheduled DEF Run
  <2> HIDE DEF doc
  <2>3. CopiesOK' /\ WorkerOK'
    BY <1>1, <2>1, <2>2, Disjoint, PutKeeps
  <2>4. run' = doc /\ (stale' <=> (stale \/ "schedule" \in overtaken))
    BY <1>0, <2>1, PutEffect
  <2>5. RunOK'
    <3>1. overdue' => day' > run'.planned
      BY <1>1, <1>2, <2>2, <2>4 DEF ScheduleUpdate, IInv, RunOK
    <3>2. Having(run.review, "PAYROLL")' \subseteq judged' /\ Signs(run.review)'
      BY <1>1, <2>2, <2>4 DEF IInv, RunOK, Having, Signs
    <3> QED BY <1>1, <3>1, <3>2 DEF RunOK, IInv
  <2>6. Promises'
    BY <1>1, <1>2, <2>2, <2>4 DEF ScheduleUpdate, IInv, Promises, ConfirmationKept,
       ConfirmedWasJudged, MissingReported
  <2> QED BY <2>3, <2>5, <2>6
<1>3. CASE ScheduleReset(d)
  <2>1. Put("schedule", NewRun(d)) /\ reset' /\ ~overdue'
    BY <1>3 DEF ScheduleReset
  <2>2. /\ NewRun(d) \in Run
        /\ NewRun(d).paid = "UNKNOWN"
        /\ \A t \in Tx : NewRun(d).review[t] = "none"
    BY NewRunTyped
  <2>3. CopiesOK' /\ WorkerOK'
    BY <1>1, <2>1, <2>2, Disjoint, PutKeeps
  <2>4. run' = NewRun(d)
    BY <1>0, <2>1, PutEffect
  <2>5. RunOK'
    <3>1. Having(run.review, "PAYROLL")' \subseteq judged' /\ Signs(run.review)'
      BY <2>2, <2>4 DEF Having, Signs
    <3> QED BY <1>1, <2>1, <3>1 DEF RunOK, IInv
  <2>6. Promises'
    BY <2>1, <2>2, <2>4 DEF Promises, ConfirmationKept, ConfirmedWasJudged, MissingReported
  <2> QED BY <2>3, <2>5, <2>6
<1>4. CASE ScheduleOnly(d)
  <2>1. UNCHANGED <<run, overtaken, stale, reset, overdue>>
    BY <1>4 DEF ScheduleOnly
  <2>2. confirming' \subseteq judged' /\ day' >= day
    BY <1>0, <1>1 DEF IInv, RunOK
  <2> QED BY <1>0, <1>1, <2>1, <2>2, SameRun, SameCopies
<1> QED BY <1>2, <1>3, <1>4

(* A page computes a review, by itself or because somebody judges. *)
LEMMA CopyMade ==
  ASSUME IInv, NEW p \in Page, NEW r, r.planned = run.planned, r.paid = run.paid,
         r.review \in [Tx -> Decision],
         Having(r.review, "PAYROLL") \subseteq judged', judged \subseteq judged',
         saving' = [saving EXCEPT ![p] = SnapshotOf(r, txs[p])],
         UNCHANGED <<day, run, txs, confirming, worker, overtaken, stale, reset,
                     wasConfirmed, overdue>>
  PROVE  (CopiesOK /\ WorkerOK /\ RunOK /\ Promises)'
<1>0. TypeOK /\ day \in Int /\ Signs(run.review)
  BY Numbers DEF IInv, RunOK
<1> DEFINE s == SnapshotOf(r, txs[p])
<1>1. /\ Having(s.review, "PAYROLL") \subseteq judged'
      /\ Signs(s.review)
      /\ s.paid = "CONFIRMED" <=> run.paid = "CONFIRMED"
      /\ day >= run.planned => s.paid # "UNKNOWN"
      /\ \A t \in Tx :
           run.review[t] \in Judgement /\ s.review[t] = "none" =>
             ~InReviewWindow(TxDay[t], run.planned) \/ t \notin txs[p]
  BY <1>0, SnapshotFresh
<1>2. saving'[p] = s /\ \A q \in Page : q # p => saving'[q] = saving[q]
  BY <1>0 DEF TypeOK
<1> HIDE DEF s
<1>3. ASSUME NEW q \in Page PROVE CopyOK(q)'
  <2>1. CASE q = p
    <3>1. Current(p)'
      BY <1>1, <1>2 DEF Current
    <3> QED BY <1>1, <1>2, <2>1, <3>1 DEF CopyOK, Having, Signs
  <2>2. CASE q # p
    <3>1. CopyOK(q) /\ saving'[q] = saving[q]
      BY <1>2, <2>2 DEF IInv, CopiesOK
    <3>2. Current(q)' <=> Current(q)
      BY <3>1 DEF Current
    <3> QED BY <3>1, <3>2 DEF CopyOK, Having, Signs
  <2> QED BY <2>1, <2>2
<1>4. WorkerOK'
  BY DEF IInv, WorkerOK
<1>5. confirming' \subseteq judged' /\ day' >= day /\ day' \in Int
  BY <1>0 DEF IInv, RunOK
<1>6. RunOK' /\ Promises'
  BY <1>5, SameRun
<1> QED BY <1>3, <1>4, <1>6 DEF CopiesOK

LEMMA PageKeeps ==
  ASSUME IInv, NEW p \in Page,
         \/ AutoSave(p) \/ Open(p) \/ Close(p) \/ Refresh(p)
         \/ \E t \in Tx, d \in Judgement \union {"PENDING"} : Decide(p, t, d)
  PROVE  (CopiesOK /\ WorkerOK /\ RunOK /\ Promises)'
<1>0. /\ TypeOK /\ run \in Run /\ run.review \in [Tx -> Decision] /\ day \in Int
      /\ Having(run.review, "PAYROLL") \subseteq judged /\ confirming \subseteq judged
  BY Numbers DEF IInv, TypeOK, Run, RunOK
<1>1. CASE AutoSave(p)
  BY <1>0, <1>1, CopyMade DEF AutoSave
<1>2. CASE Open(p)
  <2>1. /\ UNCHANGED <<day, approved, run, saving, confirming, worker, ran, overtaken,
                       stale, reset, judged, wasConfirmed, overdue>>
        /\ \A q \in Page : saving[q] # NoSave => txs'[q] = txs[q]
    BY <1>0, <1>2 DEF Open, TypeOK
  <2>2. confirming' \subseteq judged' /\ day' >= day /\ day' \in Int
    BY <1>0, <2>1
  <2> QED BY <2>1, <2>2, SameRun, SameCopies
<1>3. CASE Close(p)
  <2>1. /\ overtaken' = overtaken \ {p}
        /\ saving'[p] = NoSave /\ \A q \in Page : q # p => saving'[q] = saving[q]
        /\ \A q \in Page : q # p => txs'[q] = txs[q]
        /\ UNCHANGED <<day, run, confirming, worker, stale, reset, judged,
                       wasConfirmed, overdue>>
    BY <1>0, <1>3 DEF Close, TypeOK
  <2>2. ASSUME NEW q \in Page PROVE CopyOK(q)'
    <3>1. CASE q = p
      BY <2>1, <3>1 DEF CopyOK
    <3>2. CASE q # p
      <4>1. CopyOK(q) /\ saving'[q] = saving[q] /\ (q \notin overtaken' => q \notin overtaken)
        BY <2>1, <3>2 DEF IInv, CopiesOK
      <4>2. Current(q)' <=> Current(q)
        BY <2>1, <3>2, <4>1 DEF Current
      <4> QED BY <2>1, <3>2, <4>1, <4>2 DEF CopyOK, Having, Signs
    <3> QED BY <3>1, <3>2
  <2>3. WorkerOK'
    BY <2>1, Disjoint DEF IInv, WorkerOK
  <2>4. confirming' \subseteq judged' /\ day' >= day /\ day' \in Int
    BY <1>0, <2>1
  <2> QED BY <2>1, <2>2, <2>3, <2>4, SameRun DEF CopiesOK
<1>4. CASE Refresh(p)
  <2>1. UNCHANGED <<day, run, txs, saving, confirming, worker, overtaken, stale, reset,
                    judged, wasConfirmed, overdue>>
    BY <1>4 DEF Refresh
  <2>2. confirming' \subseteq judged' /\ day' >= day /\ day' \in Int
    BY <1>0, <2>1
  <2> QED BY <2>1, <2>2, SameRun, SameCopies
<1>5. ASSUME NEW t \in Tx, NEW d \in Judgement \union {"PENDING"}, Decide(p, t, d)
      PROVE  (CopiesOK /\ WorkerOK /\ RunOK /\ Promises)'
  <2> DEFINE review == [Reviewed(run, txs[p]) EXCEPT ![t] = d]
             r == [run EXCEPT !.review = review]
  <2>1. Reviewed(run, txs[p]) \in [Tx -> Decision] /\ d \in Decision
    BY <1>0, ReviewedTyped DEF Decision
  <2>2. review \in [Tx -> Decision]
    BY <2>1
  <2>3. \A u \in Tx : review[u] = "PAYROLL" =>
                     run.review[u] = "PAYROLL" \/ (u = t /\ d = "PAYROLL")
    <3>1. \A u \in Tx : Reviewed(run, txs[p])[u] = "PAYROLL" => run.review[u] = "PAYROLL"
      BY DEF Reviewed
    <3>2. \A u \in Tx : review[u] = IF u = t THEN d ELSE Reviewed(run, txs[p])[u]
      BY <2>1
    <3> QED BY <3>1, <3>2
  <2>4. saving' = [saving EXCEPT ![p] = SnapshotOf(r, txs[p])]
    BY <1>5 DEF Decide
  <2> HIDE DEF review
  <2>5. r.planned = run.planned /\ r.paid = run.paid /\ r.review = review
    BY <1>0 DEF Run
  <2> HIDE DEF r
  <2>6. judged \subseteq judged' /\ (d = "PAYROLL" => t \in judged')
    BY <1>5 DEF Decide
  <2>7. Having(r.review, "PAYROLL") \subseteq judged'
    BY <1>0, <2>3, <2>5, <2>6 DEF Having
  <2>8. UNCHANGED <<day, run, txs, confirming, worker, overtaken, stale, reset,
                    wasConfirmed, overdue>>
    BY <1>5 DEF Decide
  <2> QED BY <2>2, <2>4, <2>5, <2>6, <2>7, <2>8, CopyMade
<1> QED BY <1>1, <1>2, <1>3, <1>4, <1>5

LEMMA OtherKeeps ==
  ASSUME IInv,
         \/ WorkerStart \/ WorkerRead \/ WorkerAbort
         \/ ConfirmPaid \/ SaveConfirmation \/ NextDay
         \/ \E t \in Tx : ChangeState(t)
  PROVE  (CopiesOK /\ WorkerOK /\ RunOK /\ Promises)'
<1>0. /\ TypeOK /\ run \in Run /\ day \in Int /\ confirming \subseteq judged
      /\ worker \in WorkerRecord
  BY Numbers DEF IInv, TypeOK, RunOK, WorkerRecord
<1>1. CASE WorkerStart
  <2>1. worker'.pc # "write"
    BY <1>0, <1>1 DEF WorkerStart, Idle
  <2> QED BY <1>0, <1>1, <2>1, SameRun, SameCopies DEF WorkerStart
<1>2. CASE WorkerRead
  <2>1. /\ worker'.paid = run.paid
        /\ UNCHANGED <<day, pay, approved, run, txs, saving, confirming, ran, inputs,
                       overtaken, stale, reset, judged, wasConfirmed, overdue>>
    BY <1>0, <1>2 DEF WorkerRead, WorkerRecord
  <2>2. CopiesOK'
    <3>1. \A p \in Page : CopyOK(p)' <=> CopyOK(p)
      BY <2>1 DEF CopyOK, Current
    <3> QED BY <3>1 DEF IInv, CopiesOK
  <2>3. WorkerOK'
    BY <2>1 DEF WorkerOK
  <2> QED BY <1>0, <2>1, <2>2, <2>3, SameRun
<1>3. CASE WorkerAbort
  <2>1. /\ worker'.pc # "write" /\ overtaken' = overtaken \ {"worker"}
        /\ UNCHANGED <<day, pay, approved, run, txs, saving, confirming, ran, inputs,
                       stale, reset, judged, wasConfirmed, overdue>>
    BY <1>3 DEF WorkerAbort, Drop, Idle
  <2>2. CopiesOK'
    <3>1. ASSUME NEW p \in Page PROVE CopyOK(p)'
      <4>1. p \notin overtaken' => p \notin overtaken
        BY <2>1, Disjoint
      <4>2. Current(p)' <=> Current(p)
        BY <2>1 DEF Current
      <4>3. CopyOK(p)
        BY DEF IInv, CopiesOK
      <4> QED BY <2>1, <4>1, <4>2, <4>3 DEF CopyOK
    <3> QED BY <3>1 DEF CopiesOK
  <2>3. WorkerOK'
    BY <2>1 DEF WorkerOK
  <2> QED BY <1>0, <2>1, <2>2, <2>3, SameRun
<1>4. CASE ConfirmPaid
  <2>1. Having(SnapshotOf(run, approved).review, "PAYROLL") \subseteq judged
    BY <1>0, SnapshotFresh DEF IInv, RunOK, Run
  <2>2. confirming' \subseteq judged
    BY <1>4, <2>1 DEF ConfirmPaid, CanFinalize, FinalMatched
  <2> QED BY <1>0, <1>4, <2>2, SameRun, SameCopies DEF ConfirmPaid
<1>5. CASE SaveConfirmation
  <2> DEFINE doc == [run EXCEPT !.paid = "CONFIRMED", !.matched = confirming]
  <2>1. Put("admin", doc)
    BY <1>5 DEF SaveConfirmation
  <2>2. /\ doc \in Run /\ doc.paid = "CONFIRMED" /\ doc.review = run.review
        /\ doc.matched = confirming /\ doc.planned = run.planned
    BY <1>0, DocTyped DEF Run
  <2> HIDE DEF doc
  <2>3. CopiesOK' /\ WorkerOK'
    BY <1>5, <2>1, <2>2, Disjoint, PutKeeps DEF SaveConfirmation
  <2>4. run' = doc
    BY <1>0, <2>1, PutEffect
  <2>5. RunOK'
    <3>1. Having(run.review, "PAYROLL")' \subseteq judged' /\ Signs(run.review)'
      BY <1>5, <2>2, <2>4 DEF SaveConfirmation, IInv, RunOK, Having, Signs
    <3> QED BY <1>5, <2>2, <2>4, <3>1 DEF RunOK, SaveConfirmation, IInv
  <2>6. Promises'
    BY <1>0, <1>5, <2>2, <2>4 DEF Promises, ConfirmationKept, ConfirmedWasJudged,
       MissingReported, SaveConfirmation
  <2> QED BY <2>3, <2>5, <2>6
<1>6. CASE NextDay
  <2>1. day' \in Int /\ day' > day /\ overtaken' = overtaken \union Reader
    BY <1>6, ConstantsAssumption DEF NextDay
  <2>2. UNCHANGED <<pay, approved, run, txs, saving, confirming, worker, inputs, stale,
                    reset, judged, wasConfirmed, overdue>>
    BY <1>6 DEF NextDay
  <2>3. day' >= day
    BY <1>0, <2>1
  <2> QED BY <1>0, <2>1, <2>2, <2>3, SameRun, SameCopies
<1>7. ASSUME NEW t \in Tx, ChangeState(t)
      PROVE  (CopiesOK /\ WorkerOK /\ RunOK /\ Promises)'
  BY <1>0, <1>7, SameRun, SameCopies DEF ChangeState
<1> QED BY <1>1, <1>2, <1>3, <1>4, <1>5, <1>6, <1>7

LEMMA NextKeeps == ASSUME IInv, [Next]_vars PROVE IInv'
<1>1. TypeOK' /\ TypeOK
  BY NextTyped DEF IInv
<1>2. CASE Next
  <2>1. (CopiesOK /\ WorkerOK /\ RunOK /\ Promises)'
    BY <1>2, NextCases, WorkerUpsertKeeps, WorkerWriteKeeps, SaveReviewKeeps,
       ScheduleKeeps, PageKeeps, OtherKeeps
  <2> QED BY <1>1, <2>1 DEF IInv
<1>3. CASE UNCHANGED vars
  <2>1. day \in Int
    BY <1>1, Numbers
  <2>2. UNCHANGED <<day, run, saving, judged, overtaken, txs, worker, stale, reset,
                    wasConfirmed, overdue, confirming>>
    BY <1>3 DEF vars
  <2>3. confirming' \subseteq judged' /\ day' >= day /\ day' \in Int
    BY <2>1, <2>2 DEF IInv, RunOK
  <2>4. (CopiesOK /\ WorkerOK /\ RunOK /\ Promises)'
    BY <2>2, <2>3, SameRun, SameCopies
  <2> QED BY <1>1, <2>4 DEF IInv
<1> QED BY <1>2, <1>3

LEMMA InitKeeps == ASSUME Init PROVE IInv
<1>1. TypeOK
  BY InitTyped
<1>2. /\ run.paid = "UNKNOWN" /\ \A t \in Tx : run.review[t] = "none"
  BY NewRunTyped DEF Init
<1>3. CopiesOK
  BY DEF Init, CopiesOK, CopyOK
<1>4. WorkerOK
  BY DEF Init, WorkerOK, Idle
<1>5. RunOK
  BY <1>2 DEF Init, RunOK, Having, Signs
<1>6. Promises
  BY <1>2 DEF Init, Promises, ConfirmationKept, ConfirmedWasJudged, MissingReported
<1> QED BY <1>1, <1>3, <1>4, <1>5, <1>6 DEF IInv

(* Every copy that nobody has overtaken says what IInv says of the run. *)
THEOREM PayrollCorrect == Spec => []IInv
<1>1. Init => IInv
  BY InitKeeps
<1>2. IInv /\ [Next]_vars => IInv'
  BY NextKeeps
<1> QED BY <1>1, <1>2, PTL DEF Spec

(* A confirmation is undone only by a writer whose copy was overtaken, or by
   the reset of a failed update. *)
THEOREM ConfirmationCorrect == Spec => []ConfirmationKept
<1>1. IInv => ConfirmationKept
  BY DEF IInv, Promises
<1> QED BY <1>1, PayrollCorrect, PTL

(* What was confirmed had been judged to be payroll. *)
THEOREM JudgedCorrect == Spec => []ConfirmedWasJudged
<1>1. IInv => ConfirmedWasJudged
  BY DEF IInv, Promises
<1> QED BY <1>1, PayrollCorrect, PTL

(* Once the worker has seen the pay day pass, the run is not UNKNOWN. *)
THEOREM MissingCorrect == Spec => []MissingReported
<1>1. IInv => MissingReported
  BY DEF IInv, Promises
<1> QED BY <1>1, PayrollCorrect, PTL

-----------------------------------------------------------------------------
(* A judgement is dropped only for a reason. *)

Reason(t) ==
  \/ stale' \/ reset'
  \/ \E p \in Page :
       /\ saving[p] # NoSave /\ saving'[p] = NoSave
       /\ ~InReviewWindow(TxDay[t], run.planned) \/ t \notin txs[p]

LEMMA StepKeepsJudgements ==
  ASSUME IInv, [Next]_vars, NEW t \in Tx,
         run.review[t] \in Judgement, run'.review[t] = "none"
  PROVE  Reason(t)
<1>0. /\ TypeOK /\ run \in Run /\ "none" \notin Judgement
  BY DEF IInv, TypeOK, Judgement
<1>1. CASE run' = run
  BY <1>0, <1>1
<1>2. CASE WorkerUpsert
  <2>1. run' = [run EXCEPT !.planned = worker.planned]
    BY <1>2 DEF WorkerUpsert, Put
  <2> QED BY <1>0, <2>1 DEF Run
<1>3. CASE WorkerWrite
  <2>1. \/ run' = run
        \/ run' = [run EXCEPT !.paid = NextPaid, !.matched = worker.next]
    BY <1>3 DEF WorkerWrite, Put, Drop
  <2> QED BY <1>0, <2>1 DEF Run
<1>4. ASSUME NEW p \in Page, SaveReview(p)
      PROVE  Reason(t)
  <2>1. /\ run' = [run EXCEPT !.review = saving[p].review, !.status = saving[p].status,
                              !.paid = saving[p].paid]
        /\ stale' = (stale \/ p \in overtaken)
        /\ saving[p] # NoSave /\ saving'[p] = NoSave
    BY <1>0, <1>4 DEF SaveReview, Put, TypeOK
  <2>2. saving[p].review[t] = "none"
    BY <1>0, <2>1 DEF Run
  <2>3. p \notin overtaken => Current(p)
    BY <2>1 DEF IInv, CopiesOK, CopyOK
  <2> QED BY <2>1, <2>2, <2>3 DEF Current, Reason
<1>5. ASSUME NEW d \in PayDay, ScheduleUpdate(d)
      PROVE  Reason(t)
  <2>1. run' = [run EXCEPT !.planned = Planned(d)]
    BY <1>5 DEF ScheduleUpdate, Put
  <2> QED BY <1>0, <2>1 DEF Run
<1>6. ASSUME NEW d \in PayDay, ScheduleReset(d)
      PROVE  Reason(t)
  BY <1>6 DEF ScheduleReset, Reason
<1>7. CASE SaveConfirmation
  <2>1. run' = [run EXCEPT !.paid = "CONFIRMED", !.matched = confirming]
    BY <1>7 DEF SaveConfirmation, Put
  <2> QED BY <1>0, <2>1 DEF Run
<1>8. CASE Next
  BY <1>1, <1>2, <1>3, <1>4, <1>5, <1>6, <1>7, <1>8, NextCases
     DEF WorkerStart, WorkerRead, WorkerAbort, Drop, AutoSave, Open, Close, Refresh,
         Decide, ScheduleOnly, ConfirmPaid, ChangeState, NextDay
<1> QED BY <1>1, <1>8 DEF vars

(* A judgement disappears only by the save of a page, if the payment is out of
   the window or unknown to that page, or a write was stale or a reset. *)
THEOREM JudgementsCorrect == Spec => JudgementsKept
<1>1. ASSUME IInv, [Next]_vars
      PROVE  [\A t \in Tx : run.review[t] \in Judgement /\ run'.review[t] = "none" =>
                \/ stale' \/ reset'
                \/ \E p \in Page :
                     /\ saving[p] # NoSave /\ saving'[p] = NoSave
                     /\ ~InReviewWindow(TxDay[t], run.planned) \/ t \notin txs[p]]_vars
  BY <1>1, StepKeepsJudgements DEF Reason
<1> QED BY <1>1, PayrollCorrect, PTL DEF JudgementsKept, Spec
=============================================================================
