----------------------------- MODULE Sheets_proofs -----------------------------
(* Proofs about the two components that keep a project's sheets: WeekSheet, for
   any weeks, values, saves and clients, and then ExpenseSheet, for any lines,
   keys and statements and any bounds. *)
EXTENDS WeekSheet, ExpenseSheet, Integers, FiniteSetTheorems, SequenceTheorems,
        TLAPS

(* A client that begins, reads or gives up changes its operation only. *)
ClientStep == \E c \in Client, o \in Op : Begin(c, o) /\ inputs' \in 0 .. MaxInput

(* The steps of Next, grouped by what they may write. *)
LEMMA NextCases ==
  ASSUME Next
  PROVE  \/ \E w \in Week, v \in Value : Edit(w, v)
         \/ \E s \in Sync : Store(s)
         \/ \E s \in Sync : MarkPending(s)
         \/ \E s \in Sync : PendingFails(s)
         \/ \E s \in Sync : Finish(s)
         \/ \E s \in Sync, w \in Week : Look(s, w) \/ PutFails(s, w)
         \/ \E s \in Sync, w \in Week : Put(s, w)
         \/ \E new \in [Week -> Value] : Rewrite(new)
         \/ Receive
         \/ Reload
         \/ \E c \in Client, w \in Week :
              Submit(c, w) \/ OpenDialog(c, w) \/ Flag(c, w)
         \/ \E c \in Client, w \in Week, mode \in Mode, v \in Value, mark \in Mark :
              Type(c, w, mode, v, mark)
         \/ \E c \in Client, v \in Value : Close(c, v)
         \/ \E c \in Client : ClientLook(c) \/ Abandon(c)
         \/ \E c \in Client : ClientPut(c)
         \/ \E c \in Client : ClientStatus(c)
         \/ \E c \in Client : ClientMark(c)
         \/ \E c \in Client : ClientCreate(c)
         \/ \E c \in Client : ClientFlag(c)
BY DEF Next

-----------------------------------------------------------------------------
(* Types *)

LEMMA IdleTyped == IdleOp \in Op /\ IdleJob \in Job
<1>1. (CHOOSE w \in Week : TRUE) \in Week
  BY ConstantsAssumption
<1>2. IdleOp \in Op
  BY <1>1, ConstantsAssumption DEF IdleOp, Op, Mode, Mark
<1>3. IdleJob \in Job
  BY ConstantsAssumption DEF IdleJob, Job, Known
<1> QED BY <1>2, <1>3

LEMMA SheetIsThere == \A d \in Sheet : d # NoSheet
<1> SUFFICES ASSUME NEW d \in Sheet PROVE d # NoSheet
  OBVIOUS
<1>1. "actual" \in DOMAIN d
  BY DEF Sheet
<1>2. "actual" \notin DOMAIN NoSheet
  BY DEF NoSheet
<1> QED BY <1>1, <1>2

(* The document after an upsert. *)
LEMMA UpsertShape ==
  ASSUME TypeOK, NEW w \in Week, NEW mode \in Mode, NEW v \in Value, NEW known
  PROVE  /\ Upserted(w, mode, v, known) \in Sheet
         /\ mode = "actual" => Upserted(w, mode, v, known).actual = v
         /\ (doc[w] # NoSheet /\ known = "present") =>
              /\ Upserted(w, mode, v, known).history = doc[w].history
              /\ Upserted(w, mode, v, known).submitted = doc[w].submitted
              /\ Upserted(w, mode, v, known).closed = doc[w].closed
              /\ mode = "actual" =>
                   Upserted(w, mode, v, known).projection = doc[w].projection
              /\ mode = "projection" =>
                   Upserted(w, mode, v, known).actual = doc[w].actual
<1>1. Blank \in Sheet
  BY ConstantsAssumption DEF Blank, Sheet
<1>2. doc[w] # NoSheet => doc[w] \in Sheet
  BY DEF TypeOK
<1>3. ASSUME NEW s \in Sheet
      PROVE  /\ WithAmounts(s, mode, v) \in Sheet
             /\ mode = "actual" => WithAmounts(s, mode, v).actual = v
             /\ WithAmounts(s, mode, v).history = s.history
             /\ WithAmounts(s, mode, v).submitted = s.submitted
             /\ WithAmounts(s, mode, v).closed = s.closed
             /\ mode = "actual" => WithAmounts(s, mode, v).projection = s.projection
             /\ mode = "projection" => WithAmounts(s, mode, v).actual = s.actual
  <2>1. CASE mode = "actual"
    BY <2>1 DEF WithAmounts, Sheet
  <2>2. CASE mode = "projection"
    BY <2>2 DEF WithAmounts, Sheet
  <2> QED BY <2>1, <2>2 DEF Mode
<1>4. CASE doc[w] # NoSheet /\ known = "present"
  <2>1. Upserted(w, mode, v, known) = WithAmounts(doc[w], mode, v)
    BY <1>4 DEF Upserted
  <2> QED BY <1>2, <1>3, <1>4, <2>1
<1>5. CASE ~(doc[w] # NoSheet /\ known = "present")
  <2>1. Upserted(w, mode, v, known) = WithAmounts(Blank, mode, v)
    BY <1>5 DEF Upserted
  <2> QED BY <1>1, <1>3, <1>5, <2>1
<1> QED BY <1>4, <1>5

LEMMA MarkShape ==
  ASSUME NEW s \in Sheet, NEW mark
  PROVE  /\ Marked(s, mark) \in Sheet
         /\ Marked(s, mark).actual = s.actual
         /\ Marked(s, mark).projection = s.projection
         /\ Marked(s, mark).history = s.history
         /\ s.submitted => Marked(s, mark).submitted
         /\ s.closed => Marked(s, mark).closed
<1>1. CASE mark = "closed"
  BY <1>1 DEF Marked, Sheet
<1>2. CASE mark # "closed"
  BY <1>2 DEF Marked, Sheet
<1> QED BY <1>1, <1>2

LEMMA FlagShape ==
  ASSUME NEW s \in Sheet, NEW h \in SUBSET Nat
  PROVE  /\ Flagged(s, h) \in Sheet
         /\ Flagged(s, h).actual = s.actual
         /\ Flagged(s, h).projection = s.projection
         /\ Flagged(s, h).submitted = s.submitted
         /\ Flagged(s, h).closed = s.closed
         /\ Flagged(s, h).history = h
BY DEF Flagged, Sheet

LEMMA ReportShape ==
  ASSUME TypeOK, NEW weeks \in SUBSET Week, NEW state \in [Week -> SyncState]
  PROVE  /\ Reported(weeks, state) \in [Week -> Status]
         /\ \A w \in Week :
              Reported(weeks, state)[w].sync =
                IF w \in weeks THEN state[w] ELSE status[w].sync
<1>1. ASSUME NEW w \in Week
      PROVE  /\ Reported(weeks, state)[w] \in Status
             /\ Reported(weeks, state)[w].sync =
                  IF w \in weeks THEN state[w] ELSE status[w].sync
  BY DEF TypeOK, Reported, Status
<1>2. DOMAIN Reported(weeks, state) = Week
  BY DEF Reported
<1> QED BY <1>1, <1>2 DEF Reported

(* What a save of the page is after a step of its own. *)
LEMMA NotedShape ==
  ASSUME NEW j \in Job, NEW w \in Week, NEW k \in Known
  PROVE  /\ Noted(j, w, k) \in Job
         /\ Noted(j, w, k).pc = j.pc
         /\ Noted(j, w, k).rows = j.rows
         /\ Noted(j, w, k).prev = j.prev
         /\ \A v \in Week : Noted(j, w, k).known[v] = IF v = w THEN k ELSE j.known[v]
BY DEF Noted, Job

(* Every step that begins with Begin is a ClientStep. *)
LEMMA ClientSteps ==
  ASSUME TypeOK,
         \/ \E c \in Client, w \in Week :
              Submit(c, w) \/ OpenDialog(c, w) \/ Flag(c, w)
         \/ \E c \in Client, w \in Week, mode \in Mode, v \in Value, mark \in Mark :
              Type(c, w, mode, v, mark)
         \/ \E c \in Client, v \in Value : Close(c, v)
         \/ \E c \in Client : ClientLook(c) \/ Abandon(c)
  PROVE  ClientStep
<1> USE IdleTyped
<1>0. inputs < MaxInput => inputs + 1 \in 0 .. MaxInput /\ inputs \in Nat
  BY ConstantsAssumption DEF TypeOK
<1>1. ASSUME NEW c \in Client, NEW w \in Week, Submit(c, w)
      PROVE  ClientStep
  <2>1. [IdleOp EXCEPT !.pc = "mark", !.week = w, !.mark = "submitted"] \in Op
    BY DEF Op, Mark
  <2> QED BY <1>0, <1>1, <2>1 DEF Submit, ClientStep
<1>2. ASSUME NEW c \in Client, NEW w \in Week, OpenDialog(c, w)
      PROVE  ClientStep
  <2>1. [IdleOp EXCEPT !.pc = "dialog", !.week = w] \in Op
    BY DEF Op
  <2> QED BY <1>0, <1>2, <2>1 DEF OpenDialog, ClientStep
<1>3. ASSUME NEW c \in Client, NEW w \in Week, Flag(c, w)
      PROVE  ClientStep
  <2>1. doc[w].history \union {inputs} \in SUBSET Nat
    BY <1>0, <1>3 DEF Flag, TypeOK, Sheet
  <2>2. [IdleOp EXCEPT !.pc = "flag", !.week = w,
                       !.history = doc[w].history \union {inputs}] \in Op
    BY <2>1 DEF Op
  <2> QED BY <1>0, <1>3, <2>2 DEF Flag, ClientStep
<1>4. ASSUME NEW c \in Client, NEW w \in Week, NEW mode \in Mode, NEW v \in Value,
             NEW mark \in Mark, Type(c, w, mode, v, mark)
      PROVE  ClientStep
  <2>1. [IdleOp EXCEPT !.pc = "look", !.week = w, !.mode = mode,
                       !.value = v, !.mark = mark] \in Op
    BY DEF Op
  <2> QED BY <1>0, <1>4, <2>1 DEF Type, ClientStep
<1>5. ASSUME NEW c \in Client, NEW v \in Value, Close(c, v)
      PROVE  ClientStep
  <2>1. op[c] \in Op /\ inputs' \in 0 .. MaxInput
    BY <1>5 DEF TypeOK, Close
  <2>2. [op[c] EXCEPT !.pc = "mark", !.mark = "closed"] \in Op
    BY <2>1 DEF Op, Mark
  <2>3. [op[c] EXCEPT !.pc = "look", !.mode = "projection",
                      !.value = v, !.mark = "closed"] \in Op
    BY <2>1 DEF Op, Mark, Mode
  <2> QED BY <1>5, <2>1, <2>2, <2>3 DEF Close, ClientStep
<1>6. ASSUME NEW c \in Client, ClientLook(c)
      PROVE  ClientStep
  <2>1. op[c] \in Op /\ inputs' \in 0 .. MaxInput
    BY <1>6 DEF TypeOK, ClientLook
  <2>2. ASSUME NEW k \in Found(op[c].week)
        PROVE  [op[c] EXCEPT !.pc = k] \in Op
    <3>1. k \in {"absent", "present"}
      BY DEF Found
    <3> QED BY <2>1, <3>1 DEF Op
  <2> QED BY <1>6, <2>1, <2>2 DEF ClientLook, ClientStep
<1>7. ASSUME NEW c \in Client, Abandon(c)
      PROVE  ClientStep
  BY <1>7 DEF Abandon, ClientStep, TypeOK
<1> QED BY <1>1, <1>2, <1>3, <1>4, <1>5, <1>6, <1>7

LEMMA BeginTyped ==
  ASSUME TypeOK, ClientStep
  PROVE  TypeOK'
<1>1. PICK c \in Client, o \in Op : Begin(c, o) /\ inputs' \in 0 .. MaxInput
  BY DEF ClientStep
<1>2. op' \in [Client -> Op]
  BY <1>1 DEF Begin, TypeOK
<1>3. UNCHANGED <<doc, status, rows, seen, typed, dirty, job, torn, rewritten>>
  BY <1>1 DEF Begin
<1> QED BY <1>1, <1>2, <1>3 DEF TypeOK

LEMMA InitTyped == ASSUME Init PROVE TypeOK
<1>1. /\ job \in [Sync -> Job]
      /\ op \in [Client -> Op]
  BY IdleTyped DEF Init
<1>2. /\ doc \in [Week -> Sheet \union {NoSheet}]
      /\ status \in [Week -> Status]
  BY DEF Init, Status, SyncState
<1>3. /\ rows \in [Week -> Value]
      /\ seen \in [Week -> Value]
      /\ typed \in [Week -> Value]
  BY ConstantsAssumption DEF Init
<1>4. inputs \in 0 .. MaxInput
  <2>1. inputs = 0 /\ MaxInput \in Nat
    BY ConstantsAssumption DEF Init
  <2> QED BY <2>1
<1>5. /\ dirty \in BOOLEAN
      /\ torn \in [Week -> BOOLEAN]
      /\ rewritten \in [Week -> BOOLEAN]
  BY DEF Init
<1> QED BY <1>1, <1>2, <1>3, <1>4, <1>5 DEF TypeOK

LEMMA OutcomeTyped ==
  ASSUME NEW s, NEW w PROVE Outcome(s, w) \in SyncState
BY DEF Outcome, SyncState

(* Steps of the page of the expense rows. *)
LEMMA PageTyped ==
  ASSUME TypeOK,
         \/ \E w \in Week, v \in Value : Edit(w, v)
         \/ \E s \in Sync : Store(s)
         \/ \E s \in Sync : MarkPending(s)
         \/ \E s \in Sync : PendingFails(s)
         \/ \E s \in Sync : Finish(s)
         \/ \E s \in Sync, w \in Week : Look(s, w) \/ PutFails(s, w)
         \/ \E s \in Sync, w \in Week : Put(s, w)
         \/ \E new \in [Week -> Value] : Rewrite(new)
         \/ Receive
         \/ Reload
  PROVE  TypeOK'
<1>1. ASSUME NEW w \in Week, NEW v \in Value, Edit(w, v)
      PROVE  TypeOK'
  BY <1>1, ConstantsAssumption DEF Edit, TypeOK
<1>2. ASSUME NEW s \in Sync, Store(s)
      PROVE  TypeOK'
  <2>1. [pc |-> "stored", rows |-> typed, prev |-> seen,
         known |-> [w \in Week |-> "unread"]] \in Job
    BY DEF TypeOK, Job, Known
  <2>2. job' \in [Sync -> Job]
    BY <1>2, <2>1 DEF Store, TypeOK
  <2>3. torn' \in [Week -> BOOLEAN]
    BY <1>2 DEF Store, TypeOK
  <2>4. rewritten' \in [Week -> BOOLEAN]
    BY <1>2 DEF Store, TypeOK
  <2> QED BY <1>2, <2>2, <2>3, <2>4 DEF Store, TypeOK
<1>3. ASSUME NEW s \in Sync, MarkPending(s)
      PROVE  TypeOK'
  <2>1. status' \in [Week -> Status]
    <3>1. [w \in Week |-> "pending"] \in [Week -> SyncState]
      BY DEF SyncState
    <3>2. Weeks(s) \in SUBSET Week
      BY DEF Weeks, Payload
    <3> QED BY <1>3, <3>1, <3>2, ReportShape DEF MarkPending
  <2>2. job' \in [Sync -> Job]
    <3>1. [job[s] EXCEPT !.pc = "syncing"] \in Job
      BY DEF TypeOK, Job
    <3> QED BY <1>3, <3>1 DEF MarkPending, TypeOK
  <2> QED BY <1>3, <2>1, <2>2 DEF MarkPending, TypeOK
<1>4. ASSUME NEW s \in Sync, PendingFails(s)
      PROVE  TypeOK'
  <2>1. status' \in [Week -> Status]
    <3>1. [w \in Week |-> "pending"] \in [Week -> SyncState]
      BY DEF SyncState
    <3>2. Weeks(s) \in SUBSET Week
      BY DEF Weeks, Payload
    <3>3. PICK done \in SUBSET Weeks(s) :
            status' = Reported(done, [w \in Week |-> "pending"])
      BY <1>4 DEF PendingFails
    <3> QED BY <3>1, <3>2, <3>3, ReportShape
  <2>2. job' \in [Sync -> Job]
    BY <1>4, IdleTyped DEF PendingFails, TypeOK
  <2>3. torn' \in [Week -> BOOLEAN]
    <3>1. \A w \in Week : (torn[w] \/ w \in Weeks(s)) \in BOOLEAN
      BY DEF TypeOK
    <3> QED BY <1>4, <3>1 DEF PendingFails
  <2> QED BY <1>4, <2>1, <2>2, <2>3 DEF PendingFails, TypeOK
<1>5. ASSUME NEW s \in Sync, Finish(s)
      PROVE  TypeOK'
  <2>1. status' \in [Week -> Status]
    <3>1. [w \in Week |-> Outcome(s, w)] \in [Week -> SyncState]
      BY OutcomeTyped
    <3>2. Weeks(s) \in SUBSET Week
      BY DEF Weeks, Payload
    <3>3. PICK done \in SUBSET Weeks(s) :
            status' = Reported(done, [w \in Week |-> Outcome(s, w)])
      BY <1>5 DEF Finish
    <3> QED BY <3>1, <3>2, <3>3, ReportShape
  <2>2. job' \in [Sync -> Job]
    BY <1>5, IdleTyped DEF Finish, TypeOK
  <2> QED BY <1>5, <2>1, <2>2 DEF Finish, TypeOK
<1>6. ASSUME NEW s \in Sync, NEW w \in Week, Look(s, w) \/ PutFails(s, w)
      PROVE  TypeOK'
  <2>1. \A k \in Found(w) : k \in Known
    BY DEF Found, Known
  <2>2. PICK k \in Known : job' = [job EXCEPT ![s] = Noted(@, w, k)]
    BY <1>6, <2>1 DEF Look, PutFails, Known
  <2>3. Noted(job[s], w, k) \in Job
    BY NotedShape DEF TypeOK
  <2>4. job' \in [Sync -> Job]
    BY <2>2, <2>3 DEF TypeOK
  <2> QED BY <1>6, <2>4 DEF Look, PutFails, TypeOK
<1>7. ASSUME NEW s \in Sync, NEW w \in Week, Put(s, w)
      PROVE  TypeOK'
  <2>1. job[s].rows[w] \in Value
    BY DEF TypeOK, Job
  <2>2. Upserted(w, "actual", job[s].rows[w], job[s].known[w]) \in Sheet
    BY <2>1, UpsertShape DEF Mode
  <2>3. doc' \in [Week -> Sheet \union {NoSheet}]
    BY <1>7, <2>2 DEF Put, TypeOK
  <2>4. Noted(job[s], w, "written") \in Job
    BY NotedShape DEF TypeOK, Known
  <2>5. job' \in [Sync -> Job]
    BY <1>7, <2>4 DEF Put, TypeOK
  <2> QED BY <1>7, <2>3, <2>5 DEF Put, TypeOK
<1>8. ASSUME Reload
      PROVE  TypeOK'
  <2>1. job' \in [Sync -> Job]
    BY <1>8, IdleTyped DEF Reload
  <2>2. torn' \in [Week -> BOOLEAN]
    <3>1. \A w \in Week : (torn[w] \/ \E s \in Sync : job[s].pc = "stored" /\ w \in Weeks(s))
                            \in BOOLEAN
      BY DEF TypeOK
    <3> QED BY <1>8, <3>1 DEF Reload
  <2> QED BY <1>8, <2>1, <2>2 DEF Reload, TypeOK
<1>9. ASSUME NEW new \in [Week -> Value], Rewrite(new)
      PROVE  TypeOK'
  <2>1. rewritten' \in [Week -> BOOLEAN]
    BY <1>9 DEF Rewrite, TypeOK
  <2> QED BY <1>9, <2>1, ConstantsAssumption DEF Rewrite, TypeOK
<1>10. CASE Receive
  BY <1>10 DEF Receive, TypeOK
<1> QED BY <1>1, <1>2, <1>3, <1>4, <1>5, <1>6, <1>7, <1>8, <1>9, <1>10

(* Steps of clients that write. *)
LEMMA ClientTyped ==
  ASSUME TypeOK, NEW c \in Client,
         \/ ClientPut(c)
         \/ ClientStatus(c)
         \/ ClientMark(c)
         \/ ClientCreate(c)
         \/ ClientFlag(c)
  PROVE  TypeOK'
<1> DEFINE o == op[c]
<1>0. /\ o \in Op
      /\ o.week \in Week
      /\ o.mode \in Mode
      /\ o.value \in Value
      /\ o.history \in SUBSET Nat
  BY DEF TypeOK, Op
<1>1. CASE ClientPut(c)
  <2>1. Upserted(o.week, o.mode, o.value, o.pc) \in Sheet
    BY <1>0, UpsertShape
  <2>2. doc' \in [Week -> Sheet \union {NoSheet}]
    BY <1>1, <2>1 DEF ClientPut, TypeOK
  <2>3. [o EXCEPT !.pc = "status"] \in Op
    BY <1>0 DEF Op
  <2>4. op' \in [Client -> Op]
    BY <1>1, <2>3 DEF ClientPut, TypeOK
  <2>5. torn' \in [Week -> BOOLEAN]
    BY <1>0, <1>1 DEF ClientPut, TypeOK
  <2> QED BY <1>1, <2>2, <2>4, <2>5 DEF ClientPut, TypeOK
<1>2. CASE ClientStatus(c)
  <2>1. /\ [status[o.week] EXCEPT !.spent = TRUE] \in Status
        /\ [status[o.week] EXCEPT !.planned = TRUE] \in Status
    BY <1>0 DEF TypeOK, Status
  <2>2. status' \in [Week -> Status]
    BY <1>2, <2>1 DEF ClientStatus, TypeOK
  <2>3. [o EXCEPT !.pc = "mark"] \in Op
    BY <1>0 DEF Op
  <2>4. op' \in [Client -> Op]
    BY <1>2, <2>3, IdleTyped DEF ClientStatus, TypeOK
  <2> QED BY <1>2, <2>2, <2>4 DEF ClientStatus, TypeOK
<1>3. CASE ClientMark(c)
  <2>1. doc' \in [Week -> Sheet \union {NoSheet}]
    <3>1. doc[o.week] # NoSheet => Marked(doc[o.week], o.mark) \in Sheet
      BY <1>0, MarkShape DEF TypeOK
    <3> QED BY <1>3, <3>1 DEF ClientMark, TypeOK
  <2>2. [o EXCEPT !.pc = "create"] \in Op
    BY <1>0 DEF Op
  <2>3. op' \in [Client -> Op]
    BY <1>3, <2>2, IdleTyped DEF ClientMark, TypeOK
  <2> QED BY <1>3, <2>1, <2>3 DEF ClientMark, TypeOK
<1>4. CASE ClientCreate(c)
  <2>1. Blank \in Sheet
    BY ConstantsAssumption DEF Blank, Sheet
  <2>2. Marked(Blank, o.mark) \in Sheet
    BY <2>1, MarkShape
  <2>3. doc' \in [Week -> Sheet \union {NoSheet}]
    BY <1>4, <2>2 DEF ClientCreate, TypeOK
  <2>4. op' \in [Client -> Op]
    BY <1>4, IdleTyped DEF ClientCreate, TypeOK
  <2>5. torn' \in [Week -> BOOLEAN]
    BY <1>4 DEF ClientCreate, TypeOK
  <2> QED BY <1>4, <2>3, <2>4, <2>5 DEF ClientCreate, TypeOK
<1>5. CASE ClientFlag(c)
  <2>1. Flagged(doc[o.week], o.history) \in Sheet
    BY <1>0, <1>5, FlagShape DEF ClientFlag, TypeOK
  <2>2. doc' \in [Week -> Sheet \union {NoSheet}]
    BY <1>5, <2>1 DEF ClientFlag, TypeOK
  <2>3. op' \in [Client -> Op]
    BY <1>5, IdleTyped DEF ClientFlag, TypeOK
  <2> QED BY <1>5, <2>2, <2>3 DEF ClientFlag, TypeOK
<1> QED BY <1>1, <1>2, <1>3, <1>4, <1>5

LEMMA NextTyped == ASSUME TypeOK, [Next]_vars PROVE TypeOK'
<1>1. CASE Next
  BY <1>1, NextCases, PageTyped, ClientSteps, BeginTyped, ClientTyped
<1>2. CASE UNCHANGED vars
  BY <1>2 DEF vars, TypeOK
<1> QED BY <1>1, <1>2

(* The variables of the weekly sheets keep their types. *)
THEOREM WeekTyped == Spec => []TypeOK
<1>1. Init => TypeOK
  BY InitTyped
<1>2. TypeOK /\ [Next]_vars => TypeOK'
  BY NextTyped
<1> QED BY <1>1, <1>2, PTL DEF Spec

-----------------------------------------------------------------------------
(* Synced weeks *)

Shows(w) == doc[w] # NoSheet /\ doc[w].actual = rows[w]

(* A save has looked at the weeks it writes and at no other. *)
LooksAtItsWeeks ==
  \A s \in Sync, w \in Week :
    job[s].known[w] # "unread" => job[s].pc = "syncing" /\ w \in Syncable(s)

Alone(s, w) == \A t \in Sync : t # s /\ job[t].pc # "idle" => w \notin Weeks(t)

(* The page knows the stored rows that others have not changed. *)
RowsKnown == \A w \in Week : seen[w] = rows[w] \/ rewritten[w]

Whole(w) == ~torn[w] /\ ~rewritten[w]

(* A week that is whole is in the hands of one save at most, whose rows are the
   stored ones; until that save reports its outcome the week is pending. *)
LoneSaves ==
  \A s \in Sync, w \in Week :
    job[s].pc # "idle" /\ w \in Weeks(s) /\ Whole(w) =>
      /\ job[s].rows[w] = rows[w]
      /\ Alone(s, w)
      /\ job[s].pc = "syncing" => status[w].sync = "pending"
      /\ job[s].known[w] = "written" => Shows(w)

IInv == TypeOK /\ RowsKnown /\ LooksAtItsWeeks /\ LoneSaves /\ SyncedMatches

LEMMA RowsKnownKeeps == ASSUME TypeOK, RowsKnown, [Next]_vars PROVE RowsKnown'
<1>1. ASSUME NEW s \in Sync, Store(s) PROVE RowsKnown'
  BY <1>1 DEF Store, RowsKnown
<1>2. ASSUME NEW new \in [Week -> Value], Rewrite(new) PROVE RowsKnown'
  BY <1>2 DEF Rewrite, RowsKnown
<1>3. CASE Receive \/ Reload
  BY <1>3 DEF Receive, Reload, RowsKnown
<1>4. ASSUME UNCHANGED <<rows, seen, rewritten>> PROVE RowsKnown'
  BY <1>4 DEF RowsKnown
<1>5. ASSUME ClientStep PROVE RowsKnown'
  BY <1>4, <1>5 DEF ClientStep, Begin
<1>6. CASE UNCHANGED vars
  BY <1>4, <1>6 DEF vars
<1>7. ASSUME \/ \E w \in Week, v \in Value : Edit(w, v)
             \/ \E s \in Sync : MarkPending(s) \/ PendingFails(s) \/ Finish(s)
             \/ \E s \in Sync, w \in Week : Look(s, w) \/ PutFails(s, w) \/ Put(s, w)
      PROVE  RowsKnown'
  BY <1>4, <1>7 DEF Edit, MarkPending, PendingFails, Finish, Look, PutFails, Put
<1>8. ASSUME \E c \in Client : \/ ClientPut(c) \/ ClientStatus(c) \/ ClientMark(c)
                               \/ ClientCreate(c) \/ ClientFlag(c)
      PROVE  RowsKnown'
  BY <1>4, <1>8 DEF ClientPut, ClientStatus, ClientMark, ClientCreate, ClientFlag
<1> QED BY <1>1, <1>2, <1>3, <1>5, <1>6, <1>7, <1>8, NextCases, ClientSteps

(* Steps that are no steps of a save. *)
LEMMA FrameKeeps ==
  ASSUME IInv, job' = job,
         \A w \in Week : rows'[w] = rows[w] \/ rewritten'[w],
         \A w \in Week : rewritten[w] => rewritten'[w],
         \A w \in Week : torn[w] => torn'[w],
         \A w \in Week : status'[w].sync = status[w].sync,
         \A w \in Week :
           \/ torn'[w]
           \/ doc[w] # NoSheet =>
                doc'[w] # NoSheet /\ doc'[w].actual = doc[w].actual
  PROVE  (LooksAtItsWeeks /\ LoneSaves /\ SyncedMatches)'
<1>1. LooksAtItsWeeks'
  BY DEF IInv, LooksAtItsWeeks, Syncable, Blocked, Weeks
<1>2. \A s \in Sync : Weeks(s)' = Weeks(s)
  BY DEF Weeks
<1>3. \A w \in Week : Whole(w)' => Whole(w) /\ rows'[w] = rows[w] /\ (Shows(w) => Shows(w)')
  BY DEF Shows, Whole
<1>4. LoneSaves'
  BY <1>2, <1>3 DEF IInv, LoneSaves, Alone
<1>5. SyncedMatches'
  BY <1>2, <1>3 DEF IInv, SyncedMatches, Shows, Whole
<1> QED BY <1>1, <1>4, <1>5

LEMMA StoreKeeps ==
  ASSUME IInv, NEW s \in Sync, Store(s)
  PROVE  (LooksAtItsWeeks /\ LoneSaves /\ SyncedMatches)'
<1> DEFINE P == Payload(typed, seen)
<1>1. /\ job'[s].pc = "stored"
      /\ job'[s].rows = typed
      /\ job'[s].prev = seen
      /\ \A w \in Week : job'[s].known[w] = "unread"
      /\ \A t \in Sync : t # s => job'[t] = job[t]
      /\ rows' = typed /\ doc' = doc /\ status' = status
  BY DEF Store, IInv, TypeOK
<1>2. Weeks(s)' = P
  BY <1>1 DEF Weeks
<1>3. \A t \in Sync : t # s => Weeks(t)' = Weeks(t)
  BY <1>1 DEF Weeks
<1>4. \A t \in Sync : t # s /\ job[t].pc # "idle" => job[t].pc = "syncing"
  BY DEF Store, Storing, IInv, TypeOK, Job
<1>5. \A w \in Week \ P : rewritten[w] \/ typed[w] = rows[w]
  BY DEF Payload, IInv, RowsKnown
<1>6. /\ \A w \in P : torn'[w] <=>
            \E t \in Sync : job[t].pc = "syncing" /\ w \in Weeks(t)
      /\ \A w \in Week \ P : torn'[w] <=> torn[w]
      /\ \A w \in Week \ P : rewritten'[w] <=> rewritten[w]
  BY DEF Store, Payload
<1> HIDE DEF P
<1>7. LooksAtItsWeeks'
  <2>1. \A t \in Sync : t # s => Syncable(t)' = Syncable(t)
    BY <1>1, <1>3 DEF Syncable, Blocked
  <2> QED BY <1>1, <2>1 DEF IInv, LooksAtItsWeeks
<1>8. LoneSaves'
  <2> SUFFICES ASSUME NEW t \in Sync, NEW w \in Week,
                      job'[t].pc # "idle", w \in Weeks(t)', Whole(w)'
               PROVE  /\ job'[t].rows[w] = rows'[w]
                      /\ Alone(t, w)'
                      /\ job'[t].pc = "syncing" => status'[w].sync = "pending"
                      /\ job'[t].known[w] = "written" => Shows(w)'
    BY DEF LoneSaves
  <2>1. CASE t = s
    <3>1. \A u \in Sync : u # s /\ job[u].pc # "idle" => w \notin Weeks(u)
      BY <1>2, <1>4, <1>6, <2>1 DEF Whole
    <3>2. Alone(t, w)'
      BY <1>1, <1>3, <2>1, <3>1 DEF Alone
    <3> QED BY <1>1, <2>1, <3>2
  <2>2. CASE t # s
    <3>1. job'[t] = job[t] /\ w \in Weeks(t)
      BY <1>1, <1>3, <2>2
    <3>2. w \notin P /\ Whole(w)
      BY <1>4, <1>6, <2>2, <3>1 DEF Whole
    <3>3. /\ job[t].rows[w] = rows[w]
          /\ Alone(t, w)
          /\ job[t].pc = "syncing" => status[w].sync = "pending"
          /\ job[t].known[w] = "written" => Shows(w)
      BY <3>1, <3>2 DEF IInv, LoneSaves
    <3>4. Alone(t, w)'
      BY <1>1, <1>2, <1>3, <3>2, <3>3 DEF Alone
    <3> QED BY <1>1, <1>5, <3>1, <3>2, <3>3, <3>4 DEF Shows, Whole
  <2> QED BY <2>1, <2>2
<1>9. SyncedMatches'
  <2> SUFFICES ASSUME NEW w \in Week, status'[w].sync = "synced"
               PROVE  \/ doc'[w] # NoSheet /\ doc'[w].actual = rows'[w]
                      \/ torn'[w]
                      \/ rewritten'[w]
                      \/ \E t \in Sync : job'[t].pc = "stored" /\ w \in Weeks(t)'
    BY DEF SyncedMatches
  <2>1. CASE w \in P
    BY <1>1, <1>2, <2>1
  <2>2. CASE w \notin P
    <3>1. \/ doc[w] # NoSheet /\ doc[w].actual = rows[w]
          \/ torn[w]
          \/ rewritten[w]
          \/ \E t \in Sync : job[t].pc = "stored" /\ w \in Weeks(t)
      BY <1>1 DEF IInv, SyncedMatches
    <3>2. ~\E t \in Sync : job[t].pc = "stored"
      BY DEF Store, Storing
    <3> QED BY <1>1, <1>5, <1>6, <2>2, <3>1, <3>2
  <2> QED BY <2>1, <2>2
<1> QED BY <1>7, <1>8, <1>9

LEMMA MarkPendingKeeps ==
  ASSUME IInv, NEW s \in Sync, MarkPending(s)
  PROVE  (LooksAtItsWeeks /\ LoneSaves /\ SyncedMatches)'
<1>1. /\ job[s].pc = "stored" /\ job'[s].pc = "syncing"
      /\ \A t \in Sync : /\ job'[t].rows = job[t].rows
                         /\ job'[t].prev = job[t].prev
                         /\ job'[t].known = job[t].known
                         /\ t # s => job'[t] = job[t]
      /\ rows' = rows /\ doc' = doc /\ torn' = torn /\ rewritten' = rewritten
  BY DEF MarkPending, IInv, TypeOK, Job
<1>2. \A w \in Week : status'[w].sync = IF w \in Weeks(s) THEN "pending"
                                        ELSE status[w].sync
  <2>1. [w \in Week |-> "pending"] \in [Week -> SyncState]
    BY DEF SyncState
  <2>2. Weeks(s) \in SUBSET Week
    BY DEF Weeks, Payload
  <2> QED BY <2>1, <2>2, ReportShape DEF MarkPending, IInv
<1>3. \A t \in Sync : Weeks(t)' = Weeks(t) /\ Syncable(t)' = Syncable(t)
  BY <1>1 DEF Weeks, Syncable, Blocked
<1>4. LooksAtItsWeeks'
  BY <1>1, <1>3 DEF IInv, LooksAtItsWeeks
<1>5. LoneSaves'
  <2> SUFFICES ASSUME NEW t \in Sync, NEW w \in Week,
                      job'[t].pc # "idle", w \in Weeks(t)', Whole(w)'
               PROVE  /\ job'[t].rows[w] = rows'[w]
                      /\ Alone(t, w)'
                      /\ job'[t].pc = "syncing" => status'[w].sync = "pending"
                      /\ job'[t].known[w] = "written" => Shows(w)'
    BY DEF LoneSaves
  <2>1. job[t].pc # "idle" /\ w \in Weeks(t) /\ Whole(w)
    BY <1>1, <1>3 DEF Whole
  <2>2. /\ job[t].rows[w] = rows[w]
        /\ Alone(t, w)
        /\ job[t].pc = "syncing" => status[w].sync = "pending"
        /\ job[t].known[w] = "written" => Shows(w)
    BY <2>1 DEF IInv, LoneSaves
  <2>3. Alone(t, w)'
    BY <1>1, <1>3, <2>2 DEF Alone
  <2>4. job'[t].pc = "syncing" => status'[w].sync = "pending"
    BY <1>1, <1>2, <2>1, <2>2
  <2> QED BY <1>1, <2>2, <2>3, <2>4 DEF Shows
<1>6. SyncedMatches'
  BY <1>1, <1>2, <1>3 DEF IInv, SyncedMatches
<1> QED BY <1>4, <1>5, <1>6

(* A save that ends: what it leaves to the other saves. *)
LEMMA EndKeeps ==
  ASSUME IInv, NEW s \in Sync, job' = [job EXCEPT ![s] = IdleJob],
         rows' = rows, doc' = doc, rewritten' = rewritten,
         \A w \in Week : torn[w] => torn'[w],
         \A w \in Week : \/ status'[w].sync = status[w].sync
                         \/ w \in Weeks(s) /\ job[s].pc # "idle",
         \A w \in Week : status'[w].sync = "synced" =>
           \/ status[w].sync = "synced"
           \/ ~Whole(w)
           \/ Shows(w),
         job[s].pc = "stored" => \A w \in Weeks(s) : torn'[w]
  PROVE  (LooksAtItsWeeks /\ LoneSaves /\ SyncedMatches)'
<1>1. /\ \A t \in Sync : t # s => job'[t] = job[t]
      /\ job'[s] = IdleJob
  BY DEF IInv, TypeOK
<1>2. \A t \in Sync : t # s => Weeks(t)' = Weeks(t) /\ Syncable(t)' = Syncable(t)
  BY <1>1 DEF Weeks, Syncable, Blocked
<1>3. IdleJob.pc = "idle" /\ \A w \in Week : IdleJob.known[w] = "unread"
  BY DEF IdleJob
<1>4. LooksAtItsWeeks'
  BY <1>1, <1>2, <1>3 DEF IInv, LooksAtItsWeeks
<1>5. LoneSaves'
  <2> SUFFICES ASSUME NEW t \in Sync, NEW w \in Week,
                      job'[t].pc # "idle", w \in Weeks(t)', Whole(w)'
               PROVE  /\ job'[t].rows[w] = rows'[w]
                      /\ Alone(t, w)'
                      /\ job'[t].pc = "syncing" => status'[w].sync = "pending"
                      /\ job'[t].known[w] = "written" => Shows(w)'
    BY DEF LoneSaves
  <2>1. t # s /\ job[t].pc # "idle" /\ w \in Weeks(t) /\ Whole(w)
    BY <1>1, <1>2, <1>3 DEF Whole
  <2>2. /\ job[t].rows[w] = rows[w]
        /\ Alone(t, w)
        /\ job[t].pc = "syncing" => status[w].sync = "pending"
        /\ job[t].known[w] = "written" => Shows(w)
    BY <2>1 DEF IInv, LoneSaves
  <2>3. status'[w].sync = status[w].sync
    BY <2>1, <2>2 DEF Alone
  <2>4. Alone(t, w)'
    BY <1>1, <1>2, <1>3, <2>2 DEF Alone
  <2> QED BY <1>1, <2>1, <2>2, <2>3, <2>4 DEF Shows
<1>6. SyncedMatches'
  <2> SUFFICES ASSUME NEW w \in Week, status'[w].sync = "synced"
               PROVE  \/ doc'[w] # NoSheet /\ doc'[w].actual = rows'[w]
                      \/ torn'[w]
                      \/ rewritten'[w]
                      \/ \E t \in Sync : job'[t].pc = "stored" /\ w \in Weeks(t)'
    BY DEF SyncedMatches
  <2>1. CASE ~Whole(w) \/ Shows(w)
    BY <2>1 DEF Shows, Whole
  <2>2. CASE status[w].sync = "synced" /\ Whole(w) /\ ~Shows(w)
    <3>1. PICK t \in Sync : job[t].pc = "stored" /\ w \in Weeks(t)
      BY <2>2 DEF IInv, SyncedMatches, Shows, Whole
    <3>2. CASE t = s
      BY <3>1, <3>2
    <3>3. CASE t # s
      BY <1>1, <1>2, <3>1, <3>3
    <3> QED BY <3>2, <3>3
  <2> QED BY <2>1, <2>2
<1> QED BY <1>4, <1>5, <1>6

LEMMA PendingFailsKeeps ==
  ASSUME IInv, NEW s \in Sync, PendingFails(s)
  PROVE  (LooksAtItsWeeks /\ LoneSaves /\ SyncedMatches)'
<1>1. PICK done \in SUBSET Weeks(s) :
        status' = Reported(done, [w \in Week |-> "pending"])
  BY DEF PendingFails
<1>2. \A w \in Week : status'[w].sync = IF w \in done THEN "pending"
                                        ELSE status[w].sync
  <2>1. [w \in Week |-> "pending"] \in [Week -> SyncState]
    BY DEF SyncState
  <2>2. Weeks(s) \in SUBSET Week
    BY DEF Weeks, Payload
  <2> QED BY <1>1, <2>1, <2>2, ReportShape DEF IInv
<1>3. /\ job' = [job EXCEPT ![s] = IdleJob]
      /\ rows' = rows /\ doc' = doc /\ rewritten' = rewritten
      /\ job[s].pc = "stored"
      /\ \A w \in Week : torn'[w] <=> (torn[w] \/ w \in Weeks(s))
  BY DEF PendingFails
<1>4. Weeks(s) \subseteq Week
  BY DEF Weeks, Payload
<1> QED BY <1>2, <1>3, <1>4, EndKeeps

LEMMA FinishKeeps ==
  ASSUME IInv, NEW s \in Sync, Finish(s)
  PROVE  (LooksAtItsWeeks /\ LoneSaves /\ SyncedMatches)'
<1>1. PICK done \in SUBSET Weeks(s) :
        status' = Reported(done, [w \in Week |-> Outcome(s, w)])
  BY DEF Finish
<1>2. \A w \in Week : status'[w].sync = IF w \in done THEN Outcome(s, w)
                                        ELSE status[w].sync
  <2>1. [w \in Week |-> Outcome(s, w)] \in [Week -> SyncState]
    BY OutcomeTyped
  <2>2. Weeks(s) \in SUBSET Week
    BY DEF Weeks, Payload
  <2> QED BY <1>1, <2>1, <2>2, ReportShape DEF IInv
<1>3. /\ job' = [job EXCEPT ![s] = IdleJob]
      /\ rows' = rows /\ doc' = doc /\ torn' = torn /\ rewritten' = rewritten
      /\ job[s].pc = "syncing"
      /\ \A w \in Syncable(s) : job[s].known[w] \in {"written", "failed"}
  BY DEF Finish
<1>4. ASSUME NEW w \in Week, status'[w].sync = "synced"
      PROVE  status[w].sync = "synced" \/ ~Whole(w) \/ Shows(w)
  <2>1. CASE w \notin done
    BY <1>2, <1>4, <2>1
  <2>2. CASE w \in done /\ Whole(w)
    <3>1. Outcome(s, w) = "synced"
      BY <1>2, <1>4, <2>2
    <3>2. w \notin Blocked(s) /\ job[s].known[w] # "failed"
      BY <3>1 DEF Outcome
    <3>3. w \in Syncable(s)
      BY <2>2, <3>2 DEF Syncable
    <3>4. job[s].known[w] = "written"
      BY <1>3, <3>2, <3>3
    <3> QED BY <1>3, <2>2, <3>4 DEF IInv, LoneSaves
  <2> QED BY <2>1, <2>2
<1> QED BY <1>2, <1>3, <1>4, EndKeeps

(* A save looks at a week, fails at it, or writes it. *)
LEMMA NotedKeeps ==
  ASSUME IInv, NEW s \in Sync, NEW w \in Week, NEW k \in Known,
         job' = [job EXCEPT ![s] = Noted(@, w, k)],
         job[s].pc = "syncing", w \in Syncable(s),
         rows' = rows, status' = status, torn' = torn, rewritten' = rewritten,
         \A v \in Week : v # w => doc'[v] = doc[v],
         \/ doc' = doc
         \/ doc'[w] # NoSheet /\ doc'[w].actual = job[s].rows[w],
         k = "written" => doc'[w] # NoSheet /\ doc'[w].actual = job[s].rows[w]
  PROVE  (LooksAtItsWeeks /\ LoneSaves /\ SyncedMatches)'
<1>0. w \in Weeks(s)
  BY DEF Syncable
<1>1. \A t \in Sync : /\ job'[t].pc = job[t].pc
                     /\ job'[t].rows = job[t].rows
                     /\ job'[t].prev = job[t].prev
                     /\ \A v \in Week : job'[t].known[v] =
                          IF t = s /\ v = w THEN k ELSE job[t].known[v]
  BY NotedShape DEF IInv, TypeOK
<1>2. \A t \in Sync : Weeks(t)' = Weeks(t) /\ Syncable(t)' = Syncable(t)
  BY <1>1 DEF Weeks, Syncable, Blocked
<1>3. LooksAtItsWeeks'
  BY <1>1, <1>2 DEF IInv, LooksAtItsWeeks
<1>4. Whole(w) => /\ job[s].rows[w] = rows[w]
                  /\ Alone(s, w)
                  /\ status[w].sync = "pending"
  BY <1>0 DEF IInv, LoneSaves
<1>5. LoneSaves'
  <2> SUFFICES ASSUME NEW t \in Sync, NEW v \in Week,
                      job'[t].pc # "idle", v \in Weeks(t)', Whole(v)'
               PROVE  /\ job'[t].rows[v] = rows'[v]
                      /\ Alone(t, v)'
                      /\ job'[t].pc = "syncing" => status'[v].sync = "pending"
                      /\ job'[t].known[v] = "written" => Shows(v)'
    BY DEF LoneSaves
  <2>1. /\ job[t].rows[v] = rows[v]
        /\ Alone(t, v)
        /\ job[t].pc = "syncing" => status[v].sync = "pending"
        /\ job[t].known[v] = "written" => Shows(v)
    BY <1>1, <1>2 DEF IInv, LoneSaves, Whole
  <2>2. Alone(t, v)'
    BY <1>1, <1>2, <2>1 DEF Alone
  <2>3. job'[t].known[v] = "written" => Shows(v)'
    <3>1. CASE v # w
      BY <1>1, <2>1, <3>1 DEF Shows
    <3>2. CASE v = w
      <4>1. t = s
        BY <1>0, <1>1, <2>1, <3>2 DEF Alone
      <4> QED BY <1>1, <1>4, <3>2, <4>1 DEF Shows, Whole
    <3> QED BY <3>1, <3>2
  <2> QED BY <1>1, <2>1, <2>2, <2>3
<1>6. SyncedMatches'
  <2> SUFFICES ASSUME NEW v \in Week, status'[v].sync = "synced", Whole(v)'
               PROVE  \/ doc'[v] # NoSheet /\ doc'[v].actual = rows'[v]
                      \/ \E t \in Sync : job'[t].pc = "stored" /\ v \in Weeks(t)'
    BY DEF SyncedMatches, Whole
  <2>1. v # w /\ Whole(v)
    BY <1>4 DEF Whole
  <2>2. \/ doc[v] # NoSheet /\ doc[v].actual = rows[v]
        \/ \E t \in Sync : job[t].pc = "stored" /\ v \in Weeks(t)
    BY <2>1 DEF IInv, SyncedMatches, Whole
  <2> QED BY <1>1, <1>2, <2>1, <2>2
<1> QED BY <1>3, <1>5, <1>6

LEMMA WriteKeeps ==
  ASSUME IInv, NEW s \in Sync, NEW w \in Week,
         Look(s, w) \/ PutFails(s, w) \/ Put(s, w)
  PROVE  (LooksAtItsWeeks /\ LoneSaves /\ SyncedMatches)'
<1>0. TypeOK
  BY DEF IInv
<1>1. CASE Look(s, w)
  <2>1. PICK k \in Found(w) : job' = [job EXCEPT ![s] = Noted(@, w, k)]
    BY <1>1 DEF Look
  <2>2. k \in Known /\ k # "written"
    BY DEF Found, Known
  <2> QED BY <1>1, <2>1, <2>2, NotedKeeps DEF Look
<1>2. CASE PutFails(s, w)
  <2>1. w \in Syncable(s)
    BY <1>2 DEF PutFails, IInv, LooksAtItsWeeks
  <2> QED BY <1>2, <2>1, NotedKeeps DEF PutFails, Known
<1>3. CASE Put(s, w)
  <2>1. w \in Syncable(s)
    BY <1>3 DEF Put, IInv, LooksAtItsWeeks
  <2>2. job[s].rows[w] \in Value
    BY <1>0 DEF TypeOK, Job
  <2>3. /\ doc'[w] \in Sheet
        /\ doc'[w].actual = job[s].rows[w]
        /\ \A v \in Week : v # w => doc'[v] = doc[v]
    BY <1>0, <1>3, <2>2, UpsertShape DEF Put, Mode, TypeOK
  <2>4. doc'[w] # NoSheet
    BY <2>3 DEF Sheet, NoSheet
  <2> QED BY <1>3, <2>1, <2>3, <2>4, NotedKeeps DEF Put, Known
<1> QED BY <1>1, <1>2, <1>3

LEMMA ReloadKeeps ==
  ASSUME IInv, Reload
  PROVE  (LooksAtItsWeeks /\ LoneSaves /\ SyncedMatches)'
<1>1. \A s \in Sync : /\ job'[s].pc = "idle"
                     /\ \A w \in Week : job'[s].known[w] = "unread"
  BY DEF Reload, IdleJob
<1>2. /\ rows' = rows /\ doc' = doc /\ status' = status /\ rewritten' = rewritten
      /\ \A w \in Week : torn'[w] <=>
           (torn[w] \/ \E s \in Sync : job[s].pc = "stored" /\ w \in Weeks(s))
  BY DEF Reload
<1>3. LooksAtItsWeeks' /\ LoneSaves'
  BY <1>1 DEF LooksAtItsWeeks, LoneSaves
<1>4. SyncedMatches'
  BY <1>2 DEF IInv, SyncedMatches
<1> QED BY <1>3, <1>4

(* Others change the stored rows, or the page gets them. *)
LEMMA RewriteKeeps ==
  ASSUME IInv, Receive \/ \E new \in [Week -> Value] : Rewrite(new)
  PROVE  (LooksAtItsWeeks /\ LoneSaves /\ SyncedMatches)'
<1>1. ASSUME NEW new \in [Week -> Value], Rewrite(new)
      PROVE  (LooksAtItsWeeks /\ LoneSaves /\ SyncedMatches)'
  BY <1>1, FrameKeeps DEF Rewrite
<1>2. CASE Receive
  BY <1>2, FrameKeeps DEF Receive
<1> QED BY <1>1, <1>2

(* What a client's write does to the actual amounts of its week. *)
LEMMA ClientKeeps ==
  ASSUME IInv, NEW c \in Client,
         \/ ClientPut(c)
         \/ ClientStatus(c)
         \/ ClientMark(c)
         \/ ClientCreate(c)
         \/ ClientFlag(c)
  PROVE  (LooksAtItsWeeks /\ LoneSaves /\ SyncedMatches)'
<1> DEFINE o == op[c]
<1>0. /\ TypeOK
      /\ o.week \in Week
      /\ o.mode \in Mode
      /\ o.value \in Value
      /\ o.history \in SUBSET Nat
      /\ \A w \in Week : doc[w] # NoSheet => doc[w] \in Sheet
      /\ \A d \in Sheet : d # NoSheet
  BY SheetIsThere DEF IInv, TypeOK, Op
<1>1. CASE ClientPut(c)
  <2>1. UNCHANGED <<job, rows, status, rewritten>>
    BY <1>1 DEF ClientPut
  <2>2. \A w \in Week : torn[w] => torn'[w]
    BY <1>0, <1>1 DEF ClientPut, TypeOK
  <2>3. ASSUME NEW w \in Week, ~torn'[w], doc[w] # NoSheet
        PROVE  doc'[w] # NoSheet /\ doc'[w].actual = doc[w].actual
    <3>1. CASE w # o.week
      BY <1>0, <1>1, <2>3, <3>1 DEF ClientPut, TypeOK
    <3>2. CASE w = o.week
      <4>1. o.mode = "projection" /\ o.pc = "present"
        BY <1>0, <1>1, <2>3, <3>2 DEF ClientPut, TypeOK, Mode
      <4>2. doc'[w] = Upserted(w, o.mode, o.value, o.pc)
        BY <1>0, <1>1, <3>2 DEF ClientPut, TypeOK
      <4>3. /\ Upserted(w, o.mode, o.value, o.pc) \in Sheet
            /\ Upserted(w, o.mode, o.value, o.pc).actual = doc[w].actual
        BY <1>0, <2>3, <4>1, UpsertShape
      <4> QED BY <1>0, <4>2, <4>3
    <3> QED BY <3>1, <3>2
  <2> QED BY <2>1, <2>2, <2>3, FrameKeeps
<1>2. CASE ClientStatus(c)
  <2>1. UNCHANGED <<job, rows, doc, torn, rewritten>>
    BY <1>2 DEF ClientStatus
  <2>2. \A w \in Week : status'[w].sync = status[w].sync
    <3>1. status[o.week] \in Status
      BY <1>0 DEF TypeOK
    <3>2. /\ [status[o.week] EXCEPT !.spent = TRUE].sync = status[o.week].sync
          /\ [status[o.week] EXCEPT !.planned = TRUE].sync = status[o.week].sync
      BY <3>1 DEF Status
    <3> QED BY <1>0, <1>2, <3>2 DEF ClientStatus, TypeOK
  <2> QED BY <2>1, <2>2, FrameKeeps
<1>3. CASE ClientMark(c)
  <2>1. UNCHANGED <<job, rows, status, torn, rewritten>>
    BY <1>3 DEF ClientMark
  <2>2. ASSUME NEW w \in Week, doc[w] # NoSheet
        PROVE  doc'[w] # NoSheet /\ doc'[w].actual = doc[w].actual
    <3>1. CASE w # o.week
      BY <1>0, <1>3, <2>2, <3>1 DEF ClientMark, TypeOK
    <3>2. CASE w = o.week
      <4>1. doc'[w] = Marked(doc[w], o.mark)
        BY <1>0, <1>3, <2>2, <3>2 DEF ClientMark, TypeOK
      <4>2. /\ Marked(doc[w], o.mark) \in Sheet
            /\ Marked(doc[w], o.mark).actual = doc[w].actual
        BY <1>0, <2>2, MarkShape
      <4> QED BY <1>0, <4>1, <4>2
    <3> QED BY <3>1, <3>2
  <2> QED BY <2>1, <2>2, FrameKeeps
<1>4. CASE ClientCreate(c)
  <2>1. UNCHANGED <<job, rows, status, rewritten>>
    BY <1>4 DEF ClientCreate
  <2>2. \A w \in Week : torn[w] => torn'[w]
    BY <1>0, <1>4 DEF ClientCreate, TypeOK
  <2>3. \A w \in Week : torn'[w] \/ doc'[w] = doc[w]
    BY <1>0, <1>4 DEF ClientCreate, TypeOK
  <2> QED BY <2>1, <2>2, <2>3, FrameKeeps
<1>5. CASE ClientFlag(c)
  <2>1. UNCHANGED <<job, rows, status, torn, rewritten>>
    BY <1>5 DEF ClientFlag
  <2>2. ASSUME NEW w \in Week, doc[w] # NoSheet
        PROVE  doc'[w] # NoSheet /\ doc'[w].actual = doc[w].actual
    <3>1. CASE w # o.week
      BY <1>0, <1>5, <2>2, <3>1 DEF ClientFlag, TypeOK
    <3>2. CASE w = o.week
      <4>1. doc'[w] = Flagged(doc[w], o.history)
        BY <1>0, <1>5, <3>2 DEF ClientFlag, TypeOK
      <4>2. /\ Flagged(doc[w], o.history) \in Sheet
            /\ Flagged(doc[w], o.history).actual = doc[w].actual
        BY <1>0, <2>2, FlagShape
      <4> QED BY <1>0, <4>1, <4>2
    <3> QED BY <3>1, <3>2
  <2> QED BY <2>1, <2>2, FrameKeeps
<1> QED BY <1>1, <1>2, <1>3, <1>4, <1>5

LEMMA NextKeeps == ASSUME IInv, [Next]_vars PROVE IInv'
<1>0. TypeOK /\ TypeOK' /\ RowsKnown'
  BY NextTyped, RowsKnownKeeps DEF IInv
<1>1. CASE UNCHANGED vars
  <2>1. (LooksAtItsWeeks /\ LoneSaves /\ SyncedMatches)'
    BY <1>1, FrameKeeps DEF vars
  <2> QED BY <1>0, <2>1 DEF IInv
<1>2. ASSUME NEW w \in Week, NEW v \in Value, Edit(w, v)
      PROVE  IInv'
  <2>1. (LooksAtItsWeeks /\ LoneSaves /\ SyncedMatches)'
    BY <1>2, FrameKeeps DEF Edit
  <2> QED BY <1>0, <2>1 DEF IInv
<1>3. CASE ClientStep
  <2>1. UNCHANGED <<doc, status, rows, seen, typed, dirty, job, torn, rewritten>>
    BY <1>3 DEF ClientStep, Begin
  <2>2. (LooksAtItsWeeks /\ LoneSaves /\ SyncedMatches)'
    BY <2>1, FrameKeeps
  <2> QED BY <1>0, <2>2 DEF IInv
<1>4. CASE Next
  BY <1>0, <1>2, <1>3, <1>4, NextCases, ClientSteps, StoreKeeps, MarkPendingKeeps,
     PendingFailsKeeps, FinishKeeps, WriteKeeps, RewriteKeeps, ReloadKeeps,
     ClientKeeps DEF IInv
<1> QED BY <1>1, <1>4

LEMMA InitKeeps == ASSUME Init PROVE IInv
<1>1. TypeOK
  BY InitTyped
<1>2. \A s \in Sync : /\ job[s].pc = "idle"
                     /\ \A w \in Week : job[s].known[w] = "unread"
  BY DEF Init, IdleJob
<1>3. LooksAtItsWeeks /\ LoneSaves
  BY <1>2 DEF LooksAtItsWeeks, LoneSaves
<1>4. SyncedMatches
  BY DEF Init, SyncedMatches
<1>5. RowsKnown
  BY DEF Init, RowsKnown
<1> QED BY <1>1, <1>3, <1>4, <1>5 DEF IInv

(* The weeks in the hands of a save are as LoneSaves says, in every state. *)
THEOREM WeekCorrect == Spec => []IInv
<1>1. Init => IInv
  BY InitKeeps
<1>2. IInv /\ [Next]_vars => IInv'
  BY NextKeeps
<1> QED BY <1>1, <1>2, PTL DEF Spec

(* A week reported as synced shows the stored rows unless it is torn, a save of
   it is at its start, or others have changed its rows since the page did. *)
THEOREM SyncedCorrect == Spec => []SyncedMatches
<1>1. IInv => SyncedMatches
  BY DEF IInv
<1> QED BY <1>1, WeekCorrect, PTL

-----------------------------------------------------------------------------
(* What a step may do to a document *)

(* A document stays as a step of a client or a save leaves it. *)
KeptBy(w) ==
  /\ doc'[w] # NoSheet
  /\ doc[w].submitted => doc'[w].submitted
  /\ doc[w].closed => doc'[w].closed
  /\ \/ doc'[w].projection = doc[w].projection
     \/ \E c \in Client : /\ op[c].pc = "present"
                          /\ op[c].week = w
                          /\ op[c].mode = "projection"
  /\ \/ doc[w].history \subseteq doc'[w].history
     \/ \E c \in Client : /\ op[c].pc = "flag"
                          /\ op[c].week = w
                          /\ ~(doc[w].history \subseteq op[c].history)

LEMMA StepKeeps ==
  ASSUME IInv, [Next]_vars, NEW w \in Week, doc[w] # NoSheet, ~TakenForAbsent(w)
  PROVE  KeptBy(w)
<1>0. TypeOK /\ doc[w] \in Sheet
  BY DEF IInv, TypeOK
<1>1. CASE doc'[w] = doc[w]
  BY <1>1 DEF KeptBy
<1>2. ASSUME NEW s \in Sync, NEW v \in Week, Put(s, v)
      PROVE  KeptBy(w)
  <2>1. CASE v # w
    BY <1>0, <1>1, <1>2, <2>1 DEF Put, TypeOK
  <2>2. CASE v = w
    <3>1. job[s].known[w] = "present"
      BY <1>2, <2>2 DEF Put, TakenForAbsent
    <3>2. job[s].rows[w] \in Value
      BY <1>0 DEF TypeOK, Job
    <3>3. doc'[w] = Upserted(w, "actual", job[s].rows[w], "present")
      BY <1>0, <1>2, <2>2, <3>1 DEF Put, TypeOK
    <3> DEFINE d == Upserted(w, "actual", job[s].rows[w], "present")
    <3>4. /\ d \in Sheet
          /\ d.history = doc[w].history
          /\ d.submitted = doc[w].submitted
          /\ d.closed = doc[w].closed
          /\ d.projection = doc[w].projection
      BY <1>0, <3>2, UpsertShape DEF Mode
    <3> QED BY <3>3, <3>4, SheetIsThere DEF KeptBy
  <2> QED BY <2>1, <2>2
<1>3. ASSUME NEW c \in Client, ClientPut(c)
      PROVE  KeptBy(w)
  <2> DEFINE o == op[c]
  <2>0. o.week \in Week /\ o.mode \in Mode /\ o.value \in Value
    BY <1>0 DEF TypeOK, Op
  <2>1. CASE o.week # w
    BY <1>0, <1>1, <1>3, <2>0, <2>1 DEF ClientPut, TypeOK
  <2>2. CASE o.week = w
    <3>1. o.pc = "present"
      BY <1>3, <2>2 DEF ClientPut, TakenForAbsent
    <3>2. doc'[w] = Upserted(w, o.mode, o.value, "present")
      BY <1>0, <1>3, <2>2, <3>1 DEF ClientPut, TypeOK
    <3> DEFINE d == Upserted(w, o.mode, o.value, "present")
    <3>3. /\ d \in Sheet
          /\ d.history = doc[w].history
          /\ d.submitted = doc[w].submitted
          /\ d.closed = doc[w].closed
          /\ o.mode = "actual" => d.projection = doc[w].projection
      BY <1>0, <2>0, UpsertShape
    <3>4. o.mode = "actual" \/ o.mode = "projection"
      BY <2>0 DEF Mode
    <3> QED BY <2>2, <3>1, <3>2, <3>3, <3>4, SheetIsThere DEF KeptBy
  <2> QED BY <2>1, <2>2
<1>4. ASSUME NEW c \in Client, ClientMark(c)
      PROVE  KeptBy(w)
  <2> DEFINE o == op[c]
  <2>1. CASE o.week # w
    BY <1>0, <1>1, <1>4, <2>1 DEF ClientMark, TypeOK
  <2>2. CASE o.week = w
    <3>1. doc'[w] = Marked(doc[w], o.mark)
      BY <1>0, <1>4, <2>2 DEF ClientMark, TypeOK
    <3> QED BY <1>0, <3>1, MarkShape, SheetIsThere DEF KeptBy
  <2> QED BY <2>1, <2>2
<1>5. ASSUME NEW c \in Client, ClientCreate(c)
      PROVE  KeptBy(w)
  <2>1. op[c].week # w
    BY <1>5 DEF ClientCreate, TakenForAbsent
  <2> QED BY <1>0, <1>1, <1>5, <2>1 DEF ClientCreate, TypeOK
<1>6. ASSUME NEW c \in Client, ClientFlag(c)
      PROVE  KeptBy(w)
  <2> DEFINE o == op[c]
  <2>0. o.history \in SUBSET Nat
    BY <1>0 DEF TypeOK, Op
  <2>1. CASE o.week # w
    BY <1>0, <1>1, <1>6, <2>1 DEF ClientFlag, TypeOK
  <2>2. CASE o.week = w
    <3>1. doc'[w] = Flagged(doc[w], o.history) /\ o.pc = "flag"
      BY <1>0, <1>6, <2>2 DEF ClientFlag, TypeOK
    <3> QED BY <1>0, <2>0, <2>2, <3>1, FlagShape, SheetIsThere DEF KeptBy
  <2> QED BY <2>1, <2>2
<1>7. CASE doc' = doc
  BY <1>1, <1>7
<1>8. ASSUME ClientStep
      PROVE  doc' = doc
  BY <1>8 DEF ClientStep, Begin
<1>9. CASE Next
  BY <1>0, <1>2, <1>3, <1>4, <1>5, <1>6, <1>7, <1>8, <1>9, NextCases, ClientSteps
     DEF Edit, Store, MarkPending, PendingFails, Finish, Look, PutFails, Rewrite,
         Receive, Reload, ClientStatus
<1> QED BY <1>7, <1>9 DEF vars

(* A submission, a closing and a projection are lost only to a writer who took
   the document for absent. *)
THEOREM WeekKeptCorrect == Spec => WeekKept
<1>1. ASSUME IInv, [Next]_vars
      PROVE  [\A w \in Week :
                doc[w] # NoSheet /\ ~TakenForAbsent(w) =>
                  /\ doc'[w] # NoSheet
                  /\ doc[w].submitted => doc'[w].submitted
                  /\ doc[w].closed => doc'[w].closed
                  /\ \/ doc'[w].projection = doc[w].projection
                     \/ \E c \in Client : /\ op[c].pc = "present"
                                          /\ op[c].week = w
                                          /\ op[c].mode = "projection"]_vars
  BY <1>1, StepKeeps DEF KeptBy
<1> QED BY <1>1, WeekCorrect, PTL DEF WeekKept, Spec

(* An event of the history is lost only to such a writer, or to a client who
   read the history before. *)
THEOREM HistoryCorrect == Spec => HistoryKept
<1>1. ASSUME IInv, [Next]_vars
      PROVE  [\A w \in Week :
                doc[w] # NoSheet /\ ~TakenForAbsent(w) =>
                  \/ doc[w].history \subseteq doc'[w].history
                  \/ \E c \in Client : /\ op[c].pc = "flag"
                                       /\ op[c].week = w
                                       /\ ~(doc[w].history \subseteq op[c].history)]_vars
  BY <1>1, StepKeeps DEF KeptBy
<1> QED BY <1>1, WeekCorrect, PTL DEF HistoryKept, Spec

-----------------------------------------------------------------------------
(* ExpenseSheet: least and greatest rows *)

(* A set of natural numbers that is not empty has a least element, and if it is
   bounded a greatest one. *)
Lower == {ss \in Nat \X Nat : ss[1] < ss[2]}

LEMMA LeastIn ==
  ASSUME NEW T \in SUBSET Nat, T # {}
  PROVE  \E n \in T : \A m \in T : n <= m
<1>1. IsWellFoundedOn({ss \in Nat \X Nat : ss[1] < ss[2]}, Nat)
  BY NatLessThanWellFounded DEF OpToRel
<1>2. IsWellFoundedOn(Lower, Nat)
  BY <1>1 DEF Lower
<1>3. PICK n \in T : \A m \in T : ~ (<<m, n>> \in Lower)
  BY <1>2, WFMin
<1>4. ASSUME NEW m \in T PROVE n <= m
  <2>1. <<m, n>> \notin Lower
    BY <1>3
  <2> QED BY <2>1 DEF Lower
<1> QED BY <1>4

LEMMA MinIn ==
  ASSUME NEW T \in SUBSET Nat, T # {}
  PROVE  Min(T) \in T
BY LeastIn DEF Min

LEMMA MaxIn ==
  ASSUME NEW n \in Nat, NEW T \in SUBSET (1 .. n), T # {}
  PROVE  Max(T) \in T
<1> DEFINE U == {m \in Nat : \A t \in T : t <= m}
<1>1. n \in U
  OBVIOUS
<1>2. PICK m \in U : \A k \in U : m <= k
  BY <1>1, LeastIn
<1>3. ASSUME m \notin T PROVE FALSE
  <2>1. PICK t \in T : TRUE
    OBVIOUS
  <2>2. t \in 1 .. n /\ t <= m
    BY <1>2, <2>1
  <2>3. m # 0
    BY <2>2
  <2>4. m \in Nat /\ m - 1 \in Nat
    BY <1>2, <2>3
  <2>5. ASSUME NEW k \in T PROVE k <= m - 1
    <3>1. k \in Nat /\ k <= m /\ k # m
      BY <1>2, <1>3, <2>5
    <3> QED BY <2>4, <3>1
  <2>6. m - 1 \in U
    BY <2>4, <2>5
  <2>7. m <= m - 1
    BY <1>2, <2>6
  <2> QED BY <2>4, <2>7
<1> QED BY <1>2, <1>3 DEF Max

-----------------------------------------------------------------------------
(* The merge *)

(* The row a line goes on is a candidate that no earlier line took. *)
LEMMA MatchParts ==
  ASSUME NEW content \in Seq(Row), NEW l, NEW used
  PROVE  /\ Match(l, content, used) \in 0 .. Len(content)
         /\ Match(l, content, used) # 0 =>
              Match(l, content, used) \in Candidates(l, content, used)
         /\ Candidates(l, content, used) # {} => Match(l, content, used) # 0
<1>1. Candidates(l, content, used) \subseteq 1 .. Len(content)
  BY DEF Candidates
<1>2. CASE Candidates(l, content, used) = {}
  BY <1>2 DEF Match
<1>3. CASE Candidates(l, content, used) # {}
  <2>1. Min(Candidates(l, content, used)) \in Candidates(l, content, used)
    BY <1>1, <1>3, MinIn
  <2> QED BY <1>1, <1>3, <2>1 DEF Match
<1> QED BY <1>2, <1>3

(* f matches the first n lines with the rows of a sheet. *)
Taken(f, k) == {f[j] : j \in 1 .. (k - 1)}
Matches(f, n, content, lines) ==
  /\ f \in [1 .. n -> 0 .. Len(content)]
  /\ \A k \in 1 .. n : f[k] = Match(lines[k], content, Taken(f, k))

(* One line after the other finds its row, ... *)
LEMMA MatchGoesOn ==
  ASSUME NEW content \in Seq(Row), NEW lines, NEW n \in Nat,
         \E f : Matches(f, n, content, lines)
  PROVE  \E f : Matches(f, n + 1, content, lines)
<1>1. PICK f : Matches(f, n, content, lines)
  OBVIOUS
<1> DEFINE m == Match(lines[n + 1], content, Taken(f, n + 1))
           g == [k \in 1 .. (n + 1) |-> IF k = n + 1 THEN m ELSE f[k]]
<1>2. m \in 0 .. Len(content)
  BY MatchParts
<1>3. g \in [1 .. (n + 1) -> 0 .. Len(content)]
  <2>1. \A k \in 1 .. n : f[k] \in 0 .. Len(content)
    BY <1>1 DEF Matches
  <2>2. \A k \in 1 .. (n + 1) : k = n + 1 \/ k \in 1 .. n
    OBVIOUS
  <2> HIDE DEF m
  <2> QED BY <1>2, <2>1, <2>2
<1>4. ASSUME NEW k \in 1 .. (n + 1)
      PROVE  g[k] = Match(lines[k], content, Taken(g, k))
  <2>1. \A j \in 1 .. (k - 1) : g[j] = f[j]
    OBVIOUS
  <2> HIDE DEF g
  <2>2. Taken(g, k) = Taken(f, k)
    BY <2>1 DEF Taken
  <2>3. CASE k = n + 1
    <3>1. g[k] = m
      BY <2>3 DEF g
    <3> QED BY <2>2, <2>3, <3>1
  <2>4. CASE k \in 1 .. n
    <3>1. g[k] = f[k]
      BY <2>4 DEF g
    <3> QED BY <1>1, <2>2, <2>4, <3>1 DEF Matches
  <2> QED BY <2>3, <2>4
<1> QED BY <1>3, <1>4 DEF Matches

(* ... so that every line does. *)
LEMMA MatchExists ==
  ASSUME NEW content \in Seq(Row), NEW lines, NEW n \in Nat
  PROVE  \E f : Matches(f, n, content, lines)
<1> DEFINE Missing == {m \in Nat : ~ \E f : Matches(f, m, content, lines)}
<1>1. SUFFICES ASSUME Missing # {} PROVE FALSE
  OBVIOUS
<1>2. PICK m \in Missing : \A k \in Missing : m <= k
  BY <1>1, LeastIn
<1>3. CASE m = 0
  <2>1. Matches([k \in 1 .. 0 |-> 0], 0, content, lines)
    BY DEF Matches
  <2> QED BY <1>2, <1>3, <2>1
<1>4. CASE m # 0
  <2>1. m - 1 \in Nat /\ m - 1 \notin Missing
    BY <1>2, <1>4
  <2>2. \E f : Matches(f, (m - 1) + 1, content, lines)
    BY <2>1, MatchGoesOn
  <2>3. (m - 1) + 1 = m
    BY <1>2
  <2> QED BY <1>2, <2>2, <2>3
<1> QED BY <1>3, <1>4

(* The merged sheet has a row for each line, with what its match holds. *)
LEMMA MergedParts ==
  ASSUME NEW content \in Seq(Row), NEW lines \in Seq(Line)
  PROVE  \E f : /\ Matches(f, Len(lines), content, lines)
                /\ Merged(content, lines) =
                     [k \in 1 .. Len(lines) |->
                        [source |-> lines[k],
                         note |-> IF f[k] = 0 THEN NoNote ELSE content[f[k]].note]]
<1> DEFINE F == [DOMAIN lines -> 0 .. Len(content)]
           Ok(f) == \A k \in DOMAIN lines :
                      f[k] = Match(lines[k], content, {f[j] : j \in 1 .. (k - 1)})
           f0 == CHOOSE f \in F : Ok(f)
<1>1. DOMAIN lines = 1 .. Len(lines) /\ Len(lines) \in Nat
  OBVIOUS
<1>2. PICK f : Matches(f, Len(lines), content, lines)
  BY <1>1, MatchExists
<1>3. f \in F /\ Ok(f)
  <2>1. \A k \in 1 .. Len(lines) :
          f[k] = Match(lines[k], content, {f[j] : j \in 1 .. (k - 1)})
    BY <1>2 DEF Matches, Taken
  <2>2. f \in F
    BY <1>1, <1>2 DEF Matches
  <2> QED BY <1>1, <2>1, <2>2
<1>4. f0 \in F /\ Ok(f0)
  <2> HIDE DEF F, Ok
  <2> QED BY <1>3
<1>5. Matches(f0, Len(lines), content, lines)
  BY <1>1, <1>4 DEF Matches, Taken
<1>6. Merged(content, lines) =
        [k \in DOMAIN lines |->
           [source |-> lines[k],
            note |-> IF f0[k] = 0 THEN NoNote ELSE content[f0[k]].note]]
  BY DEF Merged
<1> HIDE DEF f0
<1> QED BY <1>1, <1>5, <1>6

(* It is a sheet, whose sources are the statement. *)
LEMMA MergedTyped ==
  ASSUME NEW content \in Seq(Row), NEW lines \in Seq(Line)
  PROVE  /\ Merged(content, lines) \in Seq(Row)
         /\ Sources(Merged(content, lines)) = lines
<1>1. PICK f : /\ Matches(f, Len(lines), content, lines)
               /\ Merged(content, lines) =
                    [k \in 1 .. Len(lines) |->
                       [source |-> lines[k],
                        note |-> IF f[k] = 0 THEN NoNote ELSE content[f[k]].note]]
  BY MergedParts
<1>2. ASSUME NEW k \in 1 .. Len(lines)
      PROVE  Merged(content, lines)[k] \in Row /\ Merged(content, lines)[k].source = lines[k]
  <2>1. f[k] \in 0 .. Len(content)
    BY <1>1 DEF Matches
  <2>2. f[k] # 0 => content[f[k]] \in Row
    BY <2>1
  <2> QED BY <1>1, <2>2 DEF Row, Notes
<1>3. Len(lines) \in Nat /\ DOMAIN Merged(content, lines) = 1 .. Len(lines)
  BY <1>1
<1>4. Merged(content, lines) \in Seq(Row)
  BY <1>1, <1>2, <1>3
<1>5. lines = [k \in 1 .. Len(lines) |-> lines[k]]
  OBVIOUS
<1> QED BY <1>2, <1>3, <1>4, <1>5 DEF Sources

-----------------------------------------------------------------------------
(* The steps of the pages *)

(* The note n belongs to line l, or to one like it. *)
Belongs(l, n) == n \in {NoNote, None, l} \/ (Key[n] = Key[l] /\ Key[l] # NoKey)

(* So do the notes of all rows that have a source. *)
Orderly(content) ==
  \A i \in DOMAIN content :
    content[i].source # None => Belongs(content[i].source, content[i].note)

LEMMA GridTyped ==
  ASSUME ExpenseTypeOK
  PROVE  Grid \in Seq(Row)
BY DEF ExpenseTypeOK, Grid, Page

(* An edit leaves a grid, and its rows orderly. *)
LEMMA FillParts ==
  ASSUME ExpenseTypeOK, NEW i \in DOMAIN Grid, Fill(i)
  PROVE  \E content \in Seq(Row) :
           EditGrid(content) /\ (Orderly(Grid) => Orderly(content))
<1> DEFINE content == [Grid EXCEPT ![i].note = Grid[i].source]
<1>1. Grid \in Seq(Row) /\ EditGrid(content)
  BY GridTyped DEF Fill
<1>2. Grid[i] \in Row /\ Grid[i].source \in Line
  <2>1. Grid[i] \in Row /\ Grid[i].source # None
    BY <1>1 DEF Fill
  <2> QED BY <2>1 DEF Row
<1>3. content \in Seq(Row)
  <2> DEFINE row == [Grid[i] EXCEPT !.note = Grid[i].source]
  <2>1. row \in Row
    BY <1>2 DEF Row, Notes
  <2>2. content = [Grid EXCEPT ![i] = row]
    OBVIOUS
  <2> HIDE DEF row
  <2> QED BY <1>1, <2>1, <2>2
<1>4. ASSUME Orderly(Grid), NEW k \in DOMAIN content, content[k].source # None
      PROVE  Belongs(content[k].source, content[k].note)
  <2>1. CASE k = i
    <3>1. content[k].source = Grid[i].source /\ content[k].note = Grid[i].source
      BY <1>1, <1>2, <2>1 DEF Row
    <3> QED BY <3>1 DEF Belongs
  <2>2. CASE k # i
    <3>1. content[k] = Grid[k] /\ k \in DOMAIN Grid
      BY <1>1, <2>2
    <3> QED BY <1>4, <3>1 DEF Orderly
  <2> QED BY <2>1, <2>2
<1> QED BY <1>1, <1>3, <1>4 DEF Orderly

LEMMA AddRowParts ==
  ASSUME ExpenseTypeOK, NEW l \in Line, AddRow(l)
  PROVE  \E content \in Seq(Row) :
           EditGrid(content) /\ (Orderly(Grid) => Orderly(content))
<1> DEFINE row == [source |-> None, note |-> l]
           content == Append(Grid, row)
<1>1. Grid \in Seq(Row) /\ EditGrid(content)
  BY GridTyped DEF AddRow
<1>2. row \in Row /\ row.source = None
  BY DEF Row, Notes
<1> HIDE DEF row
<1>3. content \in Seq(Row)
  BY <1>1, <1>2
<1>4. ASSUME Orderly(Grid), NEW k \in DOMAIN content, content[k].source # None
      PROVE  Belongs(content[k].source, content[k].note)
  <2>1. content[k] = Grid[k] /\ k \in DOMAIN Grid
    BY <1>1, <1>2, <1>4
  <2> QED BY <1>4, <2>1 DEF Orderly
<1> QED BY <1>1, <1>3, <1>4 DEF Orderly

(* What is left after a removal was there before. *)
LEMMA RemoveParts ==
  ASSUME NEW A, NEW t \in Seq(A), NEW i \in 1 .. Len(t)
  PROVE  /\ RemoveAt(t, i) \in Seq(A)
         /\ \A k \in DOMAIN RemoveAt(t, i) :
              \E j \in DOMAIN t : RemoveAt(t, i)[k] = t[j]
<1> DEFINE n == Len(t)
           u == SubSeq(t, 1, i - 1)
           v == SubSeq(t, i + 1, n)
<1>1. /\ u \in Seq(A) /\ Len(u) = i - 1
      /\ \A k \in 1 .. (i - 1) : u[k] = t[k]
  OBVIOUS
<1>2. /\ v \in Seq(A) /\ Len(v) = n - i
      /\ \A k \in 1 .. (n - i) : v[k] = t[i + k]
  OBVIOUS
<1>3. RemoveAt(t, i) = u \o v /\ n \in Nat
  BY DEF RemoveAt
<1> HIDE DEF u, v
<1>4. /\ u \o v \in Seq(A)
      /\ Len(u \o v) = n - 1
      /\ \A k \in 1 .. (n - 1) : (u \o v)[k] = IF k < i THEN u[k] ELSE v[k - (i - 1)]
  <2>1. /\ u \o v \in Seq(A)
        /\ Len(u \o v) = Len(u) + Len(v)
        /\ \A k \in 1 .. (Len(u) + Len(v)) :
             (u \o v)[k] = IF k <= Len(u) THEN u[k] ELSE v[k - Len(u)]
    BY <1>1, <1>2, ConcatProperties
  <2>2. Len(u) = i - 1 /\ Len(u) + Len(v) = n - 1
    BY <1>1, <1>2
  <2>3. \A k \in 1 .. (n - 1) : k <= i - 1 <=> k < i
    OBVIOUS
  <2> QED BY <2>1, <2>2, <2>3
<1>5. ASSUME NEW k \in 1 .. (n - 1) PROVE \E j \in 1 .. n : (u \o v)[k] = t[j]
  <2>0. k \in Nat /\ i \in Nat /\ n \in Nat /\ i <= n
    BY <1>3
  <2> HIDE DEF n
  <2>1. CASE k < i
    BY <1>1, <1>4, <2>0, <2>1
  <2>2. CASE k >= i
    <3>1. k - (i - 1) \in 1 .. (n - i) /\ i + (k - (i - 1)) = k + 1 /\ k + 1 \in 1 .. n
      BY <2>0, <2>2
    <3>2. v[k - (i - 1)] = t[k + 1]
      BY <1>2, <3>1
    <3>3. (u \o v)[k] = v[k - (i - 1)]
      BY <1>4, <2>0, <2>2
    <3>4. (u \o v)[k] = t[k + 1]
      BY <3>2, <3>3
    <3>5. k + 1 \in 1 .. n
      BY <3>1
    <3> QED BY <3>4, <3>5
  <2>3. k < i \/ k >= i
    BY <2>0
  <2> QED BY <2>1, <2>2, <2>3
<1>6. DOMAIN (u \o v) = 1 .. (n - 1) /\ DOMAIN t = 1 .. n
  BY <1>4
<1> HIDE DEF n
<1> QED BY <1>3, <1>4, <1>5, <1>6

LEMMA RemoveRowParts ==
  ASSUME ExpenseTypeOK, NEW i \in DOMAIN Grid, RemoveRow(i)
  PROVE  \E content \in Seq(Row) :
           EditGrid(content) /\ (Orderly(Grid) => Orderly(content))
<1> DEFINE content == RemoveAt(Grid, i)
<1>1. Grid \in Seq(Row) /\ EditGrid(content) /\ i \in 1 .. Len(Grid)
  BY GridTyped DEF RemoveRow
<1>2. /\ content \in Seq(Row)
      /\ \A k \in DOMAIN content : \E j \in DOMAIN Grid : content[k] = Grid[j]
  BY <1>1, RemoveParts
<1> HIDE DEF content
<1>3. Orderly(Grid) => Orderly(content)
  BY <1>2 DEF Orderly
<1> QED BY <1>1, <1>2, <1>3

LEMMA ExpenseCases ==
  ASSUME ExpenseTypeOK, [ExpenseNext]_expenseVars
  PROVE  \/ \E lines \in Statements : Upload(lines)
         \/ StartSave
         \/ WriteSheet
         \/ WriteStatement
         \/ \E some \in SUBSET Range(bankSave.lines) : WriteItems(some)
         \/ Fail
         \/ Reopen
         \/ \E content \in Seq(Row) :
              EditGrid(content) /\ (Orderly(Grid) => Orderly(content))
         \/ Revert
         \/ StartGridSave
         \/ WriteGrid
         \/ Confirm
         \/ FailGrid
         \/ Hydrate
         \/ \E p \in Page : Deliver(p)
         \/ UNCHANGED expenseVars
<1>1. ASSUME WeekPage
      PROVE  \/ \E content \in Seq(Row) :
                  EditGrid(content) /\ (Orderly(Grid) => Orderly(content))
             \/ Revert
             \/ StartGridSave
             \/ WriteGrid
             \/ Confirm
             \/ FailGrid
             \/ Hydrate
  BY <1>1, FillParts, AddRowParts, RemoveRowParts DEF WeekPage
<1> QED BY <1>1 DEF ExpenseNext, BankPage

-----------------------------------------------------------------------------
(* Types *)

(* An item knows what it knew, or what a row of its line does, or nothing. *)
LEMMA ItemParts ==
  ASSUME ExpenseTypeOK, NEW l \in Line, NEW content \in Seq(Row)
  PROVE  /\ ItemOf(l, content) \in Notes
         /\ \/ ItemOf(l, content) \in {items[l], NoNote}
            \/ \E i \in DOMAIN content : /\ content[i].source = l
                                         /\ ItemOf(l, content) = content[i].note
<1> DEFINE own == {i \in DOMAIN content : content[i].source = l}
<1>1. items[l] \in Notes \union {None}
  BY DEF ExpenseTypeOK
<1>2. CASE items[l] # None
  BY <1>1, <1>2 DEF ItemOf
<1>3. CASE items[l] = None /\ own # {}
  <2>1. Max(own) \in own
    <3>1. own \in SUBSET (1 .. Len(content)) /\ Len(content) \in Nat
      OBVIOUS
    <3> QED BY <1>3, <3>1, MaxIn
  <2>2. ItemOf(l, content) = content[Max(own)].note
    BY <1>3 DEF ItemOf
  <2>3. content[Max(own)] \in Row
    BY <2>1
  <2> QED BY <2>1, <2>2, <2>3 DEF Row
<1>4. CASE items[l] = None /\ own = {}
  BY <1>4 DEF ItemOf, Notes
<1> QED BY <1>2, <1>3, <1>4

LEMMA SpentTyped ==
  ASSUME ExpenseTypeOK, NEW what \in {"typed", "uploads", "faults"}, Spend(what)
  PROVE  bounds' \in [typed : 0..MaxTyped, uploads : 0..MaxUploads, faults : 0..MaxFaults]
<1>1. bounds \in [typed : Nat, uploads : Nat, faults : Nat]
  BY ExpenseAssumption DEF ExpenseTypeOK
<1>2. bounds[what] - 1 \in Nat /\ bounds[what] - 1 <= bounds[what]
  BY <1>1 DEF Spend
<1> QED BY <1>2, ExpenseAssumption DEF Spend, ExpenseTypeOK

LEMMA StatementTyped == \A lines \in Statements : lines \in Seq(Line)
BY ExpenseAssumption

LEMMA ExpenseInitTyped == ASSUME ExpenseInit PROVE ExpenseTypeOK
<1>1. <<>> \in Seq(Row)
  OBVIOUS
<1>2. bounds \in [typed : 0..MaxTyped, uploads : 0..MaxUploads, faults : 0..MaxFaults]
  BY ExpenseAssumption DEF ExpenseInit
<1>3. view \in [Page -> Seq(Row)] /\ items \in [Line -> Notes \union {None}]
  BY <1>1 DEF ExpenseInit
<1> QED BY <1>1, <1>2, <1>3 DEF ExpenseInit, ExpenseTypeOK

(* The save of the bank page, by its step. *)
LEMMA BankSaveParts ==
  ASSUME ExpenseTypeOK, bankSave.pc \in {"sheet", "statement", "items"}
  PROVE  /\ bankSave \in [pc : {"sheet", "statement", "items"},
                          lines : Statements, base : Seq(Row)]
         /\ bankSave.lines \in Seq(Line)
BY StatementTyped DEF ExpenseTypeOK, Idle

LEMMA SaveParts ==
  ASSUME ExpenseTypeOK, save.pc \in {"write", "confirm"}
  PROVE  save \in [pc : {"write", "confirm"}, rows : Seq(Row)]
BY DEF ExpenseTypeOK, Idle

(* A clean bank page shows what is stored, one that saves is not clean, and one
   that is not clean shows a statement. *)
BankInv ==
  /\ SavedIsShown
  /\ bankSave # Idle => bank.dirty
  /\ bank.dirty => bank.shown \in Statements

LEMMA ExpenseTyped ==
  ASSUME ExpenseTypeOK, BankInv, [ExpenseNext]_expenseVars
  PROVE  ExpenseTypeOK'
<1>1. ASSUME NEW lines \in Statements, Upload(lines) PROVE ExpenseTypeOK'
  <2>1. bounds' \in [typed : 0..MaxTyped, uploads : 0..MaxUploads, faults : 0..MaxFaults]
    BY <1>1, SpentTyped DEF Upload
  <2> QED BY <1>1, <2>1 DEF Upload, ExpenseTypeOK
<1>2. CASE StartSave
  <2>1. bank.shown \in Statements
    BY <1>2 DEF StartSave, BankInv
  <2>2. view["bank"] \in Seq(Row)
    BY DEF ExpenseTypeOK, Page
  <2>3. bankSave' \in [pc : {"sheet", "statement", "items"},
                       lines : Statements, base : Seq(Row)]
    BY <1>2, <2>1, <2>2 DEF StartSave
  <2> QED BY <1>2, <2>3 DEF StartSave, ExpenseTypeOK
<1>3. CASE WriteSheet
  <2>1. sheet' \in Seq(Row)
    BY <1>3, BankSaveParts, MergedTyped DEF WriteSheet
  <2>2. bankSave' \in [pc : {"sheet", "statement", "items"},
                       lines : Statements, base : Seq(Row)]
    BY <1>3, BankSaveParts DEF WriteSheet
  <2>3. view' \in [Page -> Seq(Row)]
    BY <1>3, <2>1 DEF WriteSheet, ExpenseTypeOK
  <2> QED BY <1>3, <2>1, <2>2, <2>3 DEF WriteSheet, ExpenseTypeOK
<1>4. CASE WriteStatement
  <2>1. bankSave' \in [pc : {"sheet", "statement", "items"},
                       lines : Statements, base : Seq(Row)]
        /\ statement' \in Statements
    BY <1>4, BankSaveParts DEF WriteStatement
  <2> QED BY <1>4, <2>1 DEF WriteStatement, ExpenseTypeOK
<1>5. ASSUME NEW some \in SUBSET Range(bankSave.lines), WriteItems(some)
      PROVE  ExpenseTypeOK'
  <2>1. bankSave.base \in Seq(Row)
    BY <1>5, BankSaveParts DEF WriteItems
  <2>2. \A l \in Line : ItemOf(l, bankSave.base) \in Notes /\ items[l] \in Notes \union {None}
    BY <2>1, ItemParts DEF ExpenseTypeOK
  <2>3. items' \in [Line -> Notes \union {None}]
    BY <1>5, <2>2 DEF WriteItems
  <2>4. bounds' \in [typed : 0..MaxTyped, uploads : 0..MaxUploads, faults : 0..MaxFaults]
    BY <1>5, SpentTyped DEF WriteItems, ExpenseTypeOK
  <2>5. bank' \in [shown : Statements \union {<<>>}, dirty : BOOLEAN]
    <3>1. bank' = Finished \/ bank' = bank
      BY <1>5 DEF WriteItems
    <3>2. Finished \in [shown : Statements \union {<<>>}, dirty : BOOLEAN]
      BY DEF Finished, ExpenseTypeOK
    <3> QED BY <3>1, <3>2 DEF ExpenseTypeOK
  <2> QED BY <1>5, <2>3, <2>4, <2>5 DEF WriteItems, ExpenseTypeOK
<1>6. CASE Fail \/ FailGrid
  <2>1. bounds' \in [typed : 0..MaxTyped, uploads : 0..MaxUploads, faults : 0..MaxFaults]
    BY <1>6, SpentTyped DEF Fail, FailGrid
  <2> QED BY <1>6, <2>1 DEF Fail, FailGrid, ExpenseTypeOK
<1>7. CASE Reopen
  <2>1. bounds' \in [typed : 0..MaxTyped, uploads : 0..MaxUploads, faults : 0..MaxFaults]
    BY <1>7, SpentTyped DEF Reopen
  <2>2. view' \in [Page -> Seq(Row)]
    <3>1. <<>> \in Seq(Row)
      OBVIOUS
    <3> QED BY <1>7, <3>1 DEF Reopen, ExpenseTypeOK
  <2>3. apart' \in BOOLEAN
    BY <1>7 DEF Reopen, Agree
  <2>4. bank' \in [shown : Statements \union {<<>>}, dirty : BOOLEAN]
    BY <1>7 DEF Reopen, ExpenseTypeOK
  <2> QED BY <1>7, <2>1, <2>2, <2>3, <2>4 DEF Reopen, ExpenseTypeOK
<1>8. ASSUME NEW content \in Seq(Row), EditGrid(content) PROVE ExpenseTypeOK'
  <2>1. bounds' \in [typed : 0..MaxTyped, uploads : 0..MaxUploads, faults : 0..MaxFaults]
    BY <1>8, SpentTyped DEF EditGrid
  <2> QED BY <1>8, <2>1 DEF EditGrid, ExpenseTypeOK
<1>9. CASE Revert \/ Confirm \/ Hydrate
  <2>1. grid' \in [state : {"saved", "dirty", "saving", "failed"}, rows : Seq(Row)]
    <3>1. <<>> \in Seq(Row)
      OBVIOUS
    <3>2. grid' = [state |-> "saved", rows |-> <<>>]
      BY <1>9 DEF Revert, Confirm, Hydrate
    <3> QED BY <3>1, <3>2
  <2> QED BY <1>9, <2>1 DEF Revert, Confirm, Hydrate, ExpenseTypeOK
<1>10. CASE StartGridSave
  BY <1>10 DEF StartGridSave, ExpenseTypeOK
<1>11. CASE WriteGrid
  <2>1. save \in [pc : {"write", "confirm"}, rows : Seq(Row)]
    BY <1>11, SaveParts DEF WriteGrid
  <2>2. /\ sheet' \in Seq(Row)
        /\ view' \in [Page -> Seq(Row)]
        /\ save' \in [pc : {"write", "confirm"}, rows : Seq(Row)]
    BY <1>11, <2>1 DEF WriteGrid, ExpenseTypeOK
  <2>3. apart' \in BOOLEAN
    BY <1>11 DEF WriteGrid, ExpenseTypeOK
  <2> QED BY <1>11, <2>2, <2>3 DEF WriteGrid, ExpenseTypeOK
<1>12. ASSUME NEW p \in Page, Deliver(p) PROVE ExpenseTypeOK'
  BY <1>12 DEF Deliver, ExpenseTypeOK
<1>13. CASE UNCHANGED expenseVars
  BY <1>13 DEF expenseVars, ExpenseTypeOK
<1> QED
  BY <1>1, <1>2, <1>3, <1>4, <1>5, <1>6, <1>7, <1>8, <1>9, <1>10, <1>11, <1>12, <1>13,
     ExpenseCases

-----------------------------------------------------------------------------
(* The bank page and its three writes *)

LEMMA BankSteps ==
  ASSUME ExpenseTypeOK, BankInv, [ExpenseNext]_expenseVars
  PROVE  BankInv'
<1>1. ASSUME UNCHANGED <<bank, bankSave, statement>> PROVE BankInv'
  BY <1>1 DEF BankInv, SavedIsShown
<1>2. ASSUME NEW lines \in Statements, Upload(lines) PROVE BankInv'
  BY <1>2 DEF BankInv, SavedIsShown, Upload
<1>3. CASE StartSave
  BY <1>3 DEF BankInv, SavedIsShown, StartSave
<1>4. CASE WriteSheet
  BY <1>4 DEF BankInv, SavedIsShown, WriteSheet, Idle
<1>5. CASE WriteStatement
  BY <1>5 DEF BankInv, SavedIsShown, WriteStatement, Idle
<1>6. ASSUME NEW some, WriteItems(some) PROVE BankInv'
  <2>1. bank' = Finished \/ bank' = bank
    BY <1>6 DEF WriteItems
  <2>2. bankSave' = Idle /\ bank.dirty /\ statement' = statement
    BY <1>6 DEF WriteItems, BankInv, Idle
  <2> QED BY <2>1, <2>2 DEF BankInv, SavedIsShown, Finished
<1>7. CASE Fail \/ Reopen
  BY <1>7 DEF BankInv, SavedIsShown, Fail, Reopen
<1>8. ASSUME \/ \E content \in Seq(Row) : EditGrid(content)
             \/ Revert \/ StartGridSave \/ WriteGrid \/ Confirm \/ FailGrid \/ Hydrate
             \/ \E p \in Page : Deliver(p)
             \/ UNCHANGED expenseVars
      PROVE  UNCHANGED <<bank, bankSave, statement>>
  BY <1>8
  DEF EditGrid, Revert, StartGridSave, WriteGrid, Confirm, FailGrid, Hydrate, Deliver,
      expenseVars
<1> QED BY <1>1, <1>2, <1>3, <1>4, <1>5, <1>6, <1>7, <1>8, ExpenseCases

(* Between its writes the rows are those of the statement being saved, unless
   something came between; after the second so is the statement.  When the page
   is clean all three agree. *)
FollowInv ==
  /\ bankSave.pc \in {"statement", "items"} /\ ~apart => Sources(sheet) = bankSave.lines
  /\ bankSave.pc = "items" => statement = bankSave.lines
  /\ SheetFollows

LEMMA FollowSteps ==
  ASSUME ExpenseTypeOK, BankInv, FollowInv, [ExpenseNext]_expenseVars
  PROVE  FollowInv'
<1>1. ASSUME UNCHANGED <<sheet, statement, items, bankSave, apart>>,
             ~bank'.dirty => ~bank.dirty
      PROVE  FollowInv'
  BY <1>1 DEF FollowInv, SheetFollows, Agree
<1>2. ASSUME NEW lines \in Statements, Upload(lines) PROVE FollowInv'
  BY <1>2 DEF FollowInv, SheetFollows, Upload
<1>3. CASE StartSave
  BY <1>3 DEF FollowInv, SheetFollows, StartSave, Idle
<1>4. CASE WriteSheet
  <2>1. /\ bankSave' = [bankSave EXCEPT !.pc = "statement"]
        /\ bankSave'.pc = "statement" /\ bankSave'.lines = bankSave.lines
    BY <1>4, BankSaveParts DEF WriteSheet
  <2>2. Sources(sheet') = bankSave.lines
    BY <1>4, BankSaveParts, MergedTyped DEF WriteSheet
  <2>3. bankSave' # Idle
    BY <2>1 DEF Idle
  <2> QED BY <2>1, <2>2, <2>3 DEF FollowInv, SheetFollows, Sources
<1>5. CASE WriteStatement
  <2>1. /\ bankSave'.pc = "items" /\ bankSave'.lines = bankSave.lines
        /\ statement' = bankSave.lines /\ bankSave.pc = "statement"
        /\ UNCHANGED <<sheet, apart>>
    BY <1>5, BankSaveParts DEF WriteStatement
  <2>2. bankSave' # Idle
    BY <2>1 DEF Idle
  <2> QED BY <2>1, <2>2 DEF FollowInv, SheetFollows, Sources
<1>6. ASSUME NEW some \in SUBSET Range(bankSave.lines), WriteItems(some)
      PROVE  FollowInv'
  <2>1. bankSave.pc = "items" /\ bankSave' = Idle /\ bankSave'.pc = "idle"
        /\ UNCHANGED <<sheet, statement, apart>>
    BY <1>6 DEF WriteItems, Idle
  <2>2. statement = bankSave.lines /\ (~apart => Sources(sheet) = statement)
    BY <2>1 DEF FollowInv
  <2>3. bank.dirty
    BY <2>1 DEF BankInv, Idle
  <2>4. CASE some # Range(bankSave.lines)
    <3>1. bank'.dirty
      BY <1>6, <2>3, <2>4 DEF WriteItems
    <3> QED BY <2>1, <3>1 DEF FollowInv, SheetFollows
  <2>5. CASE some = Range(bankSave.lines)
    <3>1. bankSave.base \in Seq(Row) /\ bankSave.lines \in Seq(Line)
      BY <2>1, BankSaveParts
    <3>2. Range(statement) \subseteq Line
      BY <2>2, <3>1 DEF Range
    <3>3. \A l \in Range(statement) : items'[l] = ItemOf(l, bankSave.base)
      BY <1>6, <2>2, <2>5, <3>2 DEF WriteItems
    <3>4. \A l \in Range(statement) : items'[l] \in Notes
      BY <3>1, <3>2, <3>3, ItemParts
    <3>5. None \notin Notes
      BY ExpenseAssumption DEF Notes
    <3>6. ~apart => Agree'
      BY <2>1, <2>2, <3>4, <3>5 DEF Agree, Sources
    <3> QED BY <2>1, <3>6 DEF FollowInv, SheetFollows
  <2> QED BY <2>4, <2>5
<1>7. CASE Fail
  <2>1. bankSave # Idle /\ bankSave' = Idle /\ bank' = bank
    BY <1>7 DEF Fail, Idle
  <2> QED BY <2>1 DEF FollowInv, SheetFollows, BankInv, Idle
<1>8. CASE Reopen
  <2>1. bankSave' = Idle /\ bankSave'.pc = "idle" /\ (~apart' => Agree)
        /\ UNCHANGED <<sheet, statement, items>>
    BY <1>8 DEF Reopen, Idle
  <2> QED BY <2>1 DEF FollowInv, SheetFollows, Agree
<1>9. CASE WriteGrid
  <2>1. UNCHANGED <<statement, items, bank, bankSave>>
    BY <1>9 DEF WriteGrid
  <2>2. ~apart' => ~apart /\ Sources(sheet') = Sources(sheet)
    BY <1>9 DEF WriteGrid
  <2> QED BY <2>1, <2>2 DEF FollowInv, SheetFollows, Agree, Sources
<1>10. ASSUME \/ \E content \in Seq(Row) : EditGrid(content)
              \/ Revert \/ StartGridSave \/ Confirm \/ FailGrid \/ Hydrate
              \/ \E p \in Page : Deliver(p)
              \/ UNCHANGED expenseVars
       PROVE  UNCHANGED <<sheet, statement, items, bankSave, apart, bank>>
  BY <1>10
  DEF EditGrid, Revert, StartGridSave, Confirm, FailGrid, Hydrate, Deliver, expenseVars
<1> QED
  BY <1>1, <1>2, <1>3, <1>4, <1>5, <1>6, <1>7, <1>8, <1>9, <1>10, ExpenseCases

-----------------------------------------------------------------------------
(* Whose notes are where *)

(* A row that a line may go on has a note that belongs to that line. *)
LEMMA CandidateBelongs ==
  ASSUME NEW content \in Seq(Row), Orderly(content), NEW l \in Line, NEW used,
         NEW i \in Candidates(l, content, used)
  PROVE  Belongs(l, content[i].note)
<1>1. i \in DOMAIN content /\ content[i] \in Row
  BY DEF Candidates
<1>2. \/ content[i].source = l
      \/ Key[l] # NoKey /\ KeyOf(content[i]) = Key[l]
  BY DEF Candidates
<1>3. None \notin Line
  BY ExpenseAssumption
<1>4. CASE content[i].source = l
  BY <1>1, <1>3, <1>4 DEF Orderly
<1>5. CASE Key[l] # NoKey /\ KeyOf(content[i]) = Key[l] /\ content[i].source # None
  <2>1. Belongs(content[i].source, content[i].note)
    BY <1>1, <1>5 DEF Orderly
  <2>2. Key[content[i].source] = Key[l]
    BY <1>5 DEF KeyOf
  <2> QED BY <1>5, <2>1, <2>2 DEF Belongs
<1>6. CASE Key[l] # NoKey /\ KeyOf(content[i]) = Key[l] /\ content[i].source = None
  BY <1>6 DEF KeyOf, Belongs
<1> QED BY <1>2, <1>4, <1>5, <1>6

LEMMA MergedOrderly ==
  ASSUME NEW content \in Seq(Row), Orderly(content), NEW lines \in Seq(Line)
  PROVE  Orderly(Merged(content, lines))
<1>1. PICK f : /\ Matches(f, Len(lines), content, lines)
               /\ Merged(content, lines) =
                    [k \in 1 .. Len(lines) |->
                       [source |-> lines[k],
                        note |-> IF f[k] = 0 THEN NoNote ELSE content[f[k]].note]]
  BY MergedParts
<1>2. ASSUME NEW k \in 1 .. Len(lines)
      PROVE  Belongs(lines[k], IF f[k] = 0 THEN NoNote ELSE content[f[k]].note)
  <2>1. lines[k] \in Line /\ f[k] = Match(lines[k], content, Taken(f, k))
    BY <1>1 DEF Matches
  <2>2. CASE f[k] = 0
    BY <2>2 DEF Belongs
  <2>3. CASE f[k] # 0
    <3>1. f[k] \in Candidates(lines[k], content, Taken(f, k))
      BY <2>1, <2>3, MatchParts
    <3> QED BY <2>1, <2>3, <3>1, CandidateBelongs
  <2> QED BY <2>2, <2>3
<1> QED BY <1>1, <1>2 DEF Orderly

(* Every sheet anyone has is orderly, and so are the items. *)
NotesInv ==
  /\ Orderly(sheet)
  /\ \A p \in Page : Orderly(view[p])
  /\ Orderly(grid.rows)
  /\ save # Idle => Orderly(save.rows)
  /\ bankSave # Idle => Orderly(bankSave.base)
  /\ \A l \in Line : Belongs(l, items[l])

LEMMA NotesSteps ==
  ASSUME ExpenseTypeOK, BankInv, NotesInv, [ExpenseNext]_expenseVars
  PROVE  NotesInv'
<1>0. Orderly(<<>>)
  BY DEF Orderly
<1>1. ASSUME UNCHANGED <<sheet, items, view, grid, save>>,
             bankSave' = bankSave \/ bankSave' = Idle
      PROVE  NotesInv'
  BY <1>1 DEF NotesInv, Orderly, Belongs
<1>2. CASE StartSave
  <2>1. Orderly(view["bank"])
    BY DEF NotesInv, Page
  <2>2. bankSave'.base = view["bank"] /\ UNCHANGED <<sheet, items, view, grid, save>>
    BY <1>2 DEF StartSave
  <2> QED BY <2>1, <2>2 DEF NotesInv, Orderly, Belongs
<1>3. CASE WriteSheet
  <2>1. bankSave # Idle /\ bankSave.base \in Seq(Row) /\ bankSave.lines \in Seq(Line)
    BY <1>3, BankSaveParts DEF WriteSheet, Idle
  <2>2. Orderly(sheet')
    <3>1. Orderly(bankSave.base)
      BY <2>1 DEF NotesInv
    <3>2. Orderly(Merged(bankSave.base, bankSave.lines))
      BY <2>1, <3>1, MergedOrderly
    <3> QED BY <1>3, <3>2 DEF WriteSheet
  <2>3. \A p \in Page : view'[p] = sheet' \/ view'[p] = view[p]
    BY <1>3 DEF WriteSheet, ExpenseTypeOK
  <2>4. bankSave'.base = bankSave.base
    BY <1>3, BankSaveParts DEF WriteSheet
  <2>5. UNCHANGED <<items, grid, save>>
    BY <1>3 DEF WriteSheet
  <2> QED BY <2>1, <2>2, <2>3, <2>4, <2>5 DEF NotesInv, Orderly, Belongs
<1>4. CASE WriteStatement
  <2>1. bankSave # Idle /\ bankSave'.base = bankSave.base
    BY <1>4, BankSaveParts DEF WriteStatement, Idle
  <2>2. UNCHANGED <<sheet, items, view, grid, save>>
    BY <1>4 DEF WriteStatement
  <2> QED BY <2>1, <2>2 DEF NotesInv, Orderly, Belongs
<1>5. ASSUME NEW some \in SUBSET Range(bankSave.lines), WriteItems(some)
      PROVE  NotesInv'
  <2>1. bankSave # Idle /\ bankSave' = Idle /\ bankSave.base \in Seq(Row)
    BY <1>5, BankSaveParts DEF WriteItems, Idle
  <2>2. ASSUME NEW l \in Line PROVE Belongs(l, items'[l])
    <3>1. items'[l] = items[l] \/ items'[l] = ItemOf(l, bankSave.base)
      BY <1>5 DEF WriteItems
    <3>2. Belongs(l, items[l]) /\ Belongs(l, NoNote) /\ l # None
      BY ExpenseAssumption DEF NotesInv, Belongs
    <3>3. ASSUME NEW i \in DOMAIN bankSave.base, bankSave.base[i].source = l
          PROVE  Belongs(l, bankSave.base[i].note)
      BY <2>1, <3>2, <3>3 DEF NotesInv, Orderly
    <3> QED BY <2>1, <3>1, <3>2, <3>3, ItemParts
  <2>3. UNCHANGED <<sheet, view, grid, save>>
    BY <1>5 DEF WriteItems
  <2> QED BY <2>1, <2>2, <2>3 DEF NotesInv, Orderly, Belongs
<1>6. CASE Reopen
  <2>1. \A p \in Page : view'[p] = <<>> \/ view'[p] = view[p]
    BY <1>6 DEF Reopen, ExpenseTypeOK
  <2>2. bankSave' = Idle /\ UNCHANGED <<sheet, items, grid, save>>
    BY <1>6 DEF Reopen
  <2> QED BY <1>0, <2>1, <2>2 DEF NotesInv, Orderly, Belongs
<1>7. ASSUME NEW content \in Seq(Row), EditGrid(content),
             Orderly(Grid) => Orderly(content)
      PROVE  NotesInv'
  <2>1. Orderly(Grid)
    BY DEF NotesInv, Grid, Page
  <2>2. grid'.rows = content /\ UNCHANGED <<sheet, items, view, save, bankSave>>
    BY <1>7 DEF EditGrid
  <2> QED BY <1>7, <2>1, <2>2 DEF NotesInv, Orderly, Belongs
<1>8. CASE Revert \/ Confirm \/ Hydrate
  <2>1. /\ grid'.rows = <<>> /\ UNCHANGED <<sheet, items, view, bankSave>>
        /\ save' = save \/ save' = Idle
    BY <1>8 DEF Revert, Confirm, Hydrate
  <2> QED BY <1>0, <2>1 DEF NotesInv, Orderly, Belongs
<1>9. CASE StartGridSave \/ FailGrid
  <2>1. /\ grid'.rows = grid.rows
        /\ save'.rows = grid.rows \/ save' = Idle
        /\ UNCHANGED <<sheet, items, view, bankSave>>
    BY <1>9 DEF StartGridSave, FailGrid, ExpenseTypeOK
  <2> QED BY <2>1 DEF NotesInv, Orderly, Belongs
<1>10. CASE WriteGrid
  <2>1. save # Idle /\ save'.rows = save.rows /\ sheet' = save.rows
    BY <1>10, SaveParts DEF WriteGrid, Idle
  <2>2. \A p \in Page : view'[p] = sheet' \/ view'[p] = view[p]
    BY <1>10 DEF WriteGrid, ExpenseTypeOK
  <2>3. UNCHANGED <<items, bankSave, grid>>
    BY <1>10 DEF WriteGrid
  <2> QED BY <2>1, <2>2, <2>3 DEF NotesInv, Orderly, Belongs
<1>11. ASSUME NEW p \in Page, Deliver(p) PROVE NotesInv'
  <2>1. \A q \in Page : view'[q] = sheet \/ view'[q] = view[q]
    BY <1>11 DEF Deliver, ExpenseTypeOK
  <2>2. UNCHANGED <<sheet, items, grid, save, bankSave>>
    BY <1>11 DEF Deliver
  <2> QED BY <2>1, <2>2 DEF NotesInv, Orderly, Belongs
<1>12. ASSUME \/ \E lines \in Statements : Upload(lines)
              \/ Fail
              \/ UNCHANGED expenseVars
       PROVE  UNCHANGED <<sheet, items, view, grid, save>>
              /\ (bankSave' = bankSave \/ bankSave' = Idle)
  BY <1>12 DEF Upload, Fail, expenseVars
<1> QED
  BY <1>1, <1>2, <1>3, <1>4, <1>5, <1>6, <1>7, <1>8, <1>9, <1>10, <1>11, <1>12,
     ExpenseCases

-----------------------------------------------------------------------------
(* What a merge keeps *)

(* A row is taken by one line only. *)
LEMMA MatchesApart ==
  ASSUME NEW content \in Seq(Row), NEW lines, NEW n \in Nat,
         NEW f, Matches(f, n, content, lines),
         NEW j \in 1 .. n, NEW k \in 1 .. n, j < k, f[k] # 0
  PROVE  f[j] # f[k]
<1>1. f[k] = Match(lines[k], content, Taken(f, k))
  BY DEF Matches
<1>3. f[j] \in Taken(f, k)
  <2>1. j \in 1 .. (k - 1)
    OBVIOUS
  <2> QED BY <2>1 DEF Taken
<1>2. f[k] \in Candidates(lines[k], content, Taken(f, k))
  BY <1>1, MatchParts
<1>4. f[k] \notin Taken(f, k)
  BY <1>2 DEF Candidates
<1> QED BY <1>3, <1>4

(* No note is on more rows than before. *)
LEMMA MergedNotCopied ==
  ASSUME NEW content \in Seq(Row), NEW lines \in Seq(Line), NEW x \in Line
  PROVE  Cardinality({i \in DOMAIN Merged(content, lines) : Merged(content, lines)[i].note = x})
           <= Cardinality({i \in DOMAIN content : content[i].note = x})
<1> DEFINE n == Len(lines)
           A == {i \in DOMAIN Merged(content, lines) : Merged(content, lines)[i].note = x}
           B == {i \in DOMAIN content : content[i].note = x}
<1>1. PICK f : /\ Matches(f, n, content, lines)
               /\ Merged(content, lines) =
                    [k \in 1 .. n |->
                       [source |-> lines[k],
                        note |-> IF f[k] = 0 THEN NoNote ELSE content[f[k]].note]]
  BY MergedParts
<1>2. x # NoNote /\ n \in Nat
  BY ExpenseAssumption
<1>3. ASSUME NEW k \in A
      PROVE  k \in 1 .. n /\ f[k] # 0 /\ f[k] \in B
  <2>1. k \in 1 .. n /\ f[k] # 0 /\ content[f[k]].note = x
    BY <1>1, <1>2, <1>3
  <2>2. f[k] \in 0 .. Len(content)
    BY <1>1, <2>1 DEF Matches
  <2> QED BY <2>1, <2>2
<1> HIDE DEF A, B
<1> DEFINE g == [k \in A |-> f[k]]
<1>4. ASSUME NEW j \in A, NEW k \in A, g[j] = g[k] PROVE j = k
  <2>1. f[j] = f[k] /\ j \in 1 .. n /\ k \in 1 .. n /\ f[j] # 0 /\ f[k] # 0
    BY <1>3, <1>4
  <2>2. ~ (j < k) /\ ~ (k < j)
    <3>1. Matches(f, n, content, lines) /\ n \in Nat
      BY <1>1, <1>2
    <3> HIDE DEF n
    <3>2. j < k => f[j] # f[k]
      BY <2>1, <3>1, MatchesApart
    <3>3. k < j => f[k] # f[j]
      BY <2>1, <3>1, MatchesApart
    <3> QED BY <2>1, <3>2, <3>3
  <2> QED BY <1>2, <2>1, <2>2
<1>5. g \in Injection(A, B)
  BY <1>3, <1>4 DEF Injection, IsInjective
<1>6. IsFiniteSet(B)
  <2>1. IsFiniteSet(1 .. Len(content))
    BY FS_Interval
  <2> QED BY <2>1, FS_Subset DEF B
<1>7. IsFiniteSet(A) /\ Cardinality(A) <= Cardinality(B)
  BY <1>5, <1>6, FS_Injection
<1> QED BY <1>7 DEF A, B

LEMMA OneOf ==
  ASSUME NEW n \in Nat, NEW T \in SUBSET (1 .. n), Cardinality(T) = 1
  PROVE  \E o : T = {o}
<1>1. IsFiniteSet(1 .. n)
  BY FS_Interval
<1>2. IsFiniteSet(T)
  BY <1>1, FS_Subset
<1> QED BY <1>2, FS_Singleton

(* A row that is certain of its line goes on as the line's row. *)
LEMMA MergedKeeps ==
  ASSUME NEW content \in Seq(Row), NEW lines \in Seq(Line), NEW r \in Range(content),
         r.note # NoNote, Certain(r, content, lines)
  PROVE  [source |-> IF r.source # None THEN r.source ELSE r.note, note |-> r.note]
           \in Range(Merged(content, lines))
<1> DEFINE n == Len(lines)
           l == IF r.source # None THEN r.source ELSE r.note
<1>1. PICK i \in DOMAIN content : r = content[i]
  BY DEF Range
<1>2. /\ r \in Row
      /\ l \in Range(lines)
      /\ \A m \in Range(lines) : m = l \/ (Key[m] = Key[l] /\ Key[l] # NoKey) => m = l
      /\ r.source # None => Cardinality({k \in DOMAIN content : content[k].source = l}) = 1
      /\ r.source = None =>
           /\ Key[l] # NoKey
           /\ Cardinality({k \in DOMAIN content : KeyOf(content[k]) = Key[l]}) = 1
  <2>1. r \in Row
    BY <1>1
  <2>2. /\ l \in Range(lines)
        /\ \A m \in Range(lines) : m = l \/ (Key[m] = Key[l] /\ Key[l] # NoKey) => m = l
    BY DEF Certain
  <2>3. ASSUME r.source # None
        PROVE  Cardinality({k \in DOMAIN content : content[k].source = l}) = 1
    BY <2>3 DEF Certain
  <2>4. ASSUME r.source = None
        PROVE  /\ Key[l] # NoKey
               /\ Cardinality({k \in DOMAIN content : KeyOf(content[k]) = Key[l]}) = 1
    BY <2>4 DEF Certain
  <2> QED BY <2>1, <2>2, <2>3, <2>4
<1>3. l \in Line /\ None \notin Line
  BY <1>2, ExpenseAssumption DEF Range
<1>4. PICK k \in 1 .. n : lines[k] = l /\ \A j \in 1 .. n : lines[j] = l => k <= j
  <2> DEFINE T == {j \in 1 .. n : lines[j] = l}
  <2>1. T # {} /\ T \in SUBSET Nat
    BY <1>2 DEF Range
  <2>2. PICK j \in T : \A m \in T : j <= m
    BY <2>1, LeastIn
  <2> QED BY <2>2
<1>5. PICK f : /\ Matches(f, n, content, lines)
               /\ Merged(content, lines) =
                    [m \in 1 .. n |->
                       [source |-> lines[m],
                        note |-> IF f[m] = 0 THEN NoNote ELSE content[f[m]].note]]
  BY MergedParts
<1> DEFINE used == Taken(f, k)
<1>6. f[k] = Match(l, content, used)
  BY <1>4, <1>5 DEF Matches
<1>7. KeyOf(r) = Key[l] /\ (r.source = l \/ r.source = None)
  BY <1>2 DEF KeyOf
<1>8. i \notin used
  <2> SUFFICES ASSUME NEW j \in 1 .. (k - 1), f[j] = i PROVE FALSE
    BY DEF Taken
  <2> DEFINE before == Taken(f, j)
  <2>1. j \in 1 .. n /\ lines[j] # l /\ lines[j] \in Range(lines) /\ lines[j] \in Line
    BY <1>4 DEF Range
  <2>2. f[j] = Match(lines[j], content, before)
    BY <1>5, <2>1 DEF Matches
  <2> HIDE DEF before
  <2>3. i # 0
    BY <1>1
  <2>4. i \in Candidates(lines[j], content, before)
    BY <2>2, <2>3, MatchParts
  <2>5. r.source = lines[j] \/ (Key[lines[j]] # NoKey /\ KeyOf(r) = Key[lines[j]])
    BY <1>1, <2>4 DEF Candidates
  <2> QED BY <1>2, <1>3, <1>7, <2>1, <2>5
<1> HIDE DEF used
<1>9. Candidates(l, content, used) = {i}
  <2>1. CASE r.source # None
    <3> DEFINE own == {m \in DOMAIN content : content[m].source = l}
    <3>0. own \in SUBSET (1 .. Len(content)) /\ Len(content) \in Nat /\ Cardinality(own) = 1
      BY <1>2, <2>1
    <3>1. PICK o : own = {o}
      BY <3>0, OneOf
    <3>2. o = i
      BY <1>1, <1>7, <2>1, <3>1
    <3>3. {m \in DOMAIN content \ used : content[m].source = l} = {i}
      BY <1>1, <1>8, <3>1, <3>2
    <3> QED BY <3>3 DEF Candidates
  <2>2. CASE r.source = None
    <3> DEFINE alike == {m \in DOMAIN content : KeyOf(content[m]) = Key[l]}
    <3>0. /\ alike \in SUBSET (1 .. Len(content)) /\ Len(content) \in Nat
          /\ Cardinality(alike) = 1
      BY <1>2, <2>2
    <3>1. PICK o : alike = {o}
      BY <3>0, OneOf
    <3>2. o = i
      BY <1>1, <1>7, <3>1
    <3>3. ASSUME NEW m \in DOMAIN content PROVE content[m].source # l
      <4>1. content[m].source = l => KeyOf(content[m]) = Key[l]
        BY <1>3 DEF KeyOf
      <4> QED BY <1>1, <1>3, <2>2, <3>1, <3>2, <4>1
    <3>4. {m \in DOMAIN content \ used : Key[l] # NoKey /\ KeyOf(content[m]) = Key[l]} = {i}
      BY <1>1, <1>2, <1>8, <2>2, <3>1, <3>2
    <3> QED BY <3>3, <3>4 DEF Candidates
  <2> QED BY <2>1, <2>2
<1>10. f[k] = i
  BY <1>6, <1>9, MatchParts
<1>11. Merged(content, lines)[k] = [source |-> l, note |-> r.note]
       /\ k \in DOMAIN Merged(content, lines)
  <2>1. i # 0
    BY <1>1
  <2> QED BY <1>1, <1>4, <1>5, <1>10, <2>1
<1> QED BY <1>11 DEF Range

-----------------------------------------------------------------------------
ExpenseInv ==
  /\ ExpenseTypeOK
  /\ BankInv
  /\ FollowInv
  /\ NotesInv

(* The documents and pages keep their shapes, the bank page knows what it has
   to save, its three writes are of one upload, and notes stay with their line. *)
THEOREM ExpenseCorrect == ExpenseSpec => []ExpenseInv
<1>1. ExpenseInit => ExpenseInv
  <2> SUFFICES ASSUME ExpenseInit PROVE ExpenseInv
    OBVIOUS
  <2>1. ExpenseTypeOK
    BY ExpenseInitTyped
  <2>2. BankInv
    BY DEF ExpenseInit, BankInv, SavedIsShown
  <2>3. FollowInv
    <3>1. Agree
      BY DEF ExpenseInit, Agree, Sources, Range
    <3> QED BY <3>1 DEF ExpenseInit, FollowInv, SheetFollows, Idle
  <2>4. NotesInv
    <3>1. Orderly(<<>>) /\ \A l \in Line : Belongs(l, None)
      BY DEF Orderly, Belongs
    <3> QED BY <3>1 DEF ExpenseInit, NotesInv, Orderly, Belongs
  <2> QED BY <2>1, <2>2, <2>3, <2>4 DEF ExpenseInv
<1>2. ExpenseInv /\ [ExpenseNext]_expenseVars => ExpenseInv'
  BY ExpenseTyped, BankSteps, FollowSteps, NotesSteps DEF ExpenseInv
<1> QED BY <1>1, <1>2, PTL DEF ExpenseSpec

(* Type correctness of what is stored, and of both pages and their saves. *)
THEOREM ExpensesTyped == ExpenseSpec => []ExpenseTypeOK
<1>1. ExpenseInv => ExpenseTypeOK
  BY DEF ExpenseInv
<1> QED BY <1>1, ExpenseCorrect, PTL

(* A bank page that is not marked as unsaved shows what is stored. *)
THEOREM BankShows == ExpenseSpec => []SavedIsShown
<1>1. ExpenseInv => SavedIsShown
  BY DEF ExpenseInv, BankInv
<1> QED BY <1>1, ExpenseCorrect, PTL

(* Sheet, statement and items are of one upload when the page is clean, although
   they are written one by one and each write may fail. *)
THEOREM SheetsFollow == ExpenseSpec => []SheetFollows
<1>1. ExpenseInv => SheetFollows
  BY DEF ExpenseInv, FollowInv
<1> QED BY <1>1, ExpenseCorrect, PTL

(* What was typed for a line is on no row and no item of a stranger. *)
THEOREM NotesBelong == ExpenseSpec => []NotesOfLine
<1>1. ExpenseInv => NotesOfLine
  <2>1. ASSUME ExpenseInv, NEW row \in Range(sheet), row.source # None
        PROVE  Belongs(row.source, row.note)
    BY <2>1 DEF ExpenseInv, NotesInv, Orderly, Range
  <2>2. ASSUME ExpenseInv, NEW l \in Line PROVE Belongs(l, items[l])
    BY <2>2 DEF ExpenseInv, NotesInv
  <2> QED BY <2>1, <2>2 DEF NotesOfLine, Belongs
<1> QED BY <1>1, ExpenseCorrect, PTL

(* No merge multiplies what was typed. *)
THEOREM NotesMergedOnce == ExpenseSpec => NotesNotCopied
<1>1. ExpenseInv /\ [ExpenseNext]_expenseVars =>
        [WriteSheet =>
           \A n \in Line :
             Cardinality({i \in DOMAIN sheet' : sheet'[i].note = n})
               <= Cardinality({i \in DOMAIN bankSave.base : bankSave.base[i].note = n})
        ]_expenseVars
  <2> SUFFICES ASSUME ExpenseInv, WriteSheet, NEW n \in Line
               PROVE  Cardinality({i \in DOMAIN sheet' : sheet'[i].note = n})
                        <= Cardinality({i \in DOMAIN bankSave.base :
                                          bankSave.base[i].note = n})
    OBVIOUS
  <2>1. bankSave.base \in Seq(Row) /\ bankSave.lines \in Seq(Line)
    BY BankSaveParts DEF ExpenseInv, WriteSheet
  <2>2. sheet' = Merged(bankSave.base, bankSave.lines)
    BY DEF WriteSheet
  <2> QED BY <2>1, <2>2, MergedNotCopied
<1> QED BY <1>1, ExpenseCorrect, PTL DEF ExpenseSpec, NotesNotCopied

(* No merge loses what was typed for a line that it could not mistake. *)
THEOREM WorkIsKept == ExpenseSpec => WorkKept
<1>1. ExpenseInv /\ [ExpenseNext]_expenseVars =>
        [WriteSheet =>
           \A r \in Range(sheet) \intersect Range(bankSave.base) :
             (r.note # NoNote /\ Certain(r, bankSave.base, bankSave.lines)) =>
               [source |-> IF r.source # None THEN r.source ELSE r.note,
                note   |-> r.note] \in Range(sheet')]_expenseVars
  <2> SUFFICES ASSUME ExpenseInv, WriteSheet, NEW r \in Range(bankSave.base),
                      r.note # NoNote, Certain(r, bankSave.base, bankSave.lines)
               PROVE  [source |-> IF r.source # None THEN r.source ELSE r.note,
                       note   |-> r.note] \in Range(sheet')
    OBVIOUS
  <2>1. bankSave.base \in Seq(Row) /\ bankSave.lines \in Seq(Line)
    BY BankSaveParts DEF ExpenseInv, WriteSheet
  <2>2. sheet' = Merged(bankSave.base, bankSave.lines)
    BY DEF WriteSheet
  <2> QED BY <2>1, <2>2, MergedKeeps
<1> QED BY <1>1, ExpenseCorrect, PTL DEF ExpenseSpec, WorkKept
=============================================================================
