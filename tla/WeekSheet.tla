------------------------------ MODULE WeekSheet ------------------------------
(***************************************************************************)
(* The weekly cash flow sheets of a project (cashflow-weeks-store.tsx),    *)
(* the expense rows they are filled from (SettlementLedgerPage.tsx) and    *)
(* the submission status shown to the administrator.  A week's document is *)
(* written without transaction or version by the page of the expense rows, *)
(* which stores its rows, marks their weeks pending, writes the actual     *)
(* amounts of every week and reports the outcome; and by the clients of    *)
(* the cash flow page, which type amounts, submit and close weeks and      *)
(* append to the history of a variance flag.  The stored rows have other   *)
(* writers, such as the merge of a bank statement (see ExpenseSheet).      *)
(*                                                                         *)
(* Abstractions: what the rows of a week add up to is a value; Empty is no *)
(* row or only zeros, Unclear values are of rows that await a review; the  *)
(* project has one tab of rows; rows are not edited while they are being   *)
(* stored; the status documents of one save are written in one step; a     *)
(* client has one operation under way; who, when and the year are left     *)
(* out.  A definition called a mutant is no part of the model.             *)
(***************************************************************************)
EXTENDS Naturals

CONSTANTS
  Week,
  Value,       \* what the rows of a week may add up to
  Empty,       \* no rows, or zero
  Unclear,     \* values of rows that await a review
  Sync,        \* saves of the page that may be under way at a time
  Client,      \* clients of the cash flow page
  MaxInput,    \* bound on what people do
  Faults       \* whether calls may fail

ASSUME ConstantsAssumption ==
  /\ Week # {}
  /\ Empty \in Value
  /\ Unclear \subseteq Value \ {Empty}
  /\ MaxInput \in Nat
  /\ Faults \in BOOLEAN

Sheet == [projection : Value, actual : Value,
          submitted : BOOLEAN, closed : BOOLEAN, history : SUBSET Nat]
NoSheet == <<>>
Blank == [projection |-> Empty, actual |-> Empty,
          submitted |-> FALSE, closed |-> FALSE, history |-> {}]

Mode == {"projection", "actual"}
SyncState == {"idle", "pending", "review_required", "synced", "sync_failed"}
Status == [planned : BOOLEAN, spent : BOOLEAN, sync : SyncState]

Known == {"unread", "absent", "present", "written", "failed"}
Job == [pc : {"idle", "stored", "syncing"}, rows : [Week -> Value],
        prev : [Week -> Value], known : [Week -> Known]]

Mark == {"none", "submitted", "closed"}
Op == [pc : {"idle", "look", "absent", "present", "status", "mark", "create",
             "dialog", "flag"},
       week : Week, mode : Mode, value : Value, mark : Mark,
       history : SUBSET Nat]

VARIABLES
  doc,      \* [Week -> the document of the week]
  status,   \* [Week -> its submission status]
  rows,     \* [Week -> Value], the stored expense rows
  seen,     \* [Week -> Value], what the page knows to be stored
  typed,    \* [Week -> Value], the rows on the page
  dirty,    \* importDirty: the page has rows it has not stored
  job,      \* [Sync -> where a save of the page is, and its rows]
  op,       \* [Client -> its operation]
  inputs,   \* how much people have done
  torn,     \* weeks whose amounts not only one whole save has dealt with
  rewritten \* weeks whose stored rows others have changed since the page did

vars == <<doc, status, rows, seen, typed, dirty, job, op, inputs, torn, rewritten>>

-----------------------------------------------------------------------------
(* upsertWeekAmounts, in two steps: what getDoc finds, and the write. *)

(* A read that fails counts as a document that is absent. *)
Found(w) == IF doc[w] = NoSheet THEN {"absent"}
            ELSE IF Faults THEN {"absent", "present"} ELSE {"present"}

WithAmounts(s, mode, v) ==
  IF mode = "actual" THEN [s EXCEPT !.actual = v]
  ELSE [s EXCEPT !.projection = v]

(* A mutant: an update writes a sheet of its own without the history. *)
UpsertedWhole(w, mode, v, known) ==
  IF doc[w] # NoSheet /\ known = "present"
  THEN WithAmounts([doc[w] EXCEPT !.history = {}], mode, v)
  ELSE WithAmounts(Blank, mode, v)

(* updateDoc changes the named amounts, setDoc replaces the document. *)
Upserted(w, mode, v, known) ==
  IF doc[w] # NoSheet /\ known = "present" THEN WithAmounts(doc[w], mode, v)
  ELSE WithAmounts(Blank, mode, v)

-----------------------------------------------------------------------------
(* The page of the expense rows *)

IdleJob == [pc |-> "idle", rows |-> [w \in Week |-> Empty],
            prev |-> [w \in Week |-> Empty], known |-> [w \in Week |-> "unread"]]

(* A mutant: weeks that have lost their rows are not written. *)
PayloadOfRows(new, old) == {w \in Week : new[w] # Empty}

(* buildSettlementActualSyncPayload: weeks of the rows and of those before. *)
Payload(new, old) == {w \in Week : new[w] # Empty \/ old[w] # Empty}

Weeks(s) == Payload(job[s].rows, job[s].prev)
Blocked(s) == {w \in Weeks(s) : job[s].rows[w] \in Unclear}
Syncable(s) == Weeks(s) \ Blocked(s)

Storing == \E s \in Sync : job[s].pc = "stored"

Edit(w, v) ==
  /\ inputs < MaxInput
  /\ ~Storing
  /\ v # typed[w]
  /\ typed' = [typed EXCEPT ![w] = v]
  /\ dirty' = TRUE
  /\ inputs' = inputs + 1
  /\ UNCHANGED <<doc, status, rows, seen, job, op, torn, rewritten>>

(* A save, by the person or the timer, may start while an earlier one is
   still writing the amounts of its weeks. *)
Store(s) ==
  /\ dirty
  /\ ~Storing
  /\ job[s].pc = "idle"
  /\ job' = [job EXCEPT ![s] = [pc |-> "stored", rows |-> typed, prev |-> seen,
                                known |-> [w \in Week |-> "unread"]]]
  /\ rows' = typed
  /\ torn' = [w \in Week |->
                IF w \in Payload(typed, seen)
                THEN \E t \in Sync : job[t].pc = "syncing" /\ w \in Weeks(t)
                ELSE torn[w]]
  /\ seen' = typed
  /\ rewritten' = [w \in Week |-> rewritten[w] /\ w \notin Payload(typed, seen)]
  /\ UNCHANGED <<doc, status, typed, dirty, op, inputs>>

Reported(weeks, state) ==
  [w \in Week |-> IF w \in weeks
                  THEN [status[w] EXCEPT !.spent = TRUE, !.sync = state[w]]
                  ELSE status[w]]

MarkPending(s) ==
  /\ job[s].pc = "stored"
  /\ status' = Reported(Weeks(s), [w \in Week |-> "pending"])
  /\ job' = [job EXCEPT ![s] = [@ EXCEPT !.pc = "syncing"]]
  /\ dirty' = FALSE
  /\ UNCHANGED <<doc, rows, seen, typed, op, inputs, torn, rewritten>>

(* The rows are stored, but the page says the save has failed and will save
   them again: then they are also the rows before. *)
PendingFails(s) ==
  /\ Faults
  /\ job[s].pc = "stored"
  /\ \E done \in SUBSET Weeks(s) :
       status' = Reported(done, [w \in Week |-> "pending"])
  /\ job' = [job EXCEPT ![s] = IdleJob]
  /\ torn' = [w \in Week |-> torn[w] \/ w \in Weeks(s)]
  /\ UNCHANGED <<doc, rows, seen, typed, dirty, op, inputs, rewritten>>

Noted(j, w, k) == [j EXCEPT !.known = [@ EXCEPT ![w] = k]]

Look(s, w) ==
  /\ job[s].pc = "syncing"
  /\ w \in Syncable(s)
  /\ job[s].known[w] = "unread"
  /\ \E k \in Found(w) :
       job' = [job EXCEPT ![s] = Noted(@, w, k)]
  /\ UNCHANGED <<doc, status, rows, seen, typed, dirty, op, inputs, torn, rewritten>>

Put(s, w) ==
  /\ job[s].pc = "syncing"
  /\ job[s].known[w] \in {"absent", "present"}
  /\ doc' = [doc EXCEPT ![w] =
               Upserted(w, "actual", job[s].rows[w], job[s].known[w])]
  /\ job' = [job EXCEPT ![s] = Noted(@, w, "written")]
  /\ UNCHANGED <<status, rows, seen, typed, dirty, op, inputs, torn, rewritten>>

PutFails(s, w) ==
  /\ Faults
  /\ job[s].pc = "syncing"
  /\ job[s].known[w] \in {"absent", "present"}
  /\ job' = [job EXCEPT ![s] = Noted(@, w, "failed")]
  /\ UNCHANGED <<doc, status, rows, seen, typed, dirty, op, inputs, torn, rewritten>>

(* One week that failed makes all of them failed. *)
Outcome(s, w) ==
  IF w \in Blocked(s) THEN "review_required"
  ELSE IF \E v \in Week : job[s].known[v] = "failed" THEN "sync_failed"
  ELSE "synced"

(* The blocked weeks are reported first; a report that fails ends the save. *)
Finish(s) ==
  /\ job[s].pc = "syncing"
  /\ \A w \in Syncable(s) : job[s].known[w] \in {"written", "failed"}
  /\ \E done \in SUBSET Weeks(s) :
       /\ Faults \/ done = Weeks(s)
       /\ Blocked(s) \subseteq done \/ done \subseteq Blocked(s)
       /\ status' = Reported(done, [w \in Week |-> Outcome(s, w)])
  /\ job' = [job EXCEPT ![s] = IdleJob]
  /\ UNCHANGED <<doc, rows, seen, typed, dirty, op, inputs, torn, rewritten>>

(* saveBankStatementRows of another page merges a statement into the stored
   rows, and an intake item, a renamed budget code or the migration wizard
   changes some as well: none marks a week of theirs. *)
Rewrite(new) ==
  /\ inputs < MaxInput
  /\ new # rows
  /\ rows' = new
  /\ rewritten' = [w \in Week |-> rewritten[w] \/ new[w] # rows[w]]
  /\ inputs' = inputs + 1
  /\ UNCHANGED <<doc, status, seen, typed, dirty, job, op, torn>>

(* The page gets the stored rows and shows them, unless it is saving rows or
   has edited some; a save that has failed, or reverting, gives those up. *)
Receive ==
  /\ seen' = rows
  /\ \/ /\ ~Storing
        /\ typed' = rows
        /\ dirty' = FALSE
     \/ /\ dirty
        /\ UNCHANGED <<typed, dirty>>
  /\ UNCHANGED <<doc, status, rows, job, op, inputs, torn, rewritten>>

(* The page is left and opened again. *)
Reload ==
  /\ seen' = rows
  /\ typed' = rows
  /\ dirty' = FALSE
  /\ job' = [s \in Sync |-> IdleJob]
  /\ torn' = [w \in Week |->
                torn[w] \/ \E s \in Sync : job[s].pc = "stored" /\ w \in Weeks(s)]
  /\ UNCHANGED <<doc, status, rows, op, inputs, rewritten>>

-----------------------------------------------------------------------------
(* Clients of the cash flow page *)

IdleOp == [pc |-> "idle", week |-> CHOOSE w \in Week : TRUE,
           mode |-> "actual", value |-> Empty, mark |-> "none", history |-> {}]

(* resolveWeeklyAccountingSnapshot: a boolean of the status that is not there
   is read off the sheet. *)
PlanDone(w) ==
  \/ status[w].planned
  \/ /\ doc[w] # NoSheet
     /\ doc[w].projection # Empty \/ doc[w].submitted \/ doc[w].closed

ExpenseDone(w) ==
  \/ status[w].spent
  \/ status[w].sync # "idle"
  \/ doc[w] # NoSheet /\ doc[w].actual # Empty

Begin(c, o) ==
  /\ op' = [op EXCEPT ![c] = o]
  /\ UNCHANGED <<doc, status, rows, seen, typed, dirty, job, torn, rewritten>>

(* flushWeek with drafts, by itself or before a submission. *)
Type(c, w, mode, v, mark) ==
  /\ inputs < MaxInput
  /\ op[c].pc = "idle"
  /\ mark = "none" \/ (mark = "submitted" /\ mode = "actual")
  /\ Begin(c, [IdleOp EXCEPT !.pc = "look", !.week = w, !.mode = mode,
                             !.value = v, !.mark = mark])
  /\ inputs' = inputs + 1

(* submitWeekAsPm without drafts. *)
Submit(c, w) ==
  /\ inputs < MaxInput
  /\ op[c].pc = "idle"
  /\ Begin(c, [IdleOp EXCEPT !.pc = "mark", !.week = w, !.mark = "submitted"])
  /\ inputs' = inputs + 1

(* handleStartCloseWeek: the status is read once, for the dialog. *)
OpenDialog(c, w) ==
  /\ inputs < MaxInput
  /\ op[c].pc = "idle"
  /\ PlanDone(w)
  /\ ExpenseDone(w)
  /\ Begin(c, [IdleOp EXCEPT !.pc = "dialog", !.week = w])
  /\ inputs' = inputs + 1

Close(c, v) ==
  /\ op[c].pc = "dialog"
  /\ UNCHANGED inputs
  /\ \/ Begin(c, [op[c] EXCEPT !.pc = "mark", !.mark = "closed"])
     \/ Begin(c, [op[c] EXCEPT !.pc = "look", !.mode = "projection",
                               !.value = v, !.mark = "closed"])

(* handleFlag, handleReply and handleResolve write the history they know. *)
Flag(c, w) ==
  /\ inputs < MaxInput
  /\ op[c].pc = "idle"
  /\ doc[w] # NoSheet
  /\ Begin(c, [IdleOp EXCEPT !.pc = "flag", !.week = w,
                             !.history = doc[w].history \union {inputs}])
  /\ inputs' = inputs + 1

ClientLook(c) ==
  /\ op[c].pc = "look"
  /\ \E k \in Found(op[c].week) : Begin(c, [op[c] EXCEPT !.pc = k])
  /\ UNCHANGED inputs

ClientPut(c) ==
  LET o == op[c]
      w == o.week
  IN /\ o.pc \in {"absent", "present"}
     /\ doc' = [doc EXCEPT ![w] = Upserted(w, o.mode, o.value, o.pc)]
     /\ torn' = [torn EXCEPT ![w] = @ \/ o.mode = "actual" \/ o.pc = "absent"]
     /\ op' = [op EXCEPT ![c] = [@ EXCEPT !.pc = "status"]]
     /\ UNCHANGED <<status, rows, seen, typed, dirty, job, inputs, rewritten>>

ClientStatus(c) ==
  LET o == op[c]
  IN /\ o.pc = "status"
     /\ status' = [status EXCEPT ![o.week] =
                     IF o.mode = "actual" THEN [@ EXCEPT !.spent = TRUE]
                     ELSE [@ EXCEPT !.planned = TRUE]]
     /\ op' = [op EXCEPT ![c] =
                 IF o.mark = "none" THEN IdleOp ELSE [@ EXCEPT !.pc = "mark"]]
     /\ UNCHANGED <<doc, rows, seen, typed, dirty, job, inputs, torn, rewritten>>

Marked(s, mark) ==
  IF mark = "closed" THEN [s EXCEPT !.closed = TRUE]
  ELSE [s EXCEPT !.submitted = TRUE]

(* submitWeekAsPm and closeWeekAsAdmin update the document; only when it is
   not found do they set a new one, in a second step. *)
ClientMark(c) ==
  LET o == op[c]
  IN /\ o.pc = "mark"
     /\ \/ /\ doc[o.week] # NoSheet
           /\ doc' = [doc EXCEPT ![o.week] = Marked(@, o.mark)]
           /\ op' = [op EXCEPT ![c] = IdleOp]
        \/ /\ doc[o.week] = NoSheet
           /\ op' = [op EXCEPT ![c] = [@ EXCEPT !.pc = "create"]]
           /\ UNCHANGED doc
     /\ UNCHANGED <<status, rows, seen, typed, dirty, job, inputs, torn, rewritten>>

ClientCreate(c) ==
  LET o == op[c]
  IN /\ o.pc = "create"
     /\ doc' = [doc EXCEPT ![o.week] = Marked(Blank, o.mark)]
     /\ torn' = [torn EXCEPT ![o.week] = TRUE]
     /\ op' = [op EXCEPT ![c] = IdleOp]
     /\ UNCHANGED <<status, rows, seen, typed, dirty, job, inputs, rewritten>>

(* A mutant: the flag is written with the whole sheet it was read from. *)
FlaggedAnew(s, history) == [Blank EXCEPT !.history = history]

Flagged(s, history) == [s EXCEPT !.history = history]

ClientFlag(c) ==
  LET o == op[c]
  IN /\ o.pc = "flag"
     /\ doc[o.week] # NoSheet
     /\ doc' = [doc EXCEPT ![o.week] = Flagged(@, o.history)]
     /\ op' = [op EXCEPT ![c] = IdleOp]
     /\ UNCHANGED <<status, rows, seen, typed, dirty, job, inputs, torn, rewritten>>

(* A call fails, the dialog is dismissed or the page is left. *)
Abandon(c) ==
  /\ Faults
  /\ op[c].pc # "idle"
  /\ Begin(c, IdleOp)
  /\ UNCHANGED inputs

-----------------------------------------------------------------------------
Init ==
  /\ doc = [w \in Week |-> NoSheet]
  /\ status = [w \in Week |-> [planned |-> FALSE, spent |-> FALSE, sync |-> "idle"]]
  /\ rows = [w \in Week |-> Empty]
  /\ seen = rows
  /\ typed = rows
  /\ dirty = FALSE
  /\ job = [s \in Sync |-> IdleJob]
  /\ op = [c \in Client |-> IdleOp]
  /\ inputs = 0
  /\ torn = [w \in Week |-> FALSE]
  /\ rewritten = [w \in Week |-> FALSE]

Next ==
  \/ \E w \in Week, v \in Value : Edit(w, v)
  \/ \E s \in Sync : Store(s) \/ MarkPending(s) \/ PendingFails(s) \/ Finish(s)
  \/ \E s \in Sync, w \in Week : Look(s, w) \/ Put(s, w) \/ PutFails(s, w)
  \/ \E new \in [Week -> Value] : Rewrite(new)
  \/ Receive
  \/ Reload
  \/ \E c \in Client, w \in Week : Submit(c, w) \/ OpenDialog(c, w) \/ Flag(c, w)
  \/ \E c \in Client, w \in Week, mode \in Mode, v \in Value, mark \in Mark :
       Type(c, w, mode, v, mark)
  \/ \E c \in Client, v \in Value : Close(c, v)
  \/ \E c \in Client :
       \/ ClientLook(c) \/ ClientPut(c) \/ ClientStatus(c) \/ ClientMark(c)
       \/ ClientCreate(c) \/ ClientFlag(c) \/ Abandon(c)

Spec == Init /\ [][Next]_vars

-----------------------------------------------------------------------------
(* What the variables range over. *)
TypeOK ==
  /\ doc \in [Week -> Sheet \union {NoSheet}]
  /\ status \in [Week -> Status]
  /\ rows \in [Week -> Value]
  /\ seen \in [Week -> Value]
  /\ typed \in [Week -> Value]
  /\ dirty \in BOOLEAN
  /\ job \in [Sync -> Job]
  /\ op \in [Client -> Op]
  /\ inputs \in 0..MaxInput
  /\ torn \in [Week -> BOOLEAN]
  /\ rewritten \in [Week -> BOOLEAN]

(* A week reported as synced shows the stored rows, unless a save of its rows
   is at its start, or two saves overlapped, a save stored its rows and failed
   or was left before it said so, somebody typed over the actual amounts, a
   client took the document for absent (syncImportRowsToCashflow), or others
   have changed its rows since the page stored them (saveBankStatementRows). *)
SyncedMatches ==
  \A w \in Week :
    status[w].sync = "synced" =>
      \/ doc[w] # NoSheet /\ doc[w].actual = rows[w]
      \/ torn[w]
      \/ rewritten[w]
      \/ \E s \in Sync : job[s].pc = "stored" /\ w \in Weeks(s)

(* Somebody is about to set the document of a week that he has not found. *)
TakenForAbsent(w) ==
  \/ \E s \in Sync : job[s].pc = "syncing" /\ job[s].known[w] = "absent"
  \/ \E c \in Client : op[c].week = w /\ op[c].pc \in {"absent", "create"}

(* A submission or a closing is undone, and a projection changed by others than
   those who typed one, only by a writer who took the document for absent. *)
WeekKept ==
  [][\A w \in Week :
       doc[w] # NoSheet /\ ~TakenForAbsent(w) =>
         /\ doc'[w] # NoSheet
         /\ doc[w].submitted => doc'[w].submitted
         /\ doc[w].closed => doc'[w].closed
         /\ \/ doc'[w].projection = doc[w].projection
            \/ \E c \in Client : /\ op[c].pc = "present"
                                 /\ op[c].week = w
                                 /\ op[c].mode = "projection"]_vars

(* An event of the variance history is lost only to such a writer, or to a
   client who had read the history before the event was added. *)
HistoryKept ==
  [][\A w \in Week :
       doc[w] # NoSheet /\ ~TakenForAbsent(w) =>
         \/ doc[w].history \subseteq doc'[w].history
         \/ \E c \in Client : /\ op[c].pc = "flag"
                              /\ op[c].week = w
                              /\ ~(doc[w].history \subseteq op[c].history)]_vars
=============================================================================
