---------------------------- MODULE ExpenseSheet ----------------------------
(***************************************************************************)
(* The expense sheet of a project, which two pages write as a whole: the   *)
(* weekly page saves its grid, and the bank page merges the lines of a     *)
(* statement into the sheet, then stores the statement and an intake item  *)
(* per line, in three writes that fail one by one.  Both work on what the  *)
(* store of their browser (data/portal-store.tsx) last received.           *)
(*                                                                         *)
(* Abstractions: a line stands for the fingerprint of a bank line; what    *)
(* people type in a row is one note, named after the line they typed it    *)
(* for.  A row typed by hand has no source, so its date and counterparty   *)
(* are those of the line it is meant for.  Left out: derived cells and     *)
(* reviews of rows, the tabs of a project, the sync of amounts to the weeks*)
(* and the weekly status (a failure there is a FailGrid after the write),  *)
(* the draft a browser keeps, the triage of items, which no page mounts,   *)
(* and projects used without Firestore.  A definition called a mutant is   *)
(* no part of the model.                                                   *)
(***************************************************************************)
EXTENDS Naturals, SequencesExt

CONSTANTS
  Line,        \* lines of bank statements
  Key,         \* [Line -> date and counterparty of the line]
  NoKey,       \* the key of a line that lacks one of them
  Statements,  \* the statements that may be uploaded or made by editing
  NoNote,      \* nothing typed
  None,        \* no source, no item
  MaxRows,     \* bound on the rows of a grid to which one is added
  MaxTyped,    \* bound on the edits of the grid
  MaxUploads,  \* bound on the uploads and edits of the statement
  MaxFaults    \* bound on the writes that fail

ASSUME ExpenseAssumption ==
  /\ Key \in [Line -> Range(Key)]
  /\ Statements \subseteq Seq(Line) \ {<<>>}
  /\ Line \intersect {NoNote, None} = {} /\ NoNote # None
  /\ {MaxRows, MaxTyped, MaxUploads, MaxFaults} \subseteq Nat

VARIABLES
  sheet,      \* the stored rows
  statement,  \* the stored statement, <<>> if there is none
  items,      \* [Line -> what the stored intake item of the line knows]
  view,       \* [Page -> the sheet as the page's store has it]
  bank,       \* the bank page: what it shows, and whether that is unsaved
  bankSave,   \* the save of the bank page
  grid,       \* the weekly page: its state and rows, if they are not the view
  save,       \* the save of the weekly page
  apart,      \* a closed page or an overwritten sheet left the writes apart
  bounds      \* what is left of the bounds

expenseVars == <<sheet, statement, items, view, bank, bankSave, grid, save, apart,
                 bounds>>

Page == {"bank", "week"}
Notes == Line \union {NoNote}
Row == [source : Line \union {None}, note : Notes]
Idle == [pc |-> "idle"]

ExpenseTypeOK ==
  /\ sheet \in Seq(Row)
  /\ statement \in Statements \union {<<>>}
  /\ items \in [Line -> Notes \union {None}]
  /\ view \in [Page -> Seq(Row)]
  /\ bank \in [shown : Statements \union {<<>>}, dirty : BOOLEAN]
  /\ bankSave \in {Idle} \union [pc : {"sheet", "statement", "items"},
                            lines : Statements, base : Seq(Row)]
  /\ grid \in [state : {"saved", "dirty", "saving", "failed"}, rows : Seq(Row)]
  /\ save \in {Idle} \union [pc : {"write", "confirm"}, rows : Seq(Row)]
  /\ apart \in BOOLEAN
  /\ bounds \in [typed : 0..MaxTyped, uploads : 0..MaxUploads, faults : 0..MaxFaults]

ExpenseInit ==
  /\ sheet = <<>>
  /\ statement = <<>>
  /\ items = [l \in Line |-> None]
  /\ view = [p \in Page |-> <<>>]
  /\ bank = [shown |-> <<>>, dirty |-> FALSE]
  /\ bankSave = Idle
  /\ grid = [state |-> "saved", rows |-> <<>>]
  /\ save = Idle
  /\ apart = FALSE
  /\ bounds = [typed |-> MaxTyped, uploads |-> MaxUploads, faults |-> MaxFaults]

Spend(what) == bounds[what] > 0 /\ bounds' = [bounds EXCEPT ![what] = @ - 1]

Sources(rows) == [i \in DOMAIN rows |-> rows[i].source]

KeyOf(row) ==
  IF row.source # None THEN Key[row.source]
  ELSE IF row.note # NoNote THEN Key[row.note] ELSE NoKey

-----------------------------------------------------------------------------
(* The merge of a statement into the rows of the sheet. *)

(* The unused rows that line l takes first: those of its own source, or if *)
(* there are none those of its date and counterparty.                      *)
Candidates(l, rows, used) ==
  LET free == DOMAIN rows \ used
      own  == {i \in free : rows[i].source = l}
  IN IF own # {} THEN own
     ELSE {i \in free : Key[l] # NoKey /\ KeyOf(rows[i]) = Key[l]}

(* Mutant for WorkKept: rows are looked up by date and counterparty first. *)
MatchKeyFirst(l, rows, used) ==
  LET free  == DOMAIN rows \ used
      alike == {i \in free : Key[l] # NoKey /\ KeyOf(rows[i]) = Key[l]}
      found == IF alike # {} THEN alike ELSE {i \in free : rows[i].source = l}
  IN IF found = {} THEN 0 ELSE Min(found)

(* Mutant for NotesNotCopied: rows that were matched may match again. *)
MatchAgain(l, rows, used) ==
  LET found == Candidates(l, rows, {}) IN IF found = {} THEN 0 ELSE Min(found)

(* Mutant for NotesOfLine: a line without a match takes the next free row. *)
MatchByOrder(l, rows, used) ==
  LET found == Candidates(l, rows, used)
      free  == DOMAIN rows \ used
  IN IF found # {} THEN Min(found) ELSE IF free # {} THEN Min(free) ELSE 0

(* The row that line l goes on, 0 if it gets a new one. *)
Match(l, rows, used) ==
  LET found == Candidates(l, rows, used) IN IF found = {} THEN 0 ELSE Min(found)

(* mergeBankRowsIntoExpenseSheet: one row per line, in the statement's     *)
(* order, with the note of the row it was matched with.                    *)
Merged(rows, lines) ==
  LET match == CHOOSE f \in [DOMAIN lines -> 0..Len(rows)] :
                 \A k \in DOMAIN lines :
                   f[k] = Match(lines[k], rows, {f[j] : j \in 1..(k - 1)})
  IN [k \in DOMAIN lines |->
        [source |-> lines[k], note |-> IF match[k] = 0 THEN NoNote ELSE rows[match[k]].note]]

(* What the item of line l knows after an upload: what it knew, be it       *)
(* nothing, or else what the sheet's last row of that source knows.        *)
ItemOf(l, rows) ==
  LET own == {i \in DOMAIN rows : rows[i].source = l}
  IN CASE items[l] # None -> items[l]
       [] items[l] = None /\ own # {} -> rows[Max(own)].note
       [] OTHER -> NoNote

-----------------------------------------------------------------------------
(* The bank page. *)

(* A file is uploaded or the shown statement is edited, saving or not. *)
Upload(lines) ==
  /\ Spend("uploads")
  /\ lines # bank.shown
  /\ bank' = [shown |-> lines, dirty |-> TRUE]
  /\ UNCHANGED <<sheet, statement, items, view, bankSave, grid, save, apart>>

(* Mutant for BankSettles: a statement that is stored is not saved again. *)
StartSaveChanged ==
  /\ bank.dirty
  /\ bank.shown # statement
  /\ bankSave = Idle
  /\ bankSave' = [pc |-> "sheet", lines |-> bank.shown, base |-> view["bank"]]
  /\ UNCHANGED <<sheet, statement, items, view, bank, grid, save, apart, bounds>>

(* persistSheet, by its timer or the button, calls saveBankStatementRows,  *)
(* which reads the store and merges at once.                               *)
StartSave ==
  /\ bank.dirty
  /\ bankSave = Idle
  /\ bankSave' = [pc |-> "sheet", lines |-> bank.shown, base |-> view["bank"]]
  /\ UNCHANGED <<sheet, statement, items, view, bank, grid, save, apart, bounds>>

WriteSheet ==
  /\ bankSave.pc = "sheet"
  /\ sheet' = Merged(bankSave.base, bankSave.lines)
  /\ view' = [view EXCEPT !["bank"] = sheet']
  /\ bankSave' = [bankSave EXCEPT !.pc = "statement"]
  /\ apart' = FALSE
  /\ UNCHANGED <<statement, items, bank, grid, save, bounds>>

WriteStatement ==
  /\ bankSave.pc = "statement"
  /\ statement' = bankSave.lines
  /\ bankSave' = [bankSave EXCEPT !.pc = "items"]
  /\ UNCHANGED <<sheet, items, view, bank, grid, save, apart, bounds>>

(* Mutant for SavedIsShown: the page is clean, and what it shows stays. *)
FinishQuietly == [bank EXCEPT !.dirty = FALSE]

(* The page is clean again, and therefore shows what is stored. *)
Finished == [shown |-> statement, dirty |-> FALSE]

(* Each item is a write of its own; the page is done if all succeed. *)
WriteItems(done) ==
  /\ bankSave.pc = "items"
  /\ items' = [l \in Line |-> IF l \in done THEN ItemOf(l, bankSave.base)
                                       ELSE items[l]]
  /\ bankSave' = Idle
  /\ IF done = Range(bankSave.lines)
     THEN bank' = Finished /\ UNCHANGED bounds
     ELSE Spend("faults") /\ UNCHANGED bank
  /\ UNCHANGED <<sheet, statement, view, grid, save, apart>>

(* Mutant for SheetFollows: a failed save leaves the page clean. *)
FailClean ==
  /\ bankSave.pc \in {"sheet", "statement"}
  /\ Spend("faults")
  /\ bankSave' = Idle
  /\ bank' = Finished
  /\ UNCHANGED <<sheet, statement, items, view, grid, save, apart>>

(* A write is refused: the page stays dirty, and its timer tries again. *)
Fail ==
  /\ bankSave.pc \in {"sheet", "statement"}
  /\ Spend("faults")
  /\ bankSave' = Idle
  /\ UNCHANGED <<sheet, statement, items, view, bank, grid, save, apart>>

Agree ==
  /\ Sources(sheet) = statement
  /\ \A l \in Range(statement) : items[l] # None

(* The page is closed, with what it had not saved, and opened anew: its    *)
(* store has no sheet until it is delivered.                               *)
Reopen ==
  /\ Spend("faults")
  /\ bankSave' = Idle
  /\ bank' = [shown |-> statement, dirty |-> FALSE]
  /\ view' = [view EXCEPT !["bank"] = <<>>]
  /\ apart' = ~Agree
  /\ UNCHANGED <<sheet, statement, items, grid, save>>

(* The store of a page receives the sheet as it is; rows that are typed in *)
(* the grid stay.                                                          *)
Deliver(p) ==
  /\ view' = [view EXCEPT ![p] = sheet]
  /\ UNCHANGED <<sheet, statement, items, bank, bankSave, grid, save, apart, bounds>>

-----------------------------------------------------------------------------
(* The weekly page. *)

Grid == IF grid.state = "saved" THEN view["week"] ELSE grid.rows

EditGrid(rows) ==
  /\ Spend("typed")
  /\ grid' = [state |-> "dirty", rows |-> rows]
  /\ UNCHANGED <<sheet, statement, items, view, bank, bankSave, save, apart>>

(* Someone types what belongs to the line of a row, ... *)
Fill(i) ==
  /\ Grid[i].source # None
  /\ Grid[i].note = NoNote
  /\ EditGrid([Grid EXCEPT ![i].note = Grid[i].source])

(* ... adds a row for a line that they do not see, ... *)
AddRow(l) ==
  /\ \A row \in Range(Grid) : l \notin {row.source, row.note}
  /\ Len(Grid) < MaxRows
  /\ EditGrid(Append(Grid, [source |-> None, note |-> l]))

(* ... or removes a row. *)
RemoveRow(i) == EditGrid(RemoveAt(Grid, i))

(* The grid is reverted to what the store has. *)
Revert ==
  /\ grid.state = "dirty"
  /\ save = Idle
  /\ grid' = [state |-> "saved", rows |-> <<>>]
  /\ UNCHANGED <<sheet, statement, items, view, bank, bankSave, save, apart, bounds>>

StartGridSave ==
  /\ grid.state \in {"dirty", "failed"}
  /\ save = Idle
  /\ grid' = [grid EXCEPT !.state = "saving"]
  /\ save' = [pc |-> "write", rows |-> grid.rows]
  /\ UNCHANGED <<sheet, statement, items, view, bank, bankSave, apart, bounds>>

WriteGrid ==
  /\ save.pc = "write"
  /\ sheet' = save.rows
  /\ view' = [view EXCEPT !["week"] = save.rows]
  /\ save' = [save EXCEPT !.pc = "confirm"]
  /\ apart' = (apart \/ Sources(save.rows) # Sources(sheet))
  /\ UNCHANGED <<statement, items, bank, bankSave, grid, bounds>>

(* The page takes over what was saved, whatever has been typed meanwhile. *)
Confirm ==
  /\ save.pc = "confirm"
  /\ save' = Idle
  /\ grid' = [state |-> "saved", rows |-> <<>>]
  /\ UNCHANGED <<sheet, statement, items, view, bank, bankSave, apart, bounds>>

FailGrid ==
  /\ save # Idle
  /\ Spend("faults")
  /\ save' = Idle
  /\ grid' = [grid EXCEPT !.state = "failed"]
  /\ UNCHANGED <<sheet, statement, items, view, bank, bankSave, apart>>

(* The change of state runs the effect that syncs the grid with the store, *)
(* at once or when the cell being edited is left: a dirty or saving grid   *)
(* keeps its rows, a failed one is replaced and counts as saved.           *)
Hydrate ==
  /\ grid.state = "failed"
  /\ grid' = [state |-> "saved", rows |-> <<>>]
  /\ UNCHANGED <<sheet, statement, items, view, bank, bankSave, save, apart, bounds>>

BankPage ==
  \/ \E lines \in Statements : Upload(lines)
  \/ StartSave
  \/ WriteSheet
  \/ WriteStatement
  \/ /\ bankSave.pc = "items"
     /\ \E done \in SUBSET Range(bankSave.lines) : WriteItems(done)
  \/ Fail
  \/ Reopen

WeekPage ==
  \/ \E i \in DOMAIN Grid : Fill(i) \/ RemoveRow(i)
  \/ \E l \in Line : AddRow(l)
  \/ Revert
  \/ StartGridSave
  \/ WriteGrid
  \/ Confirm
  \/ FailGrid
  \/ Hydrate

ExpenseNext == BankPage \/ WeekPage \/ \E p \in Page : Deliver(p)

(* The timer of a dirty page saves, and its writes are answered one day:   *)
(* of these steps at most one is enabled at a time.                        *)
Saving ==
  \/ StartSave
  \/ WriteSheet
  \/ WriteStatement
  \/ bankSave.pc = "items" /\ WriteItems(Range(bankSave.lines))

ExpenseSpec == ExpenseInit /\ [][ExpenseNext]_expenseVars /\ WF_expenseVars(Saving)

-----------------------------------------------------------------------------
(* What was typed for a line is found on the row and the item of that line *)
(* or of one with the same date and counterparty, never on a stranger's:   *)
(* rows are matched by identity and not by their order.                    *)
NotesOfLine ==
  LET Fits(l, n) == n \in {NoNote, None, l} \/ (Key[n] = Key[l] /\ Key[l] # NoKey)
  IN /\ \A row \in Range(sheet) : row.source # None => Fits(row.source, row.note)
     /\ \A l \in Line : Fits(l, items[l])

(* A merge takes each row over at most once: nothing typed is multiplied,  *)
(* even if a statement has a line twice.                                   *)
NotesNotCopied ==
  [][WriteSheet =>
       \A n \in Line :
         Cardinality({i \in DOMAIN sheet' : sheet'[i].note = n})
           <= Cardinality({i \in DOMAIN bankSave.base : bankSave.base[i].note = n})
  ]_expenseVars

(* Row r goes on with its line whatever else the sheet holds: it is the     *)
(* only one of that line, and no other line of the statement is like it.   *)
Certain(r, rows, lines) ==
  LET l == IF r.source # None THEN r.source ELSE r.note
      Alike(m) == m = l \/ (Key[m] = Key[l] /\ Key[l] # NoKey)
  IN /\ l \in Range(lines)
     /\ \A m \in Range(lines) : Alike(m) => m = l
     /\ IF r.source # None
        THEN Cardinality({i \in DOMAIN rows : rows[i].source = l}) = 1
        ELSE /\ Key[l] # NoKey
             /\ Cardinality({i \in DOMAIN rows : KeyOf(rows[i]) = Key[l]}) = 1

(* What people typed survives the upload of a statement that still has the *)
(* line, if the merge saw it and did not have to guess between lines of    *)
(* the same date and counterparty.                                         *)
WorkKept ==
  [][WriteSheet =>
       \A r \in Range(sheet) \intersect Range(bankSave.base) :
         (r.note # NoNote /\ Certain(r, bankSave.base, bankSave.lines)) =>
           [source |-> IF r.source # None THEN r.source ELSE r.note,
            note   |-> r.note] \in Range(sheet')]_expenseVars

(* A bank page that is not marked as unsaved shows what is stored. *)
SavedIsShown == ~bank.dirty => bank.shown = statement

(* When the page is clean and no save is under way, sheet, statement and   *)
(* items are of one upload, although they are three writes that fail one   *)
(* by one - unless the page was closed between them or the weekly page     *)
(* has overwritten the rows.                                               *)
SheetFollows == (~bank.dirty /\ bankSave = Idle /\ ~apart) => Agree

(* An upload is stored in the end, without anybody's help: failed saves    *)
(* are repeated.                                                           *)
BankSettles == []<>(~bank.dirty)
=============================================================================
