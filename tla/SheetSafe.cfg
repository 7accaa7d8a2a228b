\* Three lines, two of them alike; two uploads, two edits, one failed write.
SPECIFICATION ExpenseSpec
CONSTANTS
  Line <- Lines
  Key <- Keys
  NoKey = ""
  Statements <- Uploads
  NoNote = "blank"
  None = "none"
  MaxRows = 2
  MaxTyped = 2
  MaxUploads = 2
  MaxFaults = 1
CHECK_DEADLOCK FALSE
INVARIANTS NotesOfLine SavedIsShown SheetFollows
PROPERTIES NotesNotCopied WorkKept BankSettles
