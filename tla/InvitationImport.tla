--------------------------- MODULE InvitationImport ---------------------------
(***************************************************************************)
(* POST /api/invitations/import: a table of users is parsed in one go and  *)
(* stored, with the summary of the parse, in one transaction.              *)
(*                                                                         *)
(* Of a row of the table only the username cell and the telegram_id cell   *)
(* matter.  The spreadsheet library is external: a file is a sequence of   *)
(* rows, or has no username column.                                        *)
(***************************************************************************)
EXTENDS Naturals, Sequences, FiniteSets

CONSTANTS
  Names,        \* the usernames that occur, normalised
  MaxRows,      \* bound: the rows of a file
  MaxImports    \* bound: the imports of the task

(* What the username cell may hold besides a name; the row of a "missing"  *)
(* one has another cell that is not empty.                                 *)
Defects == {"blank", "missing", "invalid"}

ASSUME ImportAssumption ==
  /\ Names \cap Defects = {}
  /\ MaxRows \in Nat /\ MaxImports \in Nat

(* A telegram_id is digits, or text that BigInt() rejects. *)
FileRows == [cell : Defects, id : {"digits"}] \cup [cell : Names, id : {"digits", "text"}]
Files == UNION {[1 .. n -> FileRows] : n \in 0 .. MaxRows}

VARIABLES
  upload,       \* where the request is
  file,         \* what it uploads
  imports,      \* rows of InvitationImport, oldest first
  invitees      \* rows of InvitationUser, each with its import

importVars == <<upload, file, imports, invitees>>

Summary == [total : Nat, valid : Nat, invalid : Nat, duplicate : Nat]

ImportTypeOK ==
  /\ upload \in {"none", "parsed", "summarised"}
  /\ file \in Files
  /\ imports \in Seq(Summary) /\ Len(imports) <= MaxImports
  /\ invitees \in Seq([import : 1 .. MaxImports, name : Names, id : {"digits", "text"}])

ImportInit ==
  /\ upload = "none"
  /\ file = <<>>
  /\ imports = <<>>
  /\ invitees = <<>>

-----------------------------------------------------------------------------
(* Mutant of ReadRow: the name is not remembered as seen. *)
ReadRowUnseen(parse, row) ==
  IF row.cell \in Names THEN [parse EXCEPT !.rows = Append(@, row)]
  ELSE IF row.cell = "blank" THEN parse
  ELSE [parse EXCEPT !.invalid = @ + 1]

(* Mutant of ReadRow: the name is not held against the pattern. *)
ReadRowUnchecked(parse, row) ==
  CASE row.cell = "blank" -> parse
    [] row.cell = "missing" -> [parse EXCEPT !.invalid = @ + 1]
    [] row.cell \in parse.seen -> [parse EXCEPT !.duplicate = @ + 1]
    [] OTHER -> [parse EXCEPT !.seen = @ \cup {row.cell}, !.rows = Append(@, row)]

(* The loop over the rows: an empty one is skipped, a missing or invalid   *)
(* name and a name seen before are issues.                                 *)
ReadRow(parse, row) ==
  CASE row.cell = "blank" -> parse
    [] row.cell \in {"missing", "invalid"} -> [parse EXCEPT !.invalid = @ + 1]
    [] row.cell \in parse.seen -> [parse EXCEPT !.duplicate = @ + 1]
    [] OTHER -> [parse EXCEPT !.seen = @ \cup {row.cell}, !.rows = Append(@, row)]

(* The loop, from one row to the next, *)
Parsing(f) ==
  LET parse[n \in 0 .. Len(f)] ==
        IF n = 0 THEN [seen |-> {}, rows |-> <<>>, invalid |-> 0, duplicate |-> 0]
        ELSE ReadRow(parse[n - 1], f[n])
  IN parse

(* and what it ends with. *)
ParseRows(f) == Parsing(f)[Len(f)]

(* totalRows is counted apart from the loop. *)
TotalRows(f) == Cardinality({i \in DOMAIN f : f[i].cell # "blank"})

-----------------------------------------------------------------------------
(* The request comes in; without a username column it is refused. *)
Upload(f) ==
  /\ upload = "none"
  /\ Len(imports) < MaxImports
  /\ upload' = "parsed"
  /\ file' = f
  /\ UNCHANGED <<imports, invitees>>

(* The transaction begins with the row of the import, which nobody else    *)
(* sees before the commit.                                                 *)
InsertSummary ==
  /\ upload = "parsed"
  /\ upload' = "summarised"
  /\ UNCHANGED <<file, imports, invitees>>

(* Mutant of Storable: rows whose telegram_id is no number are stored too. *)
AlwaysStorable(f) == TRUE

(* BigInt() of every telegram_id succeeds. *)
Storable(f) == \A i \in DOMAIN ParseRows(f).rows : ParseRows(f).rows[i].id = "digits"

(* createMany and the commit. *)
Commit ==
  /\ upload = "summarised"
  /\ Storable(file)
  /\ LET parse == ParseRows(file)
         new == [total |-> TotalRows(file), valid |-> Len(parse.rows),
                 invalid |-> parse.invalid, duplicate |-> parse.duplicate]
     IN /\ imports' = Append(imports, new)
        /\ invitees' = invitees \o
             [i \in DOMAIN parse.rows |-> [import |-> Len(imports) + 1,
                                           name |-> parse.rows[i].cell,
                                           id |-> parse.rows[i].id]]
  /\ upload' = "none"
  /\ file' = <<>>

(* The transaction is rolled back: BigInt() throws, a write is rejected,   *)
(* or the process dies.                                                    *)
RollBack ==
  /\ upload \in {"parsed", "summarised"}
  /\ upload' = "none"
  /\ file' = <<>>
  /\ UNCHANGED <<imports, invitees>>

ImportNext ==
  \/ \E f \in Files : Upload(f)
  \/ InsertSummary \/ Commit \/ RollBack

ImportSpec == ImportInit /\ [][ImportNext]_importVars

-----------------------------------------------------------------------------
(* The users that import n stored. *)
RowsOf(n) == {i \in DOMAIN invitees : invitees[i].import = n}

(* What the operator is told of an import is what the task got from it:    *)
(* each row that is not empty is counted once, as valid, invalid or        *)
(* duplicate, the valid ones are exactly the users stored, each of them    *)
(* once and with a telegram_id that is a number.  An import of which       *)
(* anything is refused leaves neither a summary nor users.                 *)
ImportsAddUp ==
  /\ \A n \in DOMAIN imports :
       /\ imports[n].total = imports[n].valid + imports[n].invalid + imports[n].duplicate
       /\ imports[n].valid = Cardinality(RowsOf(n))
       /\ \A i, j \in RowsOf(n) : invitees[i].name = invitees[j].name => i = j
  /\ \A i \in DOMAIN invitees :
       invitees[i].import \in DOMAIN imports /\ invitees[i].id = "digits"
=============================================================================
