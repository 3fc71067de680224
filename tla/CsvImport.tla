----------------------------- MODULE CsvImport ------------------------------
(***************************************************************************)
(* An uploaded case export on its way to the database: the columns are     *)
(* given destinations, previewed as the operator changes them              *)
(* (MigrationPage.tsx, migration.service.ts), and each row is coerced      *)
(* (csv-import.ts).  What commit then does with the rows is module         *)
(* Migration.                                                              *)
(*                                                                         *)
(* A file is one row under two or three headings; started over, the        *)
(* operator uploads the same file again.  Every answer of the server       *)
(* travels on its own: answers overtake each other, and those to requests  *)
(* of an upload that was started over come in during the next.             *)
(***************************************************************************)
EXTENDS CsvText

CONSTANTS
    Headings,      \* rows of headings a file may have
    Tables,        \* tables the portal exports and reads back
    MaxPreviews,   \* bound: previews asked for
    MaxUploads     \* bound: uploads of the file

(* analyse refuses a file of fewer than two columns; an export has a row of
   headings, and every row of it has a cell for each.                        *)
ASSUME ImportConstants ==
    /\ \A hs \in Headings : Len(hs) >= 2
    /\ \A table \in Tables :
         /\ table \in Seq(Seq(Seq(Symbols))) /\ table # <<>> /\ table[1] # <<>>
         /\ \A r \in DOMAIN table : Len(table[r]) = Len(table[1])

(* A heading: what normaliseHeader makes of it, the case property it is an
   alias of, the form field it names, the key it would get as a new one.     *)
Heading(header) ==
    CASE header = "Created" -> [case |-> "createdAt", field |-> "", slug |-> "created"]
      [] header = "Due" -> [case |-> "dueAt", field |-> "", slug |-> "due"]
      [] header = "Deadline" -> [case |-> "dueAt", field |-> "", slug |-> "deadline"]
      [] header = "Status" -> [case |-> "progress", field |-> "state", slug |-> "status"]
      [] header = "I am a" -> [case |-> "", field |-> "i_am_a", slug |-> "i_am_a"]
      [] header \in {"Notes", "notes!"} -> [case |-> "", field |-> "", slug |-> "notes"]
      [] header \in {"", "Tenant"} -> [case |-> "", field |-> "", slug |-> "tenant"]

(* What a cell may hold: nothing, a word, an option's wording; dates by the
   orders in which they can be read.                                         *)
CellsOf(header) ==
    CASE header \in {"Created", "Due", "Deadline"} -> {"blank", "13/04", "04/13", "03/04", "iso", "word"}
      [] header = "I am a" -> {"blank", "Consumer"}
      [] header = "Status" -> {"blank", "Closed", "word"}
      [] OTHER -> {"word"}

VARIABLES
    file,       \* headings and cells; <<>> before the upload
    form,       \* the version of the zone's import form
    imports,    \* the status of each upload's row in case_imports
    wizard,     \* the operator's page
    previews,   \* previews asked for
    calls,      \* previews under way: asked for, or answered and travelling
    pressed,    \* the press of Import that is under way
    leaving,    \* uploads whose DELETE is under way
    written,    \* the row commit wrote, and the press of Import it answers
    parsed      \* a table written and read back

importVars == <<file, form, imports, wizard, previews, calls, pressed, leaving, written, parsed>>

NoFile == [headings |-> <<>>, cells |-> <<>>]
Nothing == [target |-> <<>>, order |-> "none", puts |-> {}, issues |-> {}, form |-> 0]
(* Not in the code: "muddled" says that the page may show another preview
   than that of the mapping and the order it holds.                          *)
NoWizard == [step |-> "upload", of |-> 0, mapping |-> <<>>, order |-> "dmy", busy |-> FALSE,
             shown |-> Nothing, muddled |-> FALSE]
NoPress == [of |-> 0, over |-> FALSE, mapping |-> <<>>, order |-> "dmy", shown |-> Nothing,
            muddled |-> FALSE]

ImportInit ==
    /\ file = NoFile /\ form = 1 /\ imports = <<>>
    /\ wizard = NoWizard /\ previews = 0 /\ calls = {} /\ pressed = NoPress /\ leaving = {}
    /\ written = <<>> /\ parsed = <<>>

-----------------------------------------------------------------------------
(* proposeMapping: the first column of a case property's name takes it.      *)
Noise == {"", "Tenant"}
Takes(hs, i) ==
    /\ hs[i] \notin Noise /\ Heading(hs[i]).case # ""
    /\ \A j \in 1 .. i - 1 : Heading(hs[j]).case # Heading(hs[i]).case
proposal(hs, i) ==
    CASE hs[i] \in Noise -> "ignore"
      [] Takes(hs, i) -> Heading(hs[i]).case
      [] OTHER -> IF Heading(hs[i]).field # "" THEN Heading(hs[i]).field
                  ELSE Heading(hs[i]).slug

(* Object.fromEntries: of two columns with the same heading the last counts. *)
LastOf(hs, header) == CHOOSE i \in DOMAIN hs : hs[i] = header /\ \A j \in DOMAIN hs :
                                                    hs[j] = header => j <= i
Proposed(hs) == [i \in DOMAIN hs |-> proposal(hs, LastOf(hs, hs[i]))]

Dates == {"createdAt", "dueAt"}
Readable(value, order) ==
    \/ value = "iso"
    \/ value \in (IF order = "mdy" THEN {"04/13", "03/04"} ELSE {"13/04", "03/04"})

(* detectDateOrder, over the columns proposed as dates.                      *)
detectDateOrder(samples) ==
    LET seen == samples \ {"blank", "word"} IN
    CASE seen = {"iso"} -> "iso"
      [] "13/04" \notin seen /\ "04/13" \in seen -> "mdy"
      [] OTHER -> "dmy"

-----------------------------------------------------------------------------
(* coerceRow: where each cell goes.  A later column overwrites an earlier one
   with the same destination.  An option's wording is stored as its code if
   the form of the moment has the option.                                    *)
Kept(target, value, order, version) ==
    CASE target \in Dates -> IF Readable(value, order) THEN <<value, order>> ELSE <<>>
      [] target = "progress" -> <<IF value = "word" THEN "open" ELSE value, "as is">>
      [] OTHER -> <<IF value = "Consumer" /\ version = 1 THEN "consumer" ELSE value, "as is">>

Filled(f, mapping) == {i \in DOMAIN f.cells : mapping[i] # "ignore" /\ f.cells[i] # "blank"}
Overwritten(f, mapping, order, i) ==
    \E j \in Filled(f, mapping) :
        j > i /\ mapping[j] = mapping[i] /\ Kept(mapping[j], f.cells[j], order, 1) # <<>>
Complaints(f, mapping, order) ==
    {i \in Filled(f, mapping) :
        \/ mapping[i] \in Dates /\ ~Readable(f.cells[i], order)
        \/ mapping[i] = "progress" /\ f.cells[i] = "word"}

coerceRow(f, mapping, order, version) ==
    [target |-> mapping, order |-> order, form |-> version,
     issues |-> Complaints(f, mapping, order),
     puts |-> {<<i, mapping[i], Kept(mapping[i], f.cells[i], order, version)>> :
                 i \in {j \in Filled(f, mapping) :
                     /\ Kept(mapping[j], f.cells[j], order, version) # <<>>
                     /\ ~Overwritten(f, mapping, order, j)}}]

(* "No usable created date": the row is skipped and its number reported.     *)
HasCreated(row) == \E put \in row.puts : put[2] = "createdAt"

-----------------------------------------------------------------------------
(* The wizard                                                               *)

Uploads(hs) ==
    /\ wizard.step = "upload" /\ Len(imports) < MaxUploads /\ parsed = <<>>
    /\ \E cells \in {c \in [DOMAIN hs -> UNION {CellsOf(hs[i]) : i \in DOMAIN hs}] :
                       \A i \in DOMAIN hs : c[i] \in CellsOf(hs[i])} :
         LET f == [headings |-> hs, cells |-> cells]
             mapping == Proposed(hs)
             order == detectDateOrder({cells[i] : i \in {j \in DOMAIN hs :
                                                           proposal(hs, j) \in Dates}})
         IN  /\ file \in {NoFile, f} /\ file' = f
             /\ wizard' = [NoWizard EXCEPT !.step = "review", !.of = Len(imports) + 1,
                             !.mapping = mapping, !.order = order,
                             !.shown = coerceRow(f, mapping, order, form)]
    /\ imports' = Append(imports, "analysed")
    /\ UNCHANGED <<form, previews, calls, pressed, leaving, written, parsed>>

Asks(mapping, order) ==
    /\ previews < MaxPreviews /\ previews' = previews + 1
    /\ calls' = calls \union {[n |-> previews + 1, of |-> wizard.of, mapping |-> mapping,
                               order |-> order, answer |-> Nothing]}
    /\ UNCHANGED <<file, form, imports, pressed, leaving, written, parsed>>

(* A preview or a press of Import is under way, and its end ends "busy".     *)
InBetween == calls # {} \/ pressed # NoPress

(* The heading keys the mapping: all columns that share it move together.    *)
Retargeted(i, target) ==
    [j \in DOMAIN wizard.mapping |->
        IF file.headings[j] = file.headings[i] THEN target ELSE wizard.mapping[j]]

RetargetStale(i, target) ==
    /\ wizard.step = "review" /\ i \in DOMAIN file.headings
    /\ target # wizard.mapping[i]
    /\ wizard' = [wizard EXCEPT !.mapping = Retargeted(i, target), !.busy = TRUE,
                                !.muddled = @ \/ InBetween]
    /\ Asks(wizard.mapping, wizard.order)

retarget(i, target) ==
    /\ wizard.step = "review" /\ i \in DOMAIN file.headings
    /\ target # wizard.mapping[i]
    /\ wizard' = [wizard EXCEPT !.mapping = Retargeted(i, target), !.busy = TRUE,
                                !.muddled = @ \/ InBetween]
    /\ Asks(Retargeted(i, target), wizard.order)

Reorders(order) ==
    /\ wizard.step = "review" /\ order # wizard.order
    /\ wizard' = [wizard EXCEPT !.order = order, !.busy = TRUE, !.muddled = @ \/ InBetween]
    /\ Asks(wizard.mapping, order)

(* reanalyse, against the form of the moment.                                *)
Reanalyses(c) ==
    /\ c.answer = Nothing /\ imports[c.of] = "analysed"
    /\ calls' = (calls \ {c}) \union
                  {[c EXCEPT !.answer = coerceRow(file, c.mapping, c.order, form)]}
    /\ UNCHANGED <<file, form, imports, wizard, previews, pressed, leaving, written, parsed>>

(* An answer arrives, of whichever call: the upload it is about is on the
   page again, and "busy" is over.                                           *)
PreviewArrives(c) ==
    /\ c.answer # Nothing
    /\ calls' = calls \ {c}
    /\ wizard' = [wizard EXCEPT !.of = c.of, !.shown = c.answer, !.busy = FALSE,
                                !.muddled = @ \/ c.of # wizard.of]
    /\ UNCHANGED <<file, form, imports, previews, pressed, leaving, written, parsed>>

PreviewFails(c) ==
    /\ calls' = calls \ {c}
    /\ wizard' = [wizard EXCEPT !.busy = FALSE, !.muddled = @ \/ c.of = wizard.of]
    /\ UNCHANGED <<file, form, imports, previews, pressed, leaving, written, parsed>>

(* Another upload of the zone publishes the import form anew: an option is
   no longer on it.                                                          *)
FormChanges ==
    /\ wizard.step = "review" /\ form = 1 /\ form' = 2
    /\ UNCHANGED <<file, imports, wizard, previews, calls, pressed, leaving, written, parsed>>

-----------------------------------------------------------------------------
(* Importing, and starting over                                             *)

(* Import, with the mapping and the order the page holds.  What two commits
   of an upload do to each other is module Migration: one is under way.      *)
PressesImport ==
    /\ wizard.step = "review" /\ ~wizard.busy /\ pressed = NoPress
    /\ wizard' = [wizard EXCEPT !.busy = TRUE]
    /\ pressed' = [of |-> wizard.of, over |-> FALSE, mapping |-> wizard.mapping,
                   order |-> wizard.order, shown |-> wizard.shown, muddled |-> wizard.muddled]
    /\ UNCHANGED <<file, form, imports, previews, calls, leaving, written, parsed>>

(* commit: the file is read again, unless it was discarded or committed.     *)
Commits ==
    /\ pressed # NoPress /\ imports[pressed.of] = "analysed"
    /\ imports' = [imports EXCEPT ![pressed.of] = "committed"]
    /\ pressed' = [pressed EXCEPT !.over = TRUE]
    /\ LET row == coerceRow(file, pressed.mapping, pressed.order, form)
       IN  written' = IF HasCreated(row) THEN <<[row |-> row, press |-> pressed]>> ELSE written
    /\ UNCHANGED <<file, form, wizard, previews, calls, leaving, parsed>>

(* The result is shown whatever the page shows by then,                      *)
CommitAnswered ==
    /\ pressed.over
    /\ wizard' = [wizard EXCEPT !.step = "done", !.busy = FALSE] /\ pressed' = NoPress
    /\ UNCHANGED <<file, form, imports, previews, calls, leaving, written, parsed>>

(* or the page stays, and "busy" is over.                                    *)
CommitFails ==
    /\ pressed # NoPress /\ pressed' = NoPress
    /\ wizard' = [wizard EXCEPT !.busy = FALSE]
    /\ UNCHANGED <<file, form, imports, previews, calls, leaving, written, parsed>>

(* Discard and Start over are the same button.  The page stays as it is.     *)
PressesDiscard ==
    /\ wizard.step = "review" /\ wizard.of \notin leaving
    /\ leaving' = leaving \union {wizard.of}
    /\ UNCHANGED <<file, form, imports, wizard, previews, calls, pressed, written, parsed>>

IsDiscarded(i) ==
    /\ imports[i] = "analysed"
    /\ imports' = [imports EXCEPT ![i] = "discarded"]
    /\ UNCHANGED <<file, form, wizard, previews, calls, pressed, leaving, written, parsed>>

(* The DELETE is answered, or has failed, with or without effect ("already
   gone is fine"): the page begins anew.                                     *)
BeginsAnew(i) ==
    /\ wizard' = NoWizard /\ leaving' = leaving \ {i}
    /\ UNCHANGED <<file, form, imports, previews, calls, pressed, written, parsed>>

ImportsAnother ==
    /\ wizard.step = "done" /\ wizard' = NoWizard
    /\ UNCHANGED <<file, form, imports, previews, calls, pressed, leaving, written, parsed>>

(* The portal's own export is read by the importer.                          *)
ReadsBack ==
    /\ file = NoFile /\ parsed = <<>>
    /\ \E table \in Tables :
         parsed' = <<[table |-> table, read |-> parseDelimited(decodeUpload(toCsv(table)))]>>
    /\ UNCHANGED <<file, form, imports, wizard, previews, calls, pressed, leaving, written>>

Offered == {"dueAt", "i_am_a", "ignore"}
ImportNext ==
    \/ \E hs \in Headings : Uploads(hs)
    \/ \E i \in 1 .. 3, target \in Offered : retarget(i, target)
    \/ \E order \in {"dmy", "mdy", "iso"} : Reorders(order)
    \/ \E c \in calls : Reanalyses(c) \/ PreviewArrives(c) \/ PreviewFails(c)
    \/ FormChanges \/ PressesImport \/ Commits \/ CommitAnswered \/ CommitFails
    \/ PressesDiscard \/ ImportsAnother \/ \E i \in leaving : IsDiscarded(i) \/ BeginsAnew(i)
    \/ ReadsBack

ImportSpec == ImportInit /\ [][ImportNext]_importVars

-----------------------------------------------------------------------------
(* What is written is what the preview showed when Import was pressed ("what
   is shown is what gets written", migration.service.ts:174), unless, since
   the file was read, the operator asked for a preview while another request
   was under way, one failed, one of an upload started over before came in
   late, or the form changed after it was made.                              *)
WrittenAsPreviewed ==
    written # <<>> =>
        \/ written[1].press.muddled
        \/ written[1].row.form # written[1].press.shown.form
        \/ written[1].row = written[1].press.shown

(* A filled cell of a column that is not ignored is stored or complained of,
   unless a later column has the same destination ("Nothing is dropped unless
   you choose to ignore it", MigrationPage.tsx:318).                         *)
NothingIsLost ==
    written # <<>> =>
        LET row == written[1].row IN
        \A i \in Filled(file, row.target) :
            \/ i \in row.issues
            \/ \E put \in row.puts : put[1] = i
            \/ \E j \in Filled(file, row.target) : j > i /\ row.target[j] = row.target[i]

(* The headings and values of an exported table come back as they were
   written, a formula or a long number with its mark, unless the headings
   hold more of another delimiter than commas outside quotes.                *)
ExportReadsBack ==
    parsed # <<>> =>
        LET table == parsed[1].table IN
        \/ sniffDelimiter(FirstLine(csvRow(Head(table)))) # Comma
        \/ parsed[1].read =
             [headers |-> [i \in DOMAIN Head(table) |-> Trimmed(Safe(Head(table)[i]))],
              rows |-> NotBlank([r \in 1 .. Len(table) - 1 |->
                                   [i \in DOMAIN Head(table) |-> Safe(table[r + 1][i])]])]

ImportInv == WrittenAsPreviewed /\ NothingIsLost /\ ExportReadsBack
=============================================================================
