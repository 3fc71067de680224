----------------------------- MODULE CaseExport -----------------------------
(***************************************************************************)
(* The export of the case list: cases.controller.ts settles the columns,   *)
(* cases.service.ts reads the cases a batch at a time, csv-stream.ts       *)
(* writes them to the response as they are read.                           *)
(*                                                                         *)
(* Every batch, and the answers to it, is a transaction of its own, and a  *)
(* download may take minutes: cases are created, purged, closed, reopened  *)
(* and corrected between any two steps, the client stalls or leaves, a     *)
(* query is cancelled, the server stops.  The text of a row is module      *)
(* CsvText.                                                                *)
(***************************************************************************)
EXTENDS Naturals, Sequences, FiniteSets, SequencesExt

CONSTANTS
    MaxCase,       \* cases: their ids are 1 .. MaxCase
    MaxTime,       \* bound: creation times
    BatchSize,     \* rows of a batch
    FieldKeys,     \* questions the forms ask
    MaxChanges     \* bound: changes to the cases while the export runs

ASSUME ExportConstants == {MaxCase, BatchSize} \subseteq Nat \ {0} /\ MaxTime \in Nat

VARIABLES
    rows,      \* cases and the answers held against them
    export,    \* the request
    socket,    \* the response: chunks not yet sent, chunks received
    trail,     \* entries of the audit trail for this export
    changed    \* cases created, purged or edited since it began

exportVars == <<rows, export, socket, trail, changed>>

CaseIds == 1 .. MaxCase
Rows == [row: {"there"}, at: 0 .. MaxTime, open: {TRUE}, keys: SUBSET FieldKeys]
NoCase == [row |-> "none", at |-> 0, open |-> TRUE, keys |-> {}]
NoExport == [at |-> "idle", then |-> "idle", status |-> "any", keys |-> {}, cursor |-> <<>>,
             batch |-> <<>>, lines |-> <<>>, count |-> 0, recorded |-> FALSE, silent |-> FALSE]
Chunk(kind, lines) == [kind |-> kind, lines |-> lines]
NewSocket == [state |-> "open", pending |-> <<>>, got |-> <<>>]

ExportInit ==
    /\ rows \in [CaseIds -> Rows \union {NoCase}]
    /\ export = NoExport /\ socket = NewSocket /\ trail = <<>> /\ changed = {}

-----------------------------------------------------------------------------
(* keyset.ts                                                                *)

Before(a, b) == a[1] < b[1] \/ (a[1] = b[1] /\ a[2] < b[2])
KeyOf(c) == <<rows[c].at, c>>
cursorClause(cursor, c) == cursor # <<>> => Before(KeyOf(c), cursor)

nextCursor(batch) ==
    Last(batch)

(* listFilters, of which the status stands for all.                          *)
Matches(c) == rows[c].row = "there" /\ (export.status = "open" => rows[c].open)

Answers(c) == IF rows[c].row = "there" THEN rows[c].keys ELSE {}

-----------------------------------------------------------------------------
(* csv-stream.ts                                                            *)

Gone == socket.state \in {"left", "cut"}

(* streamCsv catches: a marked end and a broken connection, if there still
   is one.                                                                   *)
abortPartialExport ==
    /\ export' = [export EXCEPT !.at = "failed"]
    /\ socket' = IF Gone THEN socket
                 ELSE [socket EXCEPT !.pending = Append(@, Chunk("marker", <<>>)), !.state = "failing"]
    /\ UNCHANGED <<rows, trail, changed>>

(* writeChunk: the socket takes the chunk; when it is full the writer waits
   for it to drain.                                                          *)
Writes(chunk, q) ==
    /\ socket' = [socket EXCEPT !.pending = Append(@, chunk)]
    /\ \E full \in BOOLEAN :
         export' = IF full THEN [q EXCEPT !.at = "draining", !.then = q.at] ELSE q
    /\ UNCHANGED <<rows, trail, changed>>

Drained ==
    /\ export.at = "draining"
    /\ IF Gone THEN abortPartialExport
       ELSE /\ socket.pending = <<>>
            /\ export' = [export EXCEPT !.at = export.then, !.then = "idle"]
            /\ UNCHANGED <<rows, socket, trail, changed>>

Starts(status) ==
    /\ export = NoExport
    /\ export' = [export EXCEPT !.at = "asking", !.status = status]
    /\ UNCHANGED <<rows, socket, trail, changed>>

(* exportFieldKeys, "before a single row is streamed".                       *)
exportFieldKeys ==
    /\ export.at = "asking"
    /\ export' = [export EXCEPT !.at = "heading",
           !.keys = UNION {Answers(c) : c \in {d \in CaseIds : Matches(d)}}]
    /\ UNCHANGED <<rows, socket, trail, changed>>

WritesHeader ==
    /\ export.at = "heading"
    /\ IF Gone THEN abortPartialExport
       ELSE Writes(Chunk("header", <<>>), [export EXCEPT !.at = "reading"])

(* streamExportRows: one batch, newest first, as many as a batch holds.      *)
Remaining == {KeyOf(c) : c \in {d \in CaseIds : Matches(d) /\ cursorClause(export.cursor, d)}}
NextBatch(batch) ==
    LET left == Remaining \ ToSet(batch) IN
    /\ \A i, j \in DOMAIN batch : i < j => Before(batch[j], batch[i])
    /\ \A key \in left, i \in DOMAIN batch : Before(key, batch[i])
    /\ left # {} => Len(batch) = BatchSize

ReadsBatch ==
    /\ export.at = "reading"
    /\ \E n \in 0 .. BatchSize : \E batch \in [1 .. n -> Remaining] :
         /\ NextBatch(batch)
         /\ export' = [export EXCEPT !.batch = batch,
                          !.at = IF batch = <<>> THEN "completing" ELSE "fields"]
    /\ UNCHANGED <<rows, socket, trail, changed>>

fieldsForCases ==
    /\ export.at = "fields"
    /\ export' = [export EXCEPT !.at = "yielding", !.lines =
           [i \in DOMAIN export.batch |->
              <<export.batch[i][2], Answers(export.batch[i][2]) \intersect export.keys>>]]
    /\ UNCHANGED <<rows, socket, trail, changed>>

(* statement_timeout, a lost connection: the generator throws.               *)
QueryFails == export.at \in {"reading", "fields"} /\ abortPartialExport

WritesBatch ==
    /\ export.at = "yielding"
    /\ IF Gone THEN abortPartialExport
       ELSE Writes(Chunk("rows", export.lines), [export EXCEPT !.at = "counting"])

(* The chunk is out: its rows count, and the generator goes on.              *)
Counts ==
    /\ export.at = "counting"
    /\ export' = [export EXCEPT !.count = @ + Len(export.batch), !.lines = <<>>,
           !.cursor = nextCursor(export.batch),
           !.at = IF Len(export.batch) < BatchSize THEN "completing" ELSE "reading"]
    /\ UNCHANGED <<rows, socket, trail, changed>>

(* onComplete: an export that cannot be recorded is not handed over.         *)
Completes ==
    /\ export.at = "completing"
    /\ \/ Gone /\ abortPartialExport
       \/ /\ ~Gone
          /\ trail' = Append(trail, [complete |-> TRUE, rows |-> export.count])
          /\ export' = [export EXCEPT !.at = "ending", !.recorded = TRUE]
          /\ UNCHANGED <<rows, socket, changed>>
       \/ ~Gone /\ abortPartialExport

Ending ==
    /\ export.at = "ending"
    /\ IF Gone THEN abortPartialExport
       ELSE /\ socket' = [socket EXCEPT !.pending = Append(@, Chunk("end", <<>>)), !.state = "ended"]
            /\ export' = [export EXCEPT !.at = "over"]
            /\ UNCHANGED <<rows, trail, changed>>

RecordsFailureAnyway ==
    /\ export.at = "failed"
    /\ trail' = Append(trail, [complete |-> FALSE, rows |-> export.count])
    /\ export' = [export EXCEPT !.at = "over"]
    /\ UNCHANGED <<rows, socket, changed>>

(* exportCsv after the stream: rows that left are recorded, unless they were
   already; that this entry cannot be written is only logged.                *)
RecordsFailure ==
    /\ export.at = "failed"
    /\ \E written \in BOOLEAN :
         /\ trail' = IF export.recorded \/ ~written THEN trail
                     ELSE Append(trail, [complete |-> FALSE, rows |-> export.count])
         /\ export' = [export EXCEPT !.at = "over", !.silent = ~written /\ ~export.recorded]
    /\ UNCHANGED <<rows, socket, changed>>

-----------------------------------------------------------------------------
(* The other side of the connection, and the rest of the portal             *)

ClientTakes ==
    /\ ~Gone /\ socket.pending # <<>>
    /\ socket' = [socket EXCEPT !.pending = Tail(@), !.got = Append(@, Head(socket.pending))]
    /\ UNCHANGED <<rows, export, trail, changed>>

ClientLeaves ==
    /\ ~Gone /\ export.at # "idle"
    /\ socket' = [socket EXCEPT !.state = "left", !.pending = <<>>]
    /\ UNCHANGED <<rows, export, trail, changed>>

(* The marker went out, or five seconds passed.                              *)
Destroys ==
    /\ socket.state = "failing"
    /\ socket' = [socket EXCEPT !.state = "cut", !.pending = <<>>]
    /\ UNCHANGED <<rows, export, trail, changed>>

ServerStops ==
    /\ export.at \notin {"idle", "over", "stopped"}
    /\ export' = [NoExport EXCEPT !.at = "stopped"]
    /\ socket' = [socket EXCEPT !.state = "cut", !.pending = <<>>]
    /\ UNCHANGED <<rows, trail, changed>>

Changing(c, row) ==
    /\ export.at \notin {"idle", "over", "stopped"}
    /\ Cardinality(changed) < MaxChanges /\ c \notin changed
    /\ rows' = [rows EXCEPT ![c] = row]
    /\ changed' = changed \union {c}
    /\ UNCHANGED <<export, socket, trail>>

(* A new case's created_at is the start of the transaction that made it, or
   for an import the date in the file: any.                                  *)
CaseAppears(c) == rows[c] = NoCase /\ \E row \in Rows : Changing(c, row)
CasePurged(c) == rows[c].row = "there" /\ Changing(c, [NoCase EXCEPT !.row = "purged"])
CaseCloses(c) == rows[c].row = "there" /\ Changing(c, [rows[c] EXCEPT !.open = FALSE])
CaseCorrected(c) ==
    rows[c].row = "there" /\ \E ks \in SUBSET FieldKeys : Changing(c, [rows[c] EXCEPT !.keys = ks])

ExportNext ==
    \/ \E status \in {"any", "open"} : Starts(status)
    \/ exportFieldKeys \/ WritesHeader \/ ReadsBatch \/ fieldsForCases \/ QueryFails
    \/ WritesBatch \/ Drained \/ Counts \/ Completes \/ Ending \/ RecordsFailure
    \/ ClientTakes \/ ClientLeaves \/ Destroys \/ ServerStops
    \/ \E c \in CaseIds : CaseAppears(c) \/ CasePurged(c) \/ CaseCloses(c) \/ CaseCorrected(c)

ExportSpec == ExportInit /\ [][ExportNext]_exportVars

-----------------------------------------------------------------------------
Lines == FlattenSeq([i \in DOMAIN socket.got |-> socket.got[i].lines])
Whole == socket.got # <<>> /\ Last(socket.got).kind = "end"

(* A file that ends as it should holds every case that matched the filters
   and was left alone while it was made, once, with all its answers; none is
   in any file twice ("a duplicated or missing row in a regulatory export",
   keyset.ts:7).                                                             *)
WholeFileIsExact ==
    /\ \A i, j \in DOMAIN Lines : Lines[i][1] = Lines[j][1] => i = j
    /\ Whole => \A c \in CaseIds \ changed : Matches(c) =>
                    \E i \in DOMAIN Lines : Lines[i] = <<c, Answers(c)>>

(* A whole file is on the audit trail with its number of rows, and no export
   is there twice ("handing over personal data with no record of who took
   it", cases.controller.ts:220); a broken one is, unless that entry failed
   too and the server's log is all there is.                                 *)
ExportsAreOnRecord ==
    /\ Len(trail) <= 1
    /\ Whole => trail = <<[complete |-> TRUE, rows |-> Len(Lines)]>>
    /\ export.at = "over" /\ ~export.silent => trail # <<>>

ExportInv == WholeFileIsExact /\ ExportsAreOnRecord
=============================================================================
