----------------------------- MODULE Migration -----------------------------
(***************************************************************************)
(* Cases brought in from another system's export: an upload is analysed,   *)
(* committed row by row, perhaps discarded, and undone as a set.           *)
(*                                                                         *)
(* Every row is a transaction of its own, and so is every other statement  *)
(* of the three handlers: a second click, a second upload of the same      *)
(* export, a discard or an undo comes between any two of them.  A handler  *)
(* may die there (a restart, a lost connection) and leaves what it wrote.  *)
(* A file's rows are given coerced; csv-import.ts is module CsvImport.     *)
(***************************************************************************)
EXTENDS Integers, FiniteSets, Sequences

CONSTANTS
    Upload,         \* rows of case_imports
    Commit,         \* calls of commit
    Discard,        \* calls of discard
    Undo,           \* calls of undo
    Key,            \* source ids
    PortalKey,      \* those a case raised in this portal carries
    NoKey,          \* a row without a source id
    Status,         \* statuses a file may name
    DefaultStatus,  \* 'open'
    Answer,         \* values of a column that becomes a form field
    Silent,         \* a cell the file leaves empty
    Files,          \* contents an upload may have: sequences of rows
    MaxRows         \* bound: rows of a file

RowType == [key: Key \cup PortalKey \cup {NoKey}, status: Status \cup {Silent},
            answer: Answer \cup {Silent}, bad: BOOLEAN]

ASSUME MigrationAssumption ==
    /\ Files \subseteq {f \in Seq(RowType) : Len(f) \in 1..MaxRows}
    /\ MaxRows \in Nat /\ DefaultStatus \in Status
    /\ NoKey \notin Key \cup PortalKey /\ Key \cap PortalKey = {}
    /\ Silent \notin Status \cup Answer

VARIABLES
    import,     \* case_imports
    kase,       \* cases with source = 'import', by the commit and the row that made them
    commit,     \* calls of commit
    discard,    \* calls of discard
    undo,       \* calls of undo
    crossed     \* history: uploads whose discard or undo overlapped a commit

vars == <<import, kase, commit, discard, undo, crossed>>

Case == Commit \X (1..MaxRows)
None == <<>>

Tally == {"imported", "updated", "skipped", "failed"}
NoTally == [t \in Tally |-> 0]

ImportType == [status: {"none", "analysed", "committed", "discarded", "undone"},
               file: Files \cup {None}, held: BOOLEAN, tally: [Tally -> 0..MaxRows]]
NewImport == [status |-> "none", file |-> None, held |-> FALSE, tally |-> NoTally]

(* `of' is import_id, `told' the last status in the case's history, and     *)
(* `overtaken' remembers that an update was decided on an older row.        *)
CaseType == [state: {"none", "live", "deleted"}, of: Upload \cup {None},
             key: Key \cup {NoKey}, status: Status, answer: Answer \cup {Silent},
             told: Status, overtaken: BOOLEAN]
NewCase == [state |-> "none", of |-> None, key |-> NoKey, status |-> DefaultStatus,
            answer |-> Silent, told |-> DefaultStatus, overtaken |-> FALSE]

(* A commit is about to handle row i; `seen' is the case its SELECT found.  *)
CommitType == [pc: {"idle", "row", "looked", "done", "dead"}, upload: Upload \cup {None},
               file: Files \cup {None}, i: 1..(MaxRows + 1), seen: Case \cup {None},
               before: Status, tally: [Tally -> 0..MaxRows]]
NewCommit == [pc |-> "idle", upload |-> None, file |-> None, i |-> 1, seen |-> None,
              before |-> DefaultStatus, tally |-> NoTally]

DiscardType == [pc: {"idle", "loaded", "over"}, upload: Upload \cup {None}]
NewDiscard == [pc |-> "idle", upload |-> None]

(* `list' is what the audit entry will name, `removed' what was deleted.    *)
UndoType == [pc: {"idle", "loaded", "listed", "deleted", "over"},
             upload: Upload \cup {None}, list: SUBSET Case, removed: SUBSET Case]
NewUndo == [pc |-> "idle", upload |-> None, list |-> {}, removed |-> {}]

TypeOK ==
    /\ import \in [Upload -> ImportType]
    /\ kase \in [Case -> CaseType]
    /\ commit \in [Commit -> CommitType]
    /\ discard \in [Discard -> DiscardType]
    /\ undo \in [Undo -> UndoType]
    /\ crossed \subseteq Upload

Init ==
    /\ import = [u \in Upload |-> NewImport]
    /\ kase = [k \in Case |-> NewCase]
    /\ commit = [c \in Commit |-> NewCommit]
    /\ discard = [d \in Discard |-> NewDiscard]
    /\ undo = [n \in Undo |-> NewUndo]
    /\ crossed = {}

Live == {k \in Case : kase[k].state = "live"}
Active(u) == \E c \in Commit : commit[c].upload = u /\ commit[c].pc \in {"row", "looked"}

-----------------------------------------------------------------------------
(* The upload *)

(* analyse: the parsed file is held in `payload' until it is committed.     *)
Analyse(u, f) ==
    /\ import[u].status = "none"
    /\ import' = [import EXCEPT ![u] = [NewImport EXCEPT !.status = "analysed",
                                                         !.file = f, !.held = TRUE]]
    /\ UNCHANGED <<kase, commit, discard, undo, crossed>>

(* discard: refuses a committed import on an unlocked read ...              *)
DiscardLoad(d, u) ==
    /\ discard[d].pc = "idle"
    /\ import[u].status \notin {"none", "committed"}
    /\ discard' = [discard EXCEPT ![d] = [pc |-> "loaded", upload |-> u]]
    /\ UNCHANGED <<import, kase, commit, undo, crossed>>

(* ... and writes by id, whatever has become of the import since.           *)
DiscardWrite(d) ==
    LET u == discard[d].upload IN
    /\ discard[d].pc = "loaded"
    /\ import' = [import EXCEPT ![u].status = "discarded", ![u].held = FALSE]
    /\ discard' = [discard EXCEPT ![d].pc = "over"]
    /\ crossed' = IF Active(u) \/ import[u].status = "committed"
                  THEN crossed \cup {u} ELSE crossed
    /\ UNCHANGED <<kase, commit, undo>>

-----------------------------------------------------------------------------
(* commit *)

(* load and fileOf: not committed, and the parsed file is still held.       *)
CommitLoad(c, u) ==
    /\ commit[c].pc = "idle"
    /\ import[u].status \notin {"none", "committed"}
    /\ import[u].held
    /\ commit' = [commit EXCEPT ![c] = [NewCommit EXCEPT !.pc = "row", !.upload = u,
                                                         !.file = import[u].file]]
    /\ UNCHANGED <<import, kase, discard, undo, crossed>>

More(c) == commit[c].i <= Len(commit[c].file)
RowOf(c) == commit[c].file[commit[c].i]

(* The row is counted under t, and the next one is due.                     *)
Counted(c, t) ==
    [commit EXCEPT ![c].pc = "row", ![c].i = @ + 1, ![c].seen = None,
                   ![c].before = DefaultStatus, ![c].tally[t] = @ + 1]

(* A row that coerceRow could not read is reported and not written.         *)
BadRow(c) ==
    /\ commit[c].pc = "row" /\ More(c) /\ RowOf(c).bad
    /\ commit' = Counted(c, "failed")
    /\ UNCHANGED <<import, kase, discard, undo, crossed>>

(* The source id belongs to a case raised in this portal: left alone.       *)
Conflict(c) ==
    /\ commit[c].pc = "row" /\ More(c) /\ ~ RowOf(c).bad
    /\ RowOf(c).key \in PortalKey
    /\ commit' = Counted(c, "failed")
    /\ UNCHANGED <<import, kase, discard, undo, crossed>>

Holding(key) == {k \in Live : kase[k].key = key /\ key # NoKey}

(* writeCase's SELECT by source id, and what updateImportedCase reads.      *)
LookUp(c) ==
    /\ commit[c].pc = "row" /\ More(c) /\ ~ RowOf(c).bad
    /\ RowOf(c).key \notin PortalKey
    /\ LET held == Holding(RowOf(c).key) IN
       \/ /\ held = {}
          /\ commit' = [commit EXCEPT ![c].pc = "looked"]
       \/ \E k \in held :
             commit' = [commit EXCEPT ![c] = [@ EXCEPT !.pc = "looked", !.seen = k,
                                                       !.before = kase[k].status]]
    /\ UNCHANGED <<import, kase, discard, undo, crossed>>

(* mutant: no unique index *)
IndexAdmitsAll(key) == TRUE

(* cases_external_id_ux: one case per source id, any number without one.    *)
IndexAdmits(key) == Holding(key) = {}

(* mutant: counted as imported although the index refused it *)
OutcomeOfInsertAlways(key) == "imported"

OutcomeOfInsert(key) == IF IndexAdmits(key) THEN "imported" ELSE "failed"

(* writeCase without an earlier case; refused by the index the row fails.   *)
Create(c) ==
    LET k == <<c, commit[c].i>>
        row == RowOf(c)
        status == IF row.status = Silent THEN DefaultStatus ELSE row.status
    IN
    /\ commit[c].pc = "looked" /\ commit[c].seen = None
    /\ kase' = IF IndexAdmits(row.key)
               THEN [kase EXCEPT ![k] = [state |-> "live", of |-> commit[c].upload,
                        key |-> row.key, status |-> status, answer |-> row.answer,
                        told |-> status, overtaken |-> FALSE]]
               ELSE kase
    /\ commit' = Counted(c, OutcomeOfInsert(row.key))
    /\ UNCHANGED <<import, discard, undo, crossed>>

(* COALESCE: what the file is silent about stays.                           *)
Coalesce(new, old) == IF new = Silent THEN old ELSE new

(* mutant: a correction adopts the case *)
ImportIdAdopted(k, u) == u

(* import_id is set when the case is made and by nothing else.              *)
ImportId(k, u) == kase[k].of

(* The row returned by the UPDATE against the one read before it.           *)
StatusMoved(c, k, status) == status # commit[c].before

(***************************************************************************)
(* updateImportedCase from its UPDATE on.  Answers are compared under the  *)
(* row lock, the case's columns against the earlier SELECT.  Only what     *)
(* counts as a change gets a history entry.  A case that is gone fails.    *)
(***************************************************************************)
Correct(c) ==
    LET k == commit[c].seen
        row == RowOf(c)
        status == Coalesce(row.status, kase[k].status)
        answer == Coalesce(row.answer, kase[k].answer)
        changed == StatusMoved(c, k, status) \/ answer # kase[k].answer
    IN
    /\ commit[c].pc = "looked" /\ commit[c].seen # None
    /\ \/ /\ kase[k].state = "live"
          /\ kase' = [kase EXCEPT
                ![k].of = ImportId(k, commit[c].upload), ![k].status = status,
                ![k].answer = answer, ![k].told = IF changed THEN status ELSE @,
                ![k].overtaken = @ \/ kase[k].status # commit[c].before]
          /\ commit' = Counted(c, IF changed THEN "updated" ELSE "skipped")
       \/ /\ kase[k].state = "deleted"
          /\ commit' = Counted(c, "failed")
          /\ UNCHANGED kase
    /\ UNCHANGED <<import, discard, undo, crossed>>

(* The last UPDATE asks for nothing but the id: it commits an import that   *)
(* was discarded or undone since, and lets go of the parsed file.           *)
CommitEnd(c) ==
    LET u == commit[c].upload IN
    /\ commit[c].pc = "row" /\ ~ More(c)
    /\ import' = [import EXCEPT ![u] = [@ EXCEPT !.status = "committed", !.held = FALSE,
                                                 !.tally = commit[c].tally]]
    /\ commit' = [commit EXCEPT ![c].pc = "done"]
    /\ UNCHANGED <<kase, discard, undo, crossed>>

CommitDies(c) ==
    /\ commit[c].pc \in {"row", "looked"}
    /\ commit' = [commit EXCEPT ![c] = [NewCommit EXCEPT !.pc = "dead", !.upload = commit[c].upload]]
    /\ UNCHANGED <<import, kase, discard, undo, crossed>>

-----------------------------------------------------------------------------
(* undo, and the deletion of a single case *)

(* Only a committed import can be undone; asked of an unlocked read.        *)
UndoLoad(n, u) ==
    /\ undo[n].pc = "idle"
    /\ import[u].status = "committed"
    /\ undo' = [undo EXCEPT ![n] = [NewUndo EXCEPT !.pc = "loaded", !.upload = u]]
    /\ UNCHANGED <<import, kase, commit, discard, crossed>>

(* mutant: the cases the file names *)
MadeByKey(u) == {k \in Live : \E i \in DOMAIN import[u].file :
                                  import[u].file[i].key = kase[k].key}

(* By provenance: the cases this upload made.                               *)
MadeBy(u) == {k \in Live : kase[k].of = u}

UndoList(n) ==
    LET u == undo[n].upload IN
    /\ undo[n].pc = "loaded"
    /\ undo' = [undo EXCEPT ![n].pc = "listed", ![n].list = MadeBy(u)]
    /\ crossed' = IF Active(u) THEN crossed \cup {u} ELSE crossed
    /\ UNCHANGED <<import, kase, commit, discard>>

(* DELETE ... WHERE id = ANY(the list).                                     *)
Targets(n) == undo[n].list \cap Live

UndoDelete(n) ==
    LET u == undo[n].upload IN
    /\ undo[n].pc = "listed"
    /\ kase' = [k \in Case |-> IF k \in Targets(n)
                               THEN [NewCase EXCEPT !.state = "deleted"] ELSE kase[k]]
    /\ import' = [import EXCEPT ![u].status = "undone"]
    /\ undo' = [undo EXCEPT ![n].pc = "deleted", ![n].removed = Targets(n)]
    /\ UNCHANGED <<commit, discard, crossed>>

(* The audit entry with the list; an undo that dies before leaves none.     *)
UndoAudit(n) ==
    /\ undo[n].pc = "deleted"
    /\ undo' = [undo EXCEPT ![n].pc = "over"]
    /\ UNCHANGED <<import, kase, commit, discard, crossed>>

(* purge: somebody deletes one imported case for good.                      *)
Purge(k) ==
    /\ kase[k].state = "live"
    /\ kase' = [kase EXCEPT ![k] = [NewCase EXCEPT !.state = "deleted"]]
    /\ UNCHANGED <<import, commit, discard, undo, crossed>>

CommitStep(c) ==
    \/ \E u \in Upload : CommitLoad(c, u)
    \/ BadRow(c) \/ Conflict(c) \/ LookUp(c) \/ Create(c) \/ Correct(c)
    \/ CommitEnd(c) \/ CommitDies(c)

UndoStep(n) ==
    \/ \E u \in Upload : UndoLoad(n, u)
    \/ UndoList(n) \/ UndoDelete(n) \/ UndoAudit(n)

Next ==
    \/ \E u \in Upload, f \in Files : Analyse(u, f)
    \/ \E d \in Discard, u \in Upload : DiscardLoad(d, u)
    \/ \E d \in Discard : DiscardWrite(d)
    \/ \E c \in Commit : CommitStep(c)
    \/ \E n \in Undo : UndoStep(n)
    \/ \E k \in Case : Purge(k)

Spec == Init /\ [][Next]_vars

-----------------------------------------------------------------------------
(* Properties *)

Maker(k) == commit[k[1]].upload

(* writeCase, against a second commit of the same upload, another upload of *)
(* the same export and a repeated commit after a crash: a source id never   *)
(* names two cases.                                                         *)
OneCasePerSourceRow ==
    \A k, l \in Live : kase[k].key = kase[l].key /\ kase[k].key # NoKey => k = l

(* commit's counters: each row of the file is counted once, and what is     *)
(* counted as imported are the cases this commit made, whoever competes.    *)
TalliesAreTrue ==
    \A c \in Commit : commit[c].pc = "done" =>
       LET t == commit[c].tally IN
       /\ t.imported + t.updated + t.skipped + t.failed = Len(commit[c].file)
       /\ t.imported = Cardinality({k \in Case : k[1] = c /\ kase[k].state # "none"})

(* undo: it deletes only what its own upload made, although other uploads   *)
(* corrected those cases and it corrected theirs.                           *)
UndoDeletesItsOwn ==
    \A n \in Undo : \A k \in undo[n].removed : Maker(k) = undo[n].upload

(* undo's audit entry is the last trace of the references: it names every   *)
(* case the transaction removed, also when a commit is still adding some.   *)
AuditNamesWhatIsGone ==
    \A n \in Undo : undo[n].removed \subseteq undo[n].list

(* An imported case can be taken back with its upload: unless a commit died *)
(* half way or a discard or undo crossed one, a case whose upload is at     *)
(* rest belongs to a committed import.                                      *)
CasesCanBeTakenBack ==
    \A k \in Live :
       LET u == Maker(k) IN
       \/ import[u].status = "committed" \/ Active(u) \/ u \in crossed
       \/ \E c \in Commit : commit[c].upload = u /\ commit[c].pc = "dead"

(* The history of an imported case ends at its status, unless two uploads   *)
(* were correcting it at once.                                              *)
HistoryEndsAtTheStatus ==
    \A k \in Live : kase[k].overtaken \/ kase[k].told = kase[k].status

(* An undo takes what it may, and says what it took.                        *)
UndoIsHonest == UndoDeletesItsOwn /\ AuditNamesWhatIsGone

(* What is recorded about an import is true of its cases.                   *)
MigrationInv == TypeOK /\ TalliesAreTrue /\ HistoryEndsAtTheStatus
=============================================================================
