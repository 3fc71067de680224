-------------------------- MODULE MigrationProofs --------------------------
(***************************************************************************)
(* The promises of a migration, proved for any number of uploads, commits, *)
(* discards and undos and for files of any length: what each call under    *)
(* way may rely on, and from it the properties of Migration.  And of the   *)
(* file itself: the rows are read from it as they were written (CsvText)   *)
(* and stored as they were previewed (CsvImport).                          *)
(***************************************************************************)
EXTENDS Migration, CsvImport, SequenceTheorems, FiniteSetTheorems, TLAPS

UnderWay == {"row", "looked"}
CasesOf(c) == {k \in Case : k[1] = c /\ kase[k].state # "none"}

(* What is held can be committed; nothing is held once a commit has ended   *)
(* or the upload was discarded or undone.                                   *)
ImportsFit ==
    \A u \in Upload :
        /\ import[u].status # "none" => import[u].file \in Files
        /\ import[u].held => import[u].status = "analysed"

(* A commit is of an upload there is, and has made no case for a row it has *)
(* not come to.                                                             *)
CommitsFit ==
    \A c \in Commit :
        /\ commit[c].pc # "idle" =>
             commit[c].upload \in Upload /\ import[commit[c].upload].status # "none"
        /\ commit[c].pc \in UnderWay \cup {"done"} => commit[c].file \in Files
        /\ commit[c].pc \in UnderWay => commit[c].i <= Len(commit[c].file) + 1
        /\ commit[c].pc = "looked" => More(c) /\ RowOf(c).key \notin PortalKey
        /\ commit[c].pc = "done" => commit[c].i = Len(commit[c].file) + 1
        /\ commit[c].pc = "idle" => \A j \in 1..MaxRows : kase[<<c, j>>].state = "none"
        /\ commit[c].pc \in UnderWay =>
             \A j \in 1..MaxRows : j >= commit[c].i => kase[<<c, j>>].state = "none"

(* The counters of a commit sum up to the rows it has handled.              *)
TalliesFit ==
    \A c \in Commit : commit[c].pc \in UnderWay \cup {"done"} =>
        LET t == commit[c].tally IN
        /\ t.imported + t.updated + t.skipped + t.failed = commit[c].i - 1
        /\ IsFiniteSet(CasesOf(c)) /\ t.imported = Cardinality(CasesOf(c))

(* A case belongs to the upload whose commit made it.                       *)
CasesFit ==
    /\ \A k \in Live : kase[k].of = Maker(k)
    /\ OneCasePerSourceRow
    /\ HistoryEndsAtTheStatus

DiscardsFit ==
    \A d \in Discard : discard[d].pc = "loaded" =>
        discard[d].upload \in Upload /\ import[discard[d].upload].status # "none"

(* An undo is of an upload that holds nothing any more, so that no new      *)
(* commit of it begins; it lists cases of that upload, and, unless a commit *)
(* was still adding some, all that are left.                                *)
UndosFit ==
    \A n \in Undo :
        LET u == undo[n].upload IN
        /\ undo[n].pc \in {"loaded", "listed"} =>
             u \in Upload /\ import[u].status # "none" /\ ~import[u].held
        /\ \A k \in undo[n].list : kase[k].state # "none" /\ Maker(k) = u
        /\ undo[n].removed \subseteq undo[n].list
        /\ undo[n].pc = "loaded" => undo[n].removed = {}
        /\ undo[n].pc = "listed" =>
             \/ u \in crossed
             \/ ~Active(u) /\ \A k \in Live : Maker(k) = u => k \in undo[n].list

IInv ==
    /\ TypeOK
    /\ ImportsFit
    /\ CommitsFit
    /\ TalliesFit
    /\ CasesFit
    /\ DiscardsFit
    /\ UndosFit
    /\ CasesCanBeTakenBack

-----------------------------------------------------------------------------
(* Rows, and the counting of one *)

LEMMA RowFits ==
    ASSUME TypeOK, CommitsFit, NEW c \in Commit, commit[c].pc \in UnderWay, More(c)
    PROVE  /\ commit[c].file \in Files /\ commit[c].file \in Seq(RowType)
           /\ Len(commit[c].file) \in 1..MaxRows
           /\ commit[c].i \in 1..Len(commit[c].file) /\ commit[c].i \in 1..MaxRows
           /\ RowOf(c) \in RowType /\ <<c, commit[c].i>> \in Case
<1>1. commit[c].file \in Files /\ commit[c].file \in Seq(RowType)
      /\ Len(commit[c].file) \in 1..MaxRows
  BY MigrationAssumption DEF CommitsFit
<1>2. commit[c].i \in 1..(MaxRows + 1) /\ MaxRows \in Nat
  BY MigrationAssumption DEF TypeOK, CommitType
<1>3. commit[c].i \in 1..Len(commit[c].file) /\ commit[c].i \in 1..MaxRows
  BY <1>1, <1>2 DEF More
<1>4. RowOf(c) \in RowType
  BY <1>1, <1>3 DEF RowOf
<1> QED BY <1>1, <1>3, <1>4 DEF Case

(* Counting a row changes its commit only, and keeps it within its type.    *)
LEMMA CountingFits ==
    ASSUME TypeOK, CommitsFit, TalliesFit, NEW c \in Commit, commit[c].pc \in UnderWay,
           More(c), NEW t \in Tally, commit' = Counted(c, t)
    PROVE  /\ commit' \in [Commit -> CommitType]
           /\ \A d \in Commit : d # c => commit'[d] = commit[d]
           /\ commit'[c].pc = "row" /\ commit'[c].seen = None
           /\ commit'[c].i = commit[c].i + 1
           /\ commit'[c].file = commit[c].file /\ commit'[c].upload = commit[c].upload
           /\ commit'[c].tally = [commit[c].tally EXCEPT ![t] = @ + 1]
<1> DEFINE T == [commit[c].tally EXCEPT ![t] = @ + 1]
<1>1. commit[c] \in CommitType /\ commit[c].tally \in [Tally -> 0..MaxRows]
  BY DEF TypeOK, CommitType
<1>2. MaxRows \in Nat /\ DefaultStatus \in Status
  BY MigrationAssumption
<1>3. /\ commit[c].tally.imported + commit[c].tally.updated + commit[c].tally.skipped
           + commit[c].tally.failed = commit[c].i - 1
      /\ commit[c].i \in 1..MaxRows
  BY RowFits DEF TalliesFit
<1>4. commit[c].tally[t] + 1 \in 0..MaxRows
  <2>1. \A x \in {"imported", "updated", "skipped", "failed"} : commit[c].tally[x] \in Nat
    BY <1>1, <1>2 DEF Tally
  <2>2. t \in {"imported", "updated", "skipped", "failed"}
    BY DEF Tally
  <2>3. commit[c].tally[t] \in Nat /\ commit[c].tally[t] <= commit[c].i - 1
    BY <1>3, <2>1, <2>2
  <2> QED BY <1>2, <1>3, <2>3
<1>5. T \in [Tally -> 0..MaxRows]
  BY <1>1, <1>4
<1>6. /\ \A d \in Commit : d # c => commit'[d] = commit[d]
      /\ commit'[c] = [commit[c] EXCEPT !.pc = "row", !.i = commit[c].i + 1, !.seen = None,
                                        !.before = DefaultStatus, !.tally = T]
      /\ commit' = [commit EXCEPT ![c] = commit'[c]]
  BY <1>1 DEF Counted, TypeOK, CommitType
<1>7. commit'[c] \in CommitType
  <2>1. commit[c].i + 1 \in 1..(MaxRows + 1)
    BY <1>2, <1>3
  <2> HIDE DEF T
  <2> QED BY <1>1, <1>2, <1>5, <1>6, <2>1 DEF CommitType
<1>8. /\ commit'[c].pc = "row" /\ commit'[c].seen = None /\ commit'[c].i = commit[c].i + 1
      /\ commit'[c].file = commit[c].file /\ commit'[c].upload = commit[c].upload
      /\ commit'[c].tally = T
  BY <1>1, <1>6 DEF CommitType
<1> QED BY <1>6, <1>7, <1>8 DEF TypeOK

-----------------------------------------------------------------------------
(* What a step does to a case *)

LEMMA CreateMakes ==
    ASSUME TypeOK, CommitsFit, NEW c \in Commit, Create(c)
    PROVE  /\ commit[c].pc = "looked" /\ More(c) /\ <<c, commit[c].i>> \in Case
           /\ kase[<<c, commit[c].i>>].state = "none"
           /\ RowOf(c).key \in Key \cup {NoKey}
           /\ IF IndexAdmits(RowOf(c).key)
              THEN /\ kase' \in [Case -> CaseType]
                   /\ kase'[<<c, commit[c].i>>].state = "live"
                   /\ kase'[<<c, commit[c].i>>].of = commit[c].upload
                   /\ kase'[<<c, commit[c].i>>].key = RowOf(c).key
                   /\ kase'[<<c, commit[c].i>>].told = kase'[<<c, commit[c].i>>].status
                   /\ \A k \in Case : k # <<c, commit[c].i>> => kase'[k] = kase[k]
                   /\ commit' = Counted(c, "imported")
              ELSE kase' = kase /\ commit' = Counted(c, "failed")
<1> DEFINE k == <<c, commit[c].i>>
<1>1. commit[c].pc = "looked" /\ commit[c].pc \in UnderWay
  BY DEF Create, UnderWay
<1>2. More(c) /\ RowOf(c).key \notin PortalKey
  BY <1>1 DEF CommitsFit
<1>3. RowOf(c) \in RowType /\ k \in Case /\ commit[c].i \in 1..MaxRows
  BY <1>1, <1>2, RowFits
<1>4. kase[k].state = "none"
  <2>1. commit[c].i >= commit[c].i
    BY <1>3, MigrationAssumption
  <2> QED BY <1>1, <1>3, <2>1 DEF CommitsFit
<1>5. RowOf(c).key \in Key \cup {NoKey}
  BY <1>2, <1>3 DEF RowType
<1>6. ASSUME IndexAdmits(RowOf(c).key)
      PROVE  /\ kase' \in [Case -> CaseType]
             /\ kase'[k].state = "live" /\ kase'[k].of = commit[c].upload
             /\ kase'[k].key = RowOf(c).key /\ kase'[k].told = kase'[k].status
             /\ \A l \in Case : l # k => kase'[l] = kase[l]
             /\ commit' = Counted(c, "imported")
  <2> DEFINE status == IF RowOf(c).status = Silent THEN DefaultStatus ELSE RowOf(c).status
             K == [state |-> "live", of |-> commit[c].upload,
                   key |-> RowOf(c).key, status |-> status, answer |-> RowOf(c).answer,
                   told |-> status, overtaken |-> FALSE]
  <2>1. kase' = [kase EXCEPT ![k] = K]
    BY <1>6 DEF Create
  <2>2. status \in Status /\ RowOf(c).answer \in Answer \cup {Silent}
    BY <1>3, MigrationAssumption DEF RowType
  <2>3. commit[c].upload \in Upload \cup {None}
    BY DEF TypeOK, CommitType
  <2>4. K \in CaseType
    BY <1>5, <2>2, <2>3 DEF CaseType
  <2>5. commit' = Counted(c, "imported")
    BY <1>6 DEF Create, OutcomeOfInsert
  <2> QED BY <1>3, <2>1, <2>4, <2>5 DEF TypeOK
<1>7. ASSUME ~IndexAdmits(RowOf(c).key) PROVE kase' = kase /\ commit' = Counted(c, "failed")
  BY <1>7 DEF Create, OutcomeOfInsert
<1> QED BY <1>1, <1>2, <1>3, <1>4, <1>5, <1>6, <1>7

LEMMA CorrectMoves ==
    ASSUME TypeOK, CommitsFit, NEW c \in Commit, Correct(c)
    PROVE  /\ commit[c].pc = "looked" /\ More(c) /\ commit[c].seen \in Case
           /\ \/ /\ kase[commit[c].seen].state = "live"
                 /\ kase' \in [Case -> CaseType]
                 /\ \A k \in Case : k # commit[c].seen => kase'[k] = kase[k]
                 /\ kase'[commit[c].seen].state = "live"
                 /\ kase'[commit[c].seen].of = kase[commit[c].seen].of
                 /\ kase'[commit[c].seen].key = kase[commit[c].seen].key
                 /\ kase[commit[c].seen].overtaken
                      \/ kase[commit[c].seen].told = kase[commit[c].seen].status
                    => kase'[commit[c].seen].overtaken
                         \/ kase'[commit[c].seen].told = kase'[commit[c].seen].status
              \/ kase' = kase
           /\ \E t \in Tally \ {"imported"} : commit' = Counted(c, t)
<1> DEFINE k == commit[c].seen
           row == RowOf(c)
           status == Coalesce(row.status, kase[k].status)
           answer == Coalesce(row.answer, kase[k].answer)
           changed == StatusMoved(c, k, status) \/ answer # kase[k].answer
<1>1. commit[c].pc = "looked" /\ commit[c].pc \in UnderWay /\ More(c)
  BY DEF Correct, UnderWay, CommitsFit
<1>2. k \in Case /\ kase[k] \in CaseType /\ row \in RowType
  BY <1>1, RowFits DEF Correct, TypeOK, CommitType
<1>3. status \in Status /\ answer \in Answer \cup {Silent}
  BY <1>2 DEF Coalesce, RowType, CaseType
<1>4. ASSUME kase[k].state = "live",
             kase' = [kase EXCEPT
                ![k].of = ImportId(k, commit[c].upload), ![k].status = status,
                ![k].answer = answer, ![k].told = IF changed THEN status ELSE @,
                ![k].overtaken = @ \/ kase[k].status # commit[c].before]
      PROVE  /\ kase' \in [Case -> CaseType]
             /\ \A l \in Case : l # k => kase'[l] = kase[l]
             /\ kase'[k].state = "live" /\ kase'[k].of = kase[k].of /\ kase'[k].key = kase[k].key
             /\ (kase[k].overtaken \/ kase[k].told = kase[k].status)
                  => (kase'[k].overtaken \/ kase'[k].told = kase'[k].status)
  <2> HIDE DEF k, row, status, answer, changed
  <2>1. /\ \A l \in Case : l # k => kase'[l] = kase[l]
        /\ kase'[k] = [kase[k] EXCEPT !.of = ImportId(k, commit[c].upload), !.status = status,
                          !.answer = answer, !.told = IF changed THEN status ELSE kase[k].told,
                          !.overtaken = kase[k].overtaken \/ kase[k].status # commit[c].before]
        /\ kase' = [kase EXCEPT ![k] = kase'[k]]
    BY <1>2, <1>4 DEF TypeOK, CaseType
  <2>2. kase'[k] \in CaseType
    BY <1>2, <1>3, <2>1 DEF CaseType, ImportId
  <2>3. /\ kase'[k].state = kase[k].state /\ kase'[k].of = kase[k].of
        /\ kase'[k].key = kase[k].key /\ kase'[k].status = status
    BY <1>2, <2>1 DEF CaseType, ImportId
  <2>7. kase'[k].told = IF changed THEN status ELSE kase[k].told
    BY <1>2, <2>1 DEF CaseType
  <2>6. kase'[k].overtaken = (kase[k].overtaken \/ kase[k].status # commit[c].before)
    BY <1>2, <2>1 DEF CaseType
  <2>4. ~changed => status = commit[c].before
    BY DEF changed, StatusMoved
  <2>5. kase' \in [Case -> CaseType]
    BY <1>2, <2>1, <2>2 DEF TypeOK
  <2> QED BY <1>4, <2>1, <2>3, <2>4, <2>5, <2>6, <2>7
<1>5. \E t \in Tally \ {"imported"} : commit' = Counted(c, t)
  BY DEF Correct, Tally
<1> QED BY <1>1, <1>2, <1>4, <1>5 DEF Correct

(* A case that is deleted for good.                                         *)
DeletedCase == [NewCase EXCEPT !.state = "deleted"]

LEMMA DeletedFits ==
    /\ DeletedCase \in CaseType /\ DeletedCase.state = "deleted"
BY MigrationAssumption DEF DeletedCase, NewCase, CaseType

(* The four things that can happen to a case in a step.                     *)
Made(k) == \E c \in Commit : /\ Create(c) /\ IndexAdmits(RowOf(c).key)
                             /\ k = <<c, commit[c].i>>
                             /\ kase'[k].state = "live"
                             /\ kase'[k].of = commit[c].upload
                             /\ kase'[k].key = RowOf(c).key
                             /\ kase'[k].told = kase'[k].status
                             /\ kase[k].state = "none"
Corrected(k) ==
    /\ kase[k].state = "live" /\ kase'[k].state = "live"
    /\ kase'[k].of = kase[k].of /\ kase'[k].key = kase[k].key
    /\ kase[k].overtaken \/ kase[k].told = kase[k].status
         => kase'[k].overtaken \/ kase'[k].told = kase'[k].status
Removed(k) == kase[k].state = "live" /\ kase'[k].state = "deleted"

LEMMA CaseSteps ==
    ASSUME TypeOK, CommitsFit, [Next]_vars
    PROVE  /\ kase' \in [Case -> CaseType]
           /\ \A k \in Case : Made(k) \/ Corrected(k) \/ Removed(k) \/ kase'[k] = kase[k]
<1> DEFINE Goal == /\ kase' \in [Case -> CaseType]
                   /\ \A k \in Case : Made(k) \/ Corrected(k) \/ Removed(k) \/ kase'[k] = kase[k]
<1>1. CASE kase' = kase
  BY <1>1 DEF TypeOK
<1>2. ASSUME NEW c \in Commit, Create(c) PROVE Goal
  <2>1. CASE IndexAdmits(RowOf(c).key)
    <3>1. Made(<<c, commit[c].i>>)
      BY <1>2, <2>1, CreateMakes DEF Made
    <3> QED BY <1>2, <2>1, <3>1, CreateMakes
  <2>2. CASE ~IndexAdmits(RowOf(c).key)
    BY <1>1, <1>2, <2>2, CreateMakes
  <2> QED BY <2>1, <2>2
<1>3. ASSUME NEW c \in Commit, Correct(c) PROVE Goal
  <2>1. CASE kase' = kase
    BY <1>1, <2>1
  <2>2. CASE kase' # kase
    <3>1. Corrected(commit[c].seen) /\ kase' \in [Case -> CaseType]
      BY <1>3, <2>2, CorrectMoves DEF Corrected
    <3> QED BY <1>3, <2>2, <3>1, CorrectMoves
  <2> QED BY <2>1, <2>2
<1>4. ASSUME NEW n \in Undo, UndoDelete(n) PROVE Goal
  <2>1. kase' = [k \in Case |-> IF k \in Targets(n) THEN DeletedCase ELSE kase[k]]
    BY <1>4 DEF UndoDelete, DeletedCase
  <2>2. \A k \in Targets(n) : kase[k].state = "live"
    BY DEF Targets, Live
  <2> QED BY <2>1, <2>2, DeletedFits DEF TypeOK, Removed
<1>5. ASSUME NEW l \in Case, Purge(l) PROVE Goal
  <2>1. kase' = [kase EXCEPT ![l] = DeletedCase] /\ kase[l].state = "live"
    BY <1>5 DEF Purge, DeletedCase
  <2> QED BY <2>1, DeletedFits DEF TypeOK, Removed
<1>6. ASSUME NEW c \in Commit, CommitStep(c), ~Create(c), ~Correct(c) PROVE kase' = kase
  BY <1>6 DEF CommitStep, CommitLoad, BadRow, Conflict, LookUp, CommitEnd, CommitDies
<1>7. ASSUME NEW n \in Undo, UndoStep(n), ~UndoDelete(n) PROVE kase' = kase
  BY <1>7 DEF UndoStep, UndoLoad, UndoList, UndoAudit
<1>8. ASSUME \/ \E u \in Upload, f \in Files : Analyse(u, f)
             \/ \E d \in Discard, u \in Upload : DiscardLoad(d, u)
             \/ \E d \in Discard : DiscardWrite(d)
             \/ UNCHANGED vars
      PROVE  kase' = kase
  BY <1>8 DEF Analyse, DiscardLoad, DiscardWrite, vars
<1> QED BY <1>1, <1>2, <1>3, <1>4, <1>5, <1>6, <1>7, <1>8 DEF Next

(* What a step does to a commit: it is counted a row on, or begins, looks   *)
(* its row up, ends or dies.                                                *)
CountsRow(c) ==
    /\ commit[c].pc \in UnderWay /\ More(c)
    /\ \/ Create(c) /\ IndexAdmits(RowOf(c).key) /\ commit' = Counted(c, "imported")
       \/ /\ ~(Create(c) /\ IndexAdmits(RowOf(c).key))
          /\ \E t \in Tally \ {"imported"} : commit' = Counted(c, t)

LEMMA CommitCases ==
    ASSUME TypeOK, CommitsFit, NEW c \in Commit, CommitStep(c)
    PROVE  \/ \E u \in Upload : CommitLoad(c, u)
           \/ CountsRow(c) /\ import' = import
           \/ LookUp(c) \/ CommitEnd(c) \/ CommitDies(c)
<1>1. ASSUME BadRow(c) \/ Conflict(c)
      PROVE  /\ commit[c].pc = "row" /\ More(c) /\ import' = import
             /\ commit' = Counted(c, "failed") /\ "failed" \in Tally \ {"imported"}
  BY <1>1 DEF BadRow, Conflict, Tally
<1>2. CASE BadRow(c) \/ Conflict(c)
  BY <1>1, <1>2 DEF CountsRow, UnderWay, Create
<1>3. CASE Create(c)
  <2>1. commit[c].pc \in UnderWay /\ More(c) /\ import' = import
    BY <1>3, CreateMakes DEF UnderWay, Create
  <2>2. "failed" \in Tally \ {"imported"}
    BY DEF Tally
  <2> QED BY <1>3, <2>1, <2>2, CreateMakes DEF CountsRow
<1>4. CASE Correct(c)
  <2>1. commit[c].pc \in UnderWay /\ More(c) /\ import' = import /\ ~Create(c)
    BY <1>4, CorrectMoves DEF UnderWay, Create, Correct
  <2> QED BY <1>4, <2>1, CorrectMoves DEF CountsRow
<1> QED BY <1>2, <1>3, <1>4 DEF CommitStep

LEMMA CommitTypes ==
    ASSUME TypeOK, CommitsFit, TalliesFit, NEW c \in Commit, CommitStep(c)
    PROVE  /\ commit' \in [Commit -> CommitType]
           /\ \A d \in Commit : d # c => commit'[d] = commit[d]
           /\ commit'[c].pc # "idle"
           /\ commit[c].pc # "idle" => commit'[c].upload = commit[c].upload
           /\ discard' = discard /\ undo' = undo /\ crossed' = crossed
<1> DEFINE Goal == /\ commit' \in [Commit -> CommitType]
                   /\ \A d \in Commit : d # c => commit'[d] = commit[d]
                   /\ commit'[c].pc # "idle"
                   /\ commit[c].pc # "idle" => commit'[c].upload = commit[c].upload
<1>0. /\ commit[c] \in CommitType /\ MaxRows \in Nat /\ DefaultStatus \in Status
      /\ NewCommit \in CommitType
  <2>1. 1 \in 1..(MaxRows + 1) /\ 0 \in 0..MaxRows
    BY MigrationAssumption
  <2>2. NoTally \in [Tally -> 0..MaxRows]
    BY <2>1 DEF NoTally
  <2> QED BY <2>1, <2>2, MigrationAssumption DEF TypeOK, CommitType, NewCommit
<1>1. ASSUME NEW u \in Upload, CommitLoad(c, u) PROVE Goal
  <2>1. import[u].file \in Files \cup {None}
    BY DEF TypeOK, ImportType
  <2>2. [NewCommit EXCEPT !.pc = "row", !.upload = u, !.file = import[u].file] \in CommitType
    BY <1>0, <2>1 DEF CommitType
  <2> QED BY <1>1, <1>0, <2>2 DEF CommitLoad, TypeOK, NewCommit
<1>2. ASSUME CountsRow(c) PROVE Goal
  <2>1. "imported" \in Tally
    BY DEF Tally
  <2>2. PICK t \in Tally : commit' = Counted(c, t)
    BY <1>2, <2>1 DEF CountsRow
  <2>3. commit[c].pc \in UnderWay /\ More(c)
    BY <1>2 DEF CountsRow
  <2>4. /\ commit' \in [Commit -> CommitType]
        /\ \A d \in Commit : d # c => commit'[d] = commit[d]
        /\ commit'[c].pc = "row" /\ commit'[c].upload = commit[c].upload
    BY <2>2, <2>3, CountingFits
  <2> QED BY <2>4
<1>3. ASSUME LookUp(c) PROVE Goal
  <2>1. \A k \in Case : kase[k].status \in Status
    BY DEF TypeOK, CaseType
  <2>2. PICK k \in Case \cup {None}, b \in Status :
            commit' = [commit EXCEPT ![c] = [commit[c] EXCEPT !.pc = "looked", !.seen = k,
                                                              !.before = b]]
    <3>1. CASE commit' = [commit EXCEPT ![c].pc = "looked"]
      <4>1. [commit[c] EXCEPT !.pc = "looked"] =
               [commit[c] EXCEPT !.pc = "looked", !.seen = commit[c].seen,
                                 !.before = commit[c].before]
        BY <1>0 DEF CommitType
      <4>2. commit[c].seen \in Case \cup {None} /\ commit[c].before \in Status
        BY <1>0 DEF CommitType
      <4> QED BY <3>1, <4>1, <4>2
    <3>2. ASSUME NEW k \in Holding(RowOf(c).key),
                 commit' = [commit EXCEPT ![c] = [@ EXCEPT !.pc = "looked", !.seen = k,
                                                           !.before = kase[k].status]]
          PROVE  \E l \in Case \cup {None}, b \in Status :
                    commit' = [commit EXCEPT ![c] = [commit[c] EXCEPT !.pc = "looked",
                                                       !.seen = l, !.before = b]]
      BY <2>1, <3>2 DEF Holding, Live
    <3> QED BY <1>3, <3>1, <3>2 DEF LookUp
  <2>3. [commit[c] EXCEPT !.pc = "looked", !.seen = k, !.before = b] \in CommitType
    BY <1>0 DEF CommitType
  <2>4. /\ commit'[c].pc = "looked" /\ commit'[c].upload = commit[c].upload
        /\ commit' \in [Commit -> CommitType]
    BY <1>0, <2>2, <2>3 DEF TypeOK, CommitType
  <2>5. \A d \in Commit : d # c => commit'[d] = commit[d]
    BY <2>2 DEF TypeOK
  <2> QED BY <2>4, <2>5
<1>4. ASSUME CommitEnd(c) PROVE Goal
  BY <1>0, <1>4 DEF CommitEnd, TypeOK, CommitType
<1>5. ASSUME CommitDies(c) PROVE Goal
  <2>1. commit' = [commit EXCEPT ![c] = [NewCommit EXCEPT !.pc = "dead",
                                                          !.upload = commit[c].upload]]
    BY <1>5 DEF CommitDies
  <2>2. [NewCommit EXCEPT !.pc = "dead", !.upload = commit[c].upload] \in CommitType
    BY <1>0 DEF CommitType
  <2>3. commit'[c].pc = "dead" /\ commit'[c].upload = commit[c].upload
    BY <2>1 DEF TypeOK, NewCommit
  <2>4. /\ commit' \in [Commit -> CommitType]
        /\ \A d \in Commit : d # c => commit'[d] = commit[d]
    BY <2>1, <2>2 DEF TypeOK
  <2> QED BY <2>3, <2>4
<1>6. discard' = discard /\ undo' = undo /\ crossed' = crossed
  BY DEF CommitStep, CommitLoad, BadRow, Conflict, LookUp, Create, Correct, CommitEnd, CommitDies
<1> QED BY <1>1, <1>2, <1>3, <1>4, <1>5, <1>6, CommitCases

-----------------------------------------------------------------------------
(* What a step does to an upload, and the types *)

Begun(u) ==
    /\ import[u].status = "none" /\ import'[u].status = "analysed"
    /\ import'[u].file \in Files
Ended(u) ==
    /\ import[u].status # "none" /\ import'[u].status \in {"committed", "discarded", "undone"}
    /\ import'[u].held = FALSE /\ import'[u].file = import[u].file

LEMMA ImportSteps ==
    ASSUME TypeOK, CommitsFit, DiscardsFit, UndosFit, [Next]_vars
    PROVE  /\ import' \in [Upload -> ImportType]
           /\ \A u \in Upload : Begun(u) \/ Ended(u) \/ import'[u] = import[u]
<1> DEFINE Goal == /\ import' \in [Upload -> ImportType]
                   /\ \A u \in Upload : Begun(u) \/ Ended(u) \/ import'[u] = import[u]
<1>0. /\ \A u \in Upload : import[u] \in ImportType
      /\ MaxRows \in Nat
  BY MigrationAssumption DEF TypeOK
<1>1. CASE import' = import
  BY <1>1 DEF TypeOK
<1>2. ASSUME NEW u \in Upload, NEW f \in Files, Analyse(u, f) PROVE Goal
  <2>1. NewImport \in ImportType
    BY <1>0 DEF NewImport, ImportType, NoTally
  <2>2. [NewImport EXCEPT !.status = "analysed", !.file = f, !.held = TRUE] \in ImportType
    BY <2>1 DEF ImportType
  <2>3. import' \in [Upload -> ImportType]
    BY <1>2, <2>2 DEF Analyse, TypeOK
  <2>4. Begun(u) /\ \A v \in Upload : v # u => import'[v] = import[v]
    BY <1>2 DEF Analyse, TypeOK, Begun, NewImport
  <2> QED BY <2>3, <2>4
<1>3. ASSUME NEW d \in Discard, DiscardWrite(d) PROVE Goal
  <2> DEFINE u == discard[d].upload
  <2>1. u \in Upload /\ import[u].status # "none"
    BY <1>3 DEF DiscardWrite, DiscardsFit
  <2>2. import' = [import EXCEPT ![u].status = "discarded", ![u].held = FALSE]
    BY <1>3 DEF DiscardWrite
  <2> HIDE DEF u
  <2>3. import' \in [Upload -> ImportType]
    BY <1>0, <2>1, <2>2 DEF TypeOK, ImportType
  <2>4. Ended(u) /\ \A v \in Upload : v # u => import'[v] = import[v]
    BY <1>0, <2>1, <2>2 DEF TypeOK, ImportType, Ended
  <2> QED BY <2>3, <2>4
<1>4. ASSUME NEW c \in Commit, CommitEnd(c) PROVE Goal
  <2> DEFINE u == commit[c].upload
  <2>1. u \in Upload /\ import[u].status # "none"
    BY <1>4 DEF CommitEnd, CommitsFit
  <2>2. import' = [import EXCEPT ![u] = [@ EXCEPT !.status = "committed", !.held = FALSE,
                                                  !.tally = commit[c].tally]]
    BY <1>4 DEF CommitEnd
  <2>3. commit[c].tally \in [Tally -> 0..MaxRows]
    BY DEF TypeOK, CommitType
  <2> HIDE DEF u
  <2>4. import' \in [Upload -> ImportType]
    BY <1>0, <2>1, <2>2, <2>3 DEF TypeOK, ImportType
  <2>5. Ended(u) /\ \A v \in Upload : v # u => import'[v] = import[v]
    BY <1>0, <2>1, <2>2 DEF TypeOK, ImportType, Ended
  <2> QED BY <2>4, <2>5
<1>5. ASSUME NEW n \in Undo, UndoDelete(n) PROVE Goal
  <2> DEFINE u == undo[n].upload
  <2>1. u \in Upload /\ import[u].status # "none" /\ ~import[u].held
    BY <1>5 DEF UndoDelete, UndosFit
  <2>2. import' = [import EXCEPT ![u].status = "undone"]
    BY <1>5 DEF UndoDelete
  <2> HIDE DEF u
  <2>3. import' \in [Upload -> ImportType]
    BY <1>0, <2>1, <2>2 DEF TypeOK, ImportType
  <2>4. import[u].held \in BOOLEAN
    BY <1>0, <2>1 DEF ImportType
  <2>5. import[u].held = FALSE
    BY <2>1, <2>4
  <2>6. Ended(u) /\ \A v \in Upload : v # u => import'[v] = import[v]
    BY <1>0, <2>1, <2>2, <2>5 DEF TypeOK, ImportType, Ended
  <2> QED BY <2>3, <2>6
<1>6. ASSUME NEW c \in Commit, CommitStep(c), ~CommitEnd(c) PROVE import' = import
  BY <1>6 DEF CommitStep, CommitLoad, BadRow, Conflict, LookUp, Create, Correct, CommitDies
<1>7. ASSUME NEW n \in Undo, UndoStep(n), ~UndoDelete(n) PROVE import' = import
  BY <1>7 DEF UndoStep, UndoLoad, UndoList, UndoAudit
<1>8. ASSUME \/ \E d \in Discard, u \in Upload : DiscardLoad(d, u)
             \/ \E k \in Case : Purge(k)
             \/ UNCHANGED vars
      PROVE  import' = import
  BY <1>8 DEF DiscardLoad, Purge, vars
<1> QED BY <1>1, <1>2, <1>3, <1>4, <1>5, <1>6, <1>7, <1>8 DEF Next

LEMMA StepIsTyped ==
    ASSUME TypeOK, CommitsFit, TalliesFit, DiscardsFit, UndosFit, [Next]_vars
    PROVE  TypeOK'
<1> DEFINE Rest == /\ commit' \in [Commit -> CommitType]
                   /\ discard' \in [Discard -> DiscardType]
                   /\ undo' \in [Undo -> UndoType]
                   /\ crossed' \subseteq Upload
<1>1. ASSUME NEW c \in Commit, CommitStep(c) PROVE Rest
  BY <1>1, CommitTypes DEF TypeOK
<1>2. ASSUME NEW n \in Undo, UndoStep(n) PROVE Rest
  <2>1. undo[n] \in UndoType
    BY DEF TypeOK
  <2>2. ASSUME NEW u \in Upload, UndoLoad(n, u) PROVE Rest
    <3>1. [NewUndo EXCEPT !.pc = "loaded", !.upload = u] \in UndoType
      BY DEF NewUndo, UndoType
    <3> QED BY <2>2, <3>1 DEF UndoLoad, TypeOK
  <2>3. CASE UndoList(n)
    <3>1. MadeBy(undo[n].upload) \subseteq Case
      BY DEF MadeBy, Live
    <3>2. undo' \in [Undo -> UndoType]
      BY <2>1, <2>3, <3>1 DEF UndoList, TypeOK, UndoType
    <3>3. undo[n].upload \in Upload
      BY <2>3 DEF UndoList, UndosFit
    <3> QED BY <2>3, <3>2, <3>3 DEF UndoList, TypeOK
  <2>4. CASE UndoDelete(n)
    <3>1. Targets(n) \subseteq Case
      BY DEF Targets, Live
    <3>2. undo' \in [Undo -> UndoType]
      BY <2>1, <2>4, <3>1 DEF UndoDelete, TypeOK, UndoType
    <3> QED BY <2>4, <3>2 DEF UndoDelete, TypeOK
  <2>5. CASE UndoAudit(n)
    BY <2>1, <2>5 DEF UndoAudit, TypeOK, UndoType
  <2> QED BY <1>2, <2>2, <2>3, <2>4, <2>5 DEF UndoStep
<1>3. ASSUME NEW d \in Discard, NEW u \in Upload, DiscardLoad(d, u) PROVE Rest
  BY <1>3 DEF DiscardLoad, TypeOK, DiscardType
<1>4. ASSUME NEW d \in Discard, DiscardWrite(d) PROVE Rest
  <2>1. discard[d].upload \in Upload
    BY <1>4 DEF DiscardWrite, DiscardsFit
  <2> QED BY <1>4, <2>1 DEF DiscardWrite, TypeOK, DiscardType
<1>5. ASSUME \/ \E u \in Upload, f \in Files : Analyse(u, f)
             \/ \E k \in Case : Purge(k)
             \/ UNCHANGED vars
      PROVE  Rest
  BY <1>5 DEF Analyse, Purge, vars, TypeOK
<1>6. Rest
  BY <1>1, <1>2, <1>3, <1>4, <1>5 DEF Next
<1> QED BY <1>6, CaseSteps, ImportSteps DEF TypeOK

-----------------------------------------------------------------------------
(* Cases, their makers, and what stays *)

LEMMA OneIsMade ==
    ASSUME TypeOK, CommitsFit, NEW k \in Case, NEW l \in Case, Made(k), Made(l)
    PROVE  k = l
<1>1. PICK c \in Commit : Create(c) /\ IndexAdmits(RowOf(c).key) /\ k = <<c, commit[c].i>>
  BY DEF Made
<1>2. l # k => kase'[l] = kase[l]
  BY <1>1, CreateMakes
<1> QED BY <1>2 DEF Made

LEMMA CasesOfStep ==
    ASSUME TypeOK, CommitsFit, [Next]_vars, NEW c \in Commit
    PROVE  /\ CasesOf(c)' = IF Create(c) /\ IndexAdmits(RowOf(c).key)
                            THEN CasesOf(c) \cup {<<c, commit[c].i>>} ELSE CasesOf(c)
           /\ Create(c) => <<c, commit[c].i>> \in Case \ CasesOf(c)
<1>1. \A k \in Case : k[1] = c /\ Made(k) =>
          Create(c) /\ IndexAdmits(RowOf(c).key) /\ k = <<c, commit[c].i>>
  <2> SUFFICES ASSUME NEW k \in Case, k[1] = c, Made(k)
               PROVE  Create(c) /\ IndexAdmits(RowOf(c).key) /\ k = <<c, commit[c].i>>
    OBVIOUS
  <2>1. PICK d \in Commit : Create(d) /\ IndexAdmits(RowOf(d).key) /\ k = <<d, commit[d].i>>
    BY DEF Made
  <2>2. d = c
    BY <2>1
  <2> QED BY <2>1, <2>2
<1>2. \A k \in Case : \/ (kase'[k].state # "none" <=> kase[k].state # "none")
                      \/ Made(k) /\ kase'[k].state # "none"
  BY CaseSteps DEF Corrected, Removed, Made
<1>3. Create(c) => /\ <<c, commit[c].i>> \in Case \ CasesOf(c)
                   /\ IndexAdmits(RowOf(c).key) => kase'[<<c, commit[c].i>>].state # "none"
  BY CreateMakes DEF CasesOf
<1>4. <<c, commit[c].i>>[1] = c
  OBVIOUS
<1>5. CASE Create(c) /\ IndexAdmits(RowOf(c).key)
  <2>1. CasesOf(c)' \subseteq CasesOf(c) \cup {<<c, commit[c].i>>}
    BY <1>1, <1>2 DEF CasesOf
  <2>2. CasesOf(c) \cup {<<c, commit[c].i>>} \subseteq CasesOf(c)'
    BY <1>2, <1>3, <1>4, <1>5 DEF CasesOf
  <2> QED BY <1>3, <1>5, <2>1, <2>2
<1>6. CASE ~(Create(c) /\ IndexAdmits(RowOf(c).key))
  <2>1. CasesOf(c)' = CasesOf(c)
    BY <1>1, <1>2, <1>6 DEF CasesOf
  <2> QED BY <1>3, <1>6, <2>1
<1> QED BY <1>5, <1>6

(* A commit that makes no step keeps its cases too.                         *)
LEMMA RestingCommit ==
    ASSUME TypeOK, CommitsFit, TalliesFit, [Next]_vars, NEW c \in Commit, ~CommitStep(c)
    PROVE  commit'[c] = commit[c] /\ CasesOf(c)' = CasesOf(c)
<1>1. ASSUME NEW d \in Commit, CommitStep(d) PROVE commit'[c] = commit[c]
  BY <1>1, CommitTypes
<1>2. ASSUME ~(\E d \in Commit : CommitStep(d)) PROVE commit' = commit
  BY <1>2 DEF Next, Analyse, DiscardLoad, DiscardWrite, UndoStep, UndoLoad, UndoList,
              UndoDelete, UndoAudit, Purge, vars
<1>3. ~Create(c)
  BY DEF CommitStep
<1> QED BY <1>1, <1>2, <1>3, CasesOfStep

LEMMA MakerStays ==
    ASSUME TypeOK, CommitsFit, TalliesFit, [Next]_vars,
           NEW k \in Case, kase[k].state # "none"
    PROVE  /\ Maker(k)' = Maker(k) /\ kase'[k].state # "none"
           /\ commit[k[1]].pc # "idle"
<1>1. k[1] \in Commit /\ k[2] \in 1..MaxRows /\ k = <<k[1], k[2]>>
  BY DEF Case
<1>2. commit[k[1]].pc # "idle"
  BY <1>1 DEF CommitsFit
<1>3. commit'[k[1]].upload = commit[k[1]].upload
  BY <1>1, <1>2, CommitTypes, RestingCommit
<1>4. kase'[k].state # "none"
  BY CaseSteps DEF Made, Corrected, Removed
<1> QED BY <1>2, <1>3, <1>4 DEF Maker

(* A commit that begins found its upload's file held.                       *)
LEMMA LoadFinds ==
    ASSUME TypeOK, ImportsFit, NEW c \in Commit, NEW u \in Upload, CommitLoad(c, u)
    PROVE  /\ commit[c].pc = "idle" /\ import[u].held /\ import[u].status # "none"
           /\ import[u].file \in Files
           /\ commit'[c].pc = "row" /\ commit'[c].upload = u /\ commit'[c].i = 1
           /\ commit'[c].file = import[u].file /\ commit'[c].tally = NoTally
<1>1. /\ commit[c].pc = "idle" /\ import[u].held /\ import[u].status # "none"
      /\ commit'[c] = [NewCommit EXCEPT !.pc = "row", !.upload = u, !.file = import[u].file]
  BY DEF CommitLoad, TypeOK
<1> QED BY <1>1 DEF ImportsFit, NewCommit

LEMMA LookUpStays ==
    ASSUME TypeOK, NEW c \in Commit, LookUp(c)
    PROVE  /\ commit[c].pc = "row" /\ commit'[c].pc = "looked"
           /\ More(c) /\ RowOf(c).key \notin PortalKey
           /\ commit'[c].upload = commit[c].upload /\ commit'[c].file = commit[c].file
           /\ commit'[c].i = commit[c].i /\ commit'[c].tally = commit[c].tally
<1>1. commit[c] \in CommitType
  BY DEF TypeOK
<1>2. commit' = [commit EXCEPT ![c].pc = "looked"]
      \/ \E k \in Holding(RowOf(c).key) :
             commit' = [commit EXCEPT ![c] = [@ EXCEPT !.pc = "looked", !.seen = k,
                                                       !.before = kase[k].status]]
  BY DEF LookUp
<1>3. commit[c].pc = "row" /\ More(c) /\ RowOf(c).key \notin PortalKey
  BY DEF LookUp
<1>4. CASE commit' = [commit EXCEPT ![c].pc = "looked"]
  BY <1>1, <1>3, <1>4 DEF TypeOK, CommitType
<1>5. ASSUME NEW k \in Holding(RowOf(c).key),
             commit' = [commit EXCEPT ![c] = [@ EXCEPT !.pc = "looked", !.seen = k,
                                                       !.before = kase[k].status]]
      PROVE  /\ commit'[c].pc = "looked"
             /\ commit'[c].upload = commit[c].upload /\ commit'[c].file = commit[c].file
             /\ commit'[c].i = commit[c].i /\ commit'[c].tally = commit[c].tally
  BY <1>1, <1>5 DEF TypeOK, CommitType
<1> QED BY <1>2, <1>3, <1>4, <1>5

LEMMA EndStays ==
    ASSUME TypeOK, NEW c \in Commit, CommitEnd(c)
    PROVE  /\ commit[c].pc = "row" /\ commit'[c].pc = "done" /\ ~More(c)
           /\ commit'[c].upload = commit[c].upload /\ commit'[c].file = commit[c].file
           /\ commit'[c].i = commit[c].i /\ commit'[c].tally = commit[c].tally
BY DEF CommitEnd, TypeOK, CommitType

LEMMA DiesAlone ==
    ASSUME TypeOK, NEW c \in Commit, CommitDies(c)
    PROVE  /\ commit[c].pc \in UnderWay /\ commit'[c].pc = "dead"
           /\ commit'[c].upload = commit[c].upload
BY DEF CommitDies, TypeOK, NewCommit, UnderWay

LEMMA CountsOn ==
    ASSUME TypeOK, CommitsFit, TalliesFit, NEW c \in Commit, CountsRow(c)
    PROVE  /\ commit[c].pc \in UnderWay /\ More(c) /\ commit'[c].pc = "row"
           /\ commit'[c].i = commit[c].i + 1
           /\ commit'[c].file = commit[c].file /\ commit'[c].upload = commit[c].upload
           /\ \/ /\ Create(c) /\ IndexAdmits(RowOf(c).key)
                 /\ commit'[c].tally = [commit[c].tally EXCEPT !["imported"] = @ + 1]
              \/ /\ ~(Create(c) /\ IndexAdmits(RowOf(c).key))
                 /\ \E t \in Tally \ {"imported"} :
                       commit'[c].tally = [commit[c].tally EXCEPT ![t] = @ + 1]
<1>1. PICK t \in Tally : /\ commit' = Counted(c, t)
                         /\ \/ Create(c) /\ IndexAdmits(RowOf(c).key) /\ t = "imported"
                            \/ ~(Create(c) /\ IndexAdmits(RowOf(c).key)) /\ t # "imported"
  BY DEF CountsRow, Tally
<1>2. commit[c].pc \in UnderWay /\ More(c)
  BY DEF CountsRow
<1>3. /\ commit'[c].pc = "row" /\ commit'[c].i = commit[c].i + 1
      /\ commit'[c].file = commit[c].file /\ commit'[c].upload = commit[c].upload
      /\ commit'[c].tally = [commit[c].tally EXCEPT ![t] = @ + 1]
  BY <1>1, <1>2, CountingFits
<1> QED BY <1>1, <1>2, <1>3

-----------------------------------------------------------------------------
(* The parts of the invariant, step by step *)

LEMMA StepKeepsImports ==
    ASSUME TypeOK, ImportsFit, CommitsFit, DiscardsFit, UndosFit, [Next]_vars
    PROVE  /\ ImportsFit'
           /\ \A u \in Upload : import[u].status # "none" =>
                /\ import'[u].status # "none"
                /\ ~import[u].held => ~import'[u].held
<1>1. \A u \in Upload : Begun(u) \/ Ended(u) \/ import'[u] = import[u]
  BY ImportSteps
<1> QED BY <1>1 DEF ImportsFit, Begun, Ended

LEMMA StepKeepsCommits ==
    ASSUME TypeOK, ImportsFit, CommitsFit, TalliesFit, DiscardsFit, UndosFit, [Next]_vars
    PROVE  CommitsFit'
<1> SUFFICES ASSUME NEW c \in Commit
    PROVE /\ commit'[c].pc # "idle" =>
               commit'[c].upload \in Upload /\ import'[commit'[c].upload].status # "none"
          /\ commit'[c].pc \in UnderWay \cup {"done"} => commit'[c].file \in Files
          /\ commit'[c].pc \in UnderWay => commit'[c].i <= Len(commit'[c].file) + 1
          /\ commit'[c].pc = "looked" => More(c)' /\ RowOf(c)'.key \notin PortalKey
          /\ commit'[c].pc = "done" => commit'[c].i = Len(commit'[c].file) + 1
          /\ commit'[c].pc = "idle" => \A j \in 1..MaxRows : kase'[<<c, j>>].state = "none"
          /\ commit'[c].pc \in UnderWay =>
               \A j \in 1..MaxRows : j >= commit'[c].i => kase'[<<c, j>>].state = "none"
  BY DEF CommitsFit
<1>1. \A u \in Upload : import[u].status # "none" => import'[u].status # "none"
  BY StepKeepsImports
<1>2. \A j \in 1..MaxRows : <<c, j>> \in Case /\ <<c, j>>[1] = c
  BY DEF Case
<1>3. \A j \in 1..MaxRows :
          kase[<<c, j>>].state = "none" /\ <<c, j>> \notin CasesOf(c)'
             => kase'[<<c, j>>].state = "none"
  BY <1>2 DEF CasesOf
<1>4. \A j \in 1..MaxRows : kase[<<c, j>>].state = "none" => <<c, j>> \notin CasesOf(c)
  BY DEF CasesOf
<1>5. /\ ~Create(c) => CasesOf(c)' = CasesOf(c)
      /\ CasesOf(c)' \subseteq CasesOf(c) \cup {<<c, commit[c].i>>}
  BY CasesOfStep
<1>6. commit[c].i \in Nat /\ MaxRows \in Nat
  BY MigrationAssumption DEF TypeOK, CommitType
<1>7. commit[c].pc # "idle" => commit[c].upload \in Upload
                               /\ import'[commit[c].upload].status # "none"
  BY <1>1 DEF CommitsFit
<1>8. CASE ~CommitStep(c)
  <2>1. commit'[c] = commit[c] /\ CasesOf(c)' = CasesOf(c)
    BY <1>8, RestingCommit
  <2>2. \A j \in 1..MaxRows : kase[<<c, j>>].state = "none" => kase'[<<c, j>>].state = "none"
    BY <1>3, <1>4, <2>1
  <2> QED BY <1>7, <2>1, <2>2 DEF CommitsFit, More, RowOf
<1>9. ASSUME NEW u \in Upload, CommitLoad(c, u)
      PROVE  /\ commit'[c].pc = "row" /\ commit'[c].upload = u
             /\ import'[u].status # "none" /\ commit'[c].file \in Files
             /\ commit'[c].i <= Len(commit'[c].file) + 1
             /\ \A j \in 1..MaxRows : kase'[<<c, j>>].state = "none"
  <2>1. /\ commit[c].pc = "idle" /\ import[u].status # "none" /\ import[u].file \in Files
        /\ commit'[c].pc = "row" /\ commit'[c].upload = u /\ commit'[c].i = 1
        /\ commit'[c].file = import[u].file
    BY <1>9, LoadFinds
  <2>2. Len(import[u].file) \in 1..MaxRows
    BY <2>1, MigrationAssumption
  <2>3. ~Create(c)
    BY <2>1 DEF Create
  <2>4. \A j \in 1..MaxRows : kase[<<c, j>>].state = "none"
    BY <2>1 DEF CommitsFit
  <2>5. \A j \in 1..MaxRows : kase'[<<c, j>>].state = "none"
    BY <1>3, <1>4, <1>5, <2>3, <2>4
  <2> QED BY <1>1, <1>6, <2>1, <2>2, <2>5
<1>10. ASSUME CountsRow(c)
       PROVE  /\ commit'[c].pc = "row" /\ commit'[c].upload = commit[c].upload
              /\ commit[c].pc # "idle" /\ commit'[c].file \in Files
              /\ commit'[c].i <= Len(commit'[c].file) + 1
              /\ \A j \in 1..MaxRows : j >= commit'[c].i => kase'[<<c, j>>].state = "none"
  <2>1. /\ commit[c].pc \in UnderWay /\ More(c) /\ commit'[c].pc = "row"
        /\ commit'[c].i = commit[c].i + 1
        /\ commit'[c].file = commit[c].file /\ commit'[c].upload = commit[c].upload
    BY <1>10, CountsOn
  <2>2. commit[c].file \in Files /\ Len(commit[c].file) \in 1..MaxRows
    BY <2>1, RowFits
  <2>3. ASSUME NEW j \in 1..MaxRows, j >= commit[c].i + 1 PROVE kase'[<<c, j>>].state = "none"
    <3>1. j >= commit[c].i /\ j # commit[c].i
      BY <1>6, <2>3
    <3>2. <<c, j>> # <<c, commit[c].i>>
      BY <3>1
    <3>3. kase[<<c, j>>].state = "none"
      BY <2>1, <3>1 DEF CommitsFit
    <3> QED BY <1>3, <1>4, <1>5, <3>2, <3>3
  <2> QED BY <1>6, <2>1, <2>2, <2>3 DEF More, UnderWay
<1>11. ASSUME LookUp(c)
       PROVE  /\ commit'[c].pc = "looked" /\ commit'[c].upload = commit[c].upload
              /\ commit[c].pc # "idle" /\ commit'[c].file \in Files
              /\ commit'[c].i <= Len(commit'[c].file) + 1
              /\ More(c)' /\ RowOf(c)'.key \notin PortalKey
              /\ \A j \in 1..MaxRows : j >= commit'[c].i => kase'[<<c, j>>].state = "none"
  <2>1. /\ commit[c].pc = "row" /\ commit'[c].pc = "looked" /\ ~Create(c)
        /\ More(c) /\ RowOf(c).key \notin PortalKey
        /\ commit'[c].upload = commit[c].upload /\ commit'[c].file = commit[c].file
        /\ commit'[c].i = commit[c].i
    BY <1>11, LookUpStays DEF Create
  <2>2. \A j \in 1..MaxRows : j >= commit[c].i => kase[<<c, j>>].state = "none"
    BY <2>1 DEF CommitsFit, UnderWay
  <2>3. commit[c].file \in Files /\ commit[c].i <= Len(commit[c].file) + 1
    BY <2>1 DEF CommitsFit, UnderWay
  <2> QED BY <1>3, <1>4, <1>5, <2>1, <2>2, <2>3 DEF More, RowOf
<1>12. ASSUME CommitEnd(c)
       PROVE  /\ commit'[c].pc = "done" /\ commit'[c].upload = commit[c].upload
              /\ commit[c].pc # "idle" /\ commit'[c].file \in Files
              /\ commit'[c].i = Len(commit'[c].file) + 1
  <2>1. /\ commit[c].pc = "row" /\ commit'[c].pc = "done" /\ ~More(c)
        /\ commit'[c].upload = commit[c].upload /\ commit'[c].file = commit[c].file
        /\ commit'[c].i = commit[c].i
    BY <1>12, EndStays
  <2>2. commit[c].file \in Files /\ commit[c].i <= Len(commit[c].file) + 1
    BY <2>1 DEF CommitsFit, UnderWay
  <2>3. Len(commit[c].file) \in Nat
    BY <2>2, MigrationAssumption
  <2> QED BY <1>6, <2>1, <2>2, <2>3 DEF More
<1>13. ASSUME CommitDies(c)
       PROVE  /\ commit'[c].pc = "dead" /\ commit'[c].upload = commit[c].upload
              /\ commit[c].pc # "idle"
  BY <1>13, DiesAlone DEF UnderWay
<1>14. ASSUME NEW u \in Upload, CommitLoad(c, u)
       PROVE  /\ commit'[c].pc = "row" /\ commit'[c].upload = u
              /\ import'[commit'[c].upload].status # "none"
  BY <1>9, <1>14
<1> USE DEF UnderWay
<1>15. CASE \E u \in Upload : CommitLoad(c, u)
  BY <1>9, <1>15
<1>16. CASE CountsRow(c)
  BY <1>7, <1>10, <1>16
<1>17. CASE LookUp(c)
  BY <1>7, <1>11, <1>17
<1>18. CASE CommitEnd(c)
  BY <1>7, <1>12, <1>18
<1>19. CASE CommitDies(c)
  BY <1>7, <1>13, <1>19
<1> QED BY <1>8, <1>15, <1>16, <1>17, <1>18, <1>19, CommitCases

LEMMA StepKeepsTallies ==
    ASSUME TypeOK, ImportsFit, CommitsFit, TalliesFit, [Next]_vars
    PROVE  TalliesFit'
<1> SUFFICES ASSUME NEW c \in Commit, commit'[c].pc \in UnderWay \cup {"done"}
    PROVE /\ commit'[c].tally.imported + commit'[c].tally.updated + commit'[c].tally.skipped
               + commit'[c].tally.failed = commit'[c].i - 1
          /\ IsFiniteSet(CasesOf(c)')
          /\ commit'[c].tally.imported = Cardinality(CasesOf(c)')
  BY DEF TalliesFit
<1>1. /\ commit[c].tally \in [Tally -> 0..MaxRows] /\ MaxRows \in Nat /\ commit[c].i \in Nat
  BY MigrationAssumption DEF TypeOK, CommitType
<1>2. \A x \in {"imported", "updated", "skipped", "failed"} : commit[c].tally[x] \in Nat
  BY <1>1 DEF Tally
<1>3. commit[c].pc \in UnderWay \cup {"done"} =>
          /\ commit[c].tally.imported + commit[c].tally.updated + commit[c].tally.skipped
               + commit[c].tally.failed = commit[c].i - 1
          /\ IsFiniteSet(CasesOf(c)) /\ commit[c].tally.imported = Cardinality(CasesOf(c))
  BY DEF TalliesFit
<1>4. CASE ~CommitStep(c)
  <2>1. commit'[c] = commit[c] /\ CasesOf(c)' = CasesOf(c)
    BY <1>4, RestingCommit
  <2> QED BY <1>3, <2>1
<1>5. ASSUME NEW u \in Upload, CommitLoad(c, u)
      PROVE  /\ commit'[c].tally.imported + commit'[c].tally.updated + commit'[c].tally.skipped
                  + commit'[c].tally.failed = commit'[c].i - 1
             /\ IsFiniteSet(CasesOf(c)')
             /\ commit'[c].tally.imported = Cardinality(CasesOf(c)')
  <2>1. commit[c].pc = "idle" /\ commit'[c].i = 1 /\ commit'[c].tally = NoTally
    BY <1>5, LoadFinds
  <2>2. CasesOf(c) = {}
    <3>1. \A k \in Case : k[1] = c => \E j \in 1..MaxRows : k = <<c, j>>
      BY DEF Case
    <3> QED BY <2>1, <3>1 DEF CasesOf, CommitsFit
  <2>3. CasesOf(c)' = {}
    BY <2>1, <2>2, CasesOfStep DEF Create
  <2> QED BY <2>1, <2>3, FS_EmptySet DEF NoTally, Tally
<1>6. ASSUME CountsRow(c)
      PROVE  /\ commit'[c].tally.imported + commit'[c].tally.updated + commit'[c].tally.skipped
                  + commit'[c].tally.failed = commit'[c].i - 1
             /\ IsFiniteSet(CasesOf(c)')
             /\ commit'[c].tally.imported = Cardinality(CasesOf(c)')
  <2>1. commit[c].pc \in UnderWay /\ commit'[c].i = commit[c].i + 1
    BY <1>6, CountsOn
  <2>2. ASSUME Create(c), IndexAdmits(RowOf(c).key),
               commit'[c].tally = [commit[c].tally EXCEPT !["imported"] = @ + 1]
        PROVE  /\ commit'[c].tally.imported + commit'[c].tally.updated
                    + commit'[c].tally.skipped + commit'[c].tally.failed = commit'[c].i - 1
               /\ IsFiniteSet(CasesOf(c)')
               /\ commit'[c].tally.imported = Cardinality(CasesOf(c)')
    <3>1. /\ commit'[c].tally.imported = commit[c].tally.imported + 1
          /\ commit'[c].tally.updated = commit[c].tally.updated
          /\ commit'[c].tally.skipped = commit[c].tally.skipped
          /\ commit'[c].tally.failed = commit[c].tally.failed
      BY <1>1, <2>2 DEF Tally
    <3>2. /\ CasesOf(c)' = CasesOf(c) \cup {<<c, commit[c].i>>}
          /\ <<c, commit[c].i>> \notin CasesOf(c)
      BY <2>2, CasesOfStep
    <3>3. IsFiniteSet(CasesOf(c)') /\ Cardinality(CasesOf(c)') = Cardinality(CasesOf(c)) + 1
      BY <1>3, <2>1, <3>2, FS_AddElement
    <3> QED BY <1>1, <1>2, <1>3, <2>1, <3>1, <3>3
  <2>3. ASSUME ~(Create(c) /\ IndexAdmits(RowOf(c).key)),
               NEW t \in Tally \ {"imported"},
               commit'[c].tally = [commit[c].tally EXCEPT ![t] = @ + 1]
        PROVE  /\ commit'[c].tally.imported + commit'[c].tally.updated
                    + commit'[c].tally.skipped + commit'[c].tally.failed = commit'[c].i - 1
               /\ IsFiniteSet(CasesOf(c)')
               /\ commit'[c].tally.imported = Cardinality(CasesOf(c)')
    <3>1. CasesOf(c)' = CasesOf(c)
      BY <2>3, CasesOfStep
    <3>2. \A x \in Tally : commit'[c].tally[x] = IF x = t THEN commit[c].tally[x] + 1
                                                 ELSE commit[c].tally[x]
      BY <1>1, <2>3
    <3>3. t \in {"updated", "skipped", "failed"}
      BY <2>3 DEF Tally
    <3>4. /\ commit'[c].tally.imported = commit[c].tally.imported
          /\ commit'[c].tally.updated = IF t = "updated" THEN commit[c].tally.updated + 1
                                        ELSE commit[c].tally.updated
          /\ commit'[c].tally.skipped = IF t = "skipped" THEN commit[c].tally.skipped + 1
                                        ELSE commit[c].tally.skipped
          /\ commit'[c].tally.failed = IF t = "failed" THEN commit[c].tally.failed + 1
                                       ELSE commit[c].tally.failed
      BY <3>2, <3>3 DEF Tally
    <3> QED BY <1>1, <1>2, <1>3, <2>1, <3>1, <3>3, <3>4
  <2> QED BY <1>6, <2>2, <2>3, CountsOn
<1>7. CASE LookUp(c)
  BY <1>3, <1>7, LookUpStays, CasesOfStep DEF Create, UnderWay
<1>8. CASE CommitEnd(c)
  BY <1>3, <1>8, EndStays, CasesOfStep DEF Create, UnderWay
<1>9. ~CommitDies(c)
  BY DiesAlone DEF UnderWay
<1> QED BY <1>4, <1>5, <1>6, <1>7, <1>8, <1>9, CommitCases

(* The commit that makes a case is under way, before and after.             *)
LEMMA MadeByOne ==
    ASSUME TypeOK, CommitsFit, TalliesFit, NEW k \in Case, Made(k)
    PROVE  /\ k[1] \in Commit /\ commit[k[1]].pc = "looked" /\ commit'[k[1]].pc = "row"
           /\ kase'[k].of = Maker(k) /\ Maker(k)' = Maker(k)
           /\ IndexAdmits(kase'[k].key)
<1>1. PICK c \in Commit : /\ Create(c) /\ IndexAdmits(RowOf(c).key)
                          /\ k = <<c, commit[c].i>> /\ kase'[k].of = commit[c].upload
                          /\ kase'[k].key = RowOf(c).key
  BY DEF Made
<1>2. k[1] = c
  BY <1>1
<1>3. commit[c].pc = "looked" /\ More(c) /\ commit' = Counted(c, "imported")
  BY <1>1, CreateMakes
<1>4. commit'[c].pc = "row" /\ commit'[c].upload = commit[c].upload
  <2>1. "imported" \in Tally /\ commit[c].pc \in UnderWay
    BY <1>3 DEF Tally, UnderWay
  <2> QED BY <1>3, <2>1, CountingFits
<1> QED BY <1>1, <1>2, <1>3, <1>4 DEF Maker

LEMMA StepKeepsCases ==
    ASSUME TypeOK, CommitsFit, TalliesFit, CasesFit, [Next]_vars
    PROVE  CasesFit'
<1>1. \A k \in Live' : \/ Made(k)
                       \/ /\ k \in Live /\ kase'[k].of = kase[k].of
                          /\ kase'[k].key = kase[k].key
                          /\ kase'[k].overtaken \/ kase'[k].told = kase'[k].status
  <2> SUFFICES ASSUME NEW k \in Case, kase'[k].state = "live", ~Made(k)
               PROVE  /\ k \in Live /\ kase'[k].of = kase[k].of
                      /\ kase'[k].key = kase[k].key
                      /\ kase'[k].overtaken \/ kase'[k].told = kase'[k].status
    BY DEF Live
  <2>1. k \in Live => kase[k].overtaken \/ kase[k].told = kase[k].status
    BY DEF CasesFit, HistoryEndsAtTheStatus
  <2>2. Corrected(k) \/ Removed(k) \/ kase'[k] = kase[k]
    BY CaseSteps
  <2> QED BY <2>1, <2>2 DEF Corrected, Removed, Live
<1>2. \A k \in Live' : k \in Case
  BY DEF Live
<1>3. \A k \in Live' : kase'[k].of = Maker(k)'
  <2>1. ASSUME NEW k \in Live', ~Made(k) PROVE kase'[k].of = Maker(k)'
    <3>1. k \in Live /\ kase'[k].of = kase[k].of
      BY <1>1, <2>1
    <3>2. Maker(k)' = Maker(k)
      BY <3>1, MakerStays DEF Live
    <3> QED BY <3>1, <3>2 DEF CasesFit
  <2> QED BY <1>2, <2>1, MadeByOne
<1>4. OneCasePerSourceRow'
  <2> SUFFICES ASSUME NEW k \in Live', NEW l \in Live', kase'[k].key = kase'[l].key,
                      kase'[k].key # NoKey
               PROVE  k = l
    BY DEF OneCasePerSourceRow
  <2>1. ASSUME NEW a \in Live', NEW b \in Live', Made(a), ~Made(b),
               kase'[a].key = kase'[b].key, kase'[a].key # NoKey
        PROVE  FALSE
    <3>1. b \in Live /\ kase[b].key = kase'[a].key
      BY <1>1, <2>1
    <3>2. IndexAdmits(kase'[a].key)
      BY <1>2, <2>1, MadeByOne
    <3> QED BY <2>1, <3>1, <3>2 DEF IndexAdmits, Holding
  <2>2. ASSUME ~Made(k), ~Made(l) PROVE k = l
    <3>1. k \in Live /\ l \in Live /\ kase[k].key = kase[l].key /\ kase[k].key # NoKey
      BY <1>1, <2>2
    <3> QED BY <3>1 DEF CasesFit, OneCasePerSourceRow
  <2> QED BY <1>2, <2>1, <2>2, OneIsMade
<1>5. HistoryEndsAtTheStatus'
  BY <1>1 DEF HistoryEndsAtTheStatus, Made
<1> QED BY <1>3, <1>4, <1>5 DEF CasesFit

LEMMA StepKeepsDiscards ==
    ASSUME TypeOK, ImportsFit, CommitsFit, DiscardsFit, UndosFit, [Next]_vars
    PROVE  DiscardsFit'
<1>1. \A u \in Upload : import[u].status # "none" => import'[u].status # "none"
  BY StepKeepsImports
<1>2. ASSUME NEW d \in Discard, discard'[d].pc = "loaded"
      PROVE  /\ discard'[d].upload \in Upload
             /\ import[discard'[d].upload].status # "none"
  <2>1. CASE discard'[d] = discard[d]
    BY <1>2, <2>1 DEF DiscardsFit
  <2>2. ASSUME NEW u \in Upload, DiscardLoad(d, u)
        PROVE  discard'[d].upload = u /\ import[u].status # "none"
    BY <2>2 DEF DiscardLoad, TypeOK
  <2>3. ASSUME NEW e \in Discard, NEW u \in Upload, DiscardLoad(e, u), e # d
        PROVE  discard'[d] = discard[d]
    BY <2>3 DEF DiscardLoad, TypeOK
  <2>4. ~DiscardWrite(d)
    BY <1>2 DEF DiscardWrite, TypeOK, DiscardType
  <2>5. ASSUME NEW e \in Discard, DiscardWrite(e), e # d PROVE discard'[d] = discard[d]
    BY <2>5 DEF DiscardWrite, TypeOK
  <2>6. ASSUME NEW c \in Commit, CommitStep(c) PROVE discard' = discard
    BY <2>6 DEF CommitStep, CommitLoad, BadRow, Conflict, LookUp, Create, Correct,
                CommitEnd, CommitDies
  <2>7. ASSUME NEW n \in Undo, UndoStep(n) PROVE discard' = discard
    BY <2>7 DEF UndoStep, UndoLoad, UndoList, UndoDelete, UndoAudit
  <2>8. ASSUME \/ \E u \in Upload, f \in Files : Analyse(u, f)
               \/ \E k \in Case : Purge(k)
               \/ UNCHANGED vars
        PROVE  discard' = discard
    BY <2>8 DEF Analyse, Purge, vars
  <2> QED BY <2>1, <2>2, <2>3, <2>4, <2>5, <2>6, <2>7, <2>8 DEF Next
<1> QED BY <1>1, <1>2 DEF DiscardsFit

(* Who is under way on an upload: nobody new once nothing is held.          *)
LEMMA NobodyNew ==
    ASSUME TypeOK, ImportsFit, CommitsFit, TalliesFit, [Next]_vars,
           NEW u \in Upload, ~import[u].held, Active(u)'
    PROVE  Active(u)
<1>1. PICK c \in Commit : commit'[c].upload = u /\ commit'[c].pc \in UnderWay
  BY DEF Active, UnderWay
<1>2. CASE ~CommitStep(c)
  BY <1>1, <1>2, RestingCommit DEF Active, UnderWay
<1>3. ASSUME NEW v \in Upload, CommitLoad(c, v) PROVE FALSE
  BY <1>1, <1>3, LoadFinds
<1>4. CASE CountsRow(c)
  BY <1>1, <1>4, CountsOn DEF Active, UnderWay
<1>5. CASE LookUp(c)
  BY <1>1, <1>5, LookUpStays DEF Active, UnderWay
<1>6. ~CommitEnd(c) /\ ~CommitDies(c)
  BY <1>1, EndStays, DiesAlone DEF UnderWay
<1> QED BY <1>2, <1>3, <1>4, <1>5, <1>6, CommitCases

LEMMA CrossedGrows == ASSUME [Next]_vars PROVE crossed \subseteq crossed'
<1>1. ASSUME NEW c \in Commit, CommitStep(c) PROVE crossed' = crossed
  BY <1>1 DEF CommitStep, CommitLoad, BadRow, Conflict, LookUp, Create, Correct,
              CommitEnd, CommitDies
<1>2. ASSUME NEW n \in Undo, UndoStep(n) PROVE crossed \subseteq crossed'
  BY <1>2 DEF UndoStep, UndoLoad, UndoList, UndoDelete, UndoAudit
<1>3. ASSUME NEW d \in Discard, DiscardWrite(d) PROVE crossed \subseteq crossed'
  BY <1>3 DEF DiscardWrite
<1> QED BY <1>1, <1>2, <1>3 DEF Next, Analyse, DiscardLoad, Purge, vars

(* An undo that makes no step.                                              *)
LEMMA RestingUndo ==
    ASSUME TypeOK, [Next]_vars, NEW n \in Undo, ~UndoStep(n)
    PROVE  undo'[n] = undo[n]
<1>1. ASSUME NEW m \in Undo, UndoStep(m), m # n PROVE undo'[n] = undo[n]
  BY <1>1 DEF UndoStep, UndoLoad, UndoList, UndoDelete, UndoAudit, TypeOK
<1>2. ASSUME NEW c \in Commit, CommitStep(c) PROVE undo' = undo
  BY <1>2 DEF CommitStep, CommitLoad, BadRow, Conflict, LookUp, Create, Correct,
              CommitEnd, CommitDies
<1> QED BY <1>1, <1>2 DEF Next, Analyse, DiscardLoad, DiscardWrite, Purge, vars

(* What UndosFit says of one undo.                                          *)
Fits(n) ==
    /\ undo[n].pc \in {"loaded", "listed"} =>
         /\ undo[n].upload \in Upload
         /\ import[undo[n].upload].status # "none" /\ ~import[undo[n].upload].held
    /\ \A k \in undo[n].list : kase[k].state # "none" /\ Maker(k) = undo[n].upload
    /\ undo[n].removed \subseteq undo[n].list
    /\ undo[n].pc = "loaded" => undo[n].removed = {}
    /\ undo[n].pc = "listed" =>
         \/ undo[n].upload \in crossed
         \/ /\ ~Active(undo[n].upload)
            /\ \A k \in Live : Maker(k) = undo[n].upload => k \in undo[n].list

LEMMA RestingUndoFits ==
    ASSUME TypeOK, ImportsFit, CommitsFit, TalliesFit, DiscardsFit, UndosFit, [Next]_vars,
           NEW n \in Undo, undo'[n] = undo[n]
    PROVE  Fits(n)'
<1>1. Fits(n) /\ undo[n].list \subseteq Case
  BY DEF UndosFit, Fits, TypeOK, UndoType
<1>2. undo[n].pc \in {"loaded", "listed"} =>
         /\ import'[undo[n].upload].status # "none" /\ ~import'[undo[n].upload].held
  BY <1>1, StepKeepsImports DEF Fits
<1>3. \A k \in undo[n].list : kase'[k].state # "none" /\ Maker(k)' = undo[n].upload
  BY <1>1, MakerStays DEF Fits
<1>4. ASSUME undo[n].pc = "listed", undo[n].upload \notin crossed'
      PROVE  /\ ~Active(undo[n].upload)'
             /\ \A k \in Live' : Maker(k)' = undo[n].upload => k \in undo[n].list
  <2>1. /\ undo[n].upload \in Upload /\ ~import[undo[n].upload].held
        /\ ~Active(undo[n].upload)
        /\ \A k \in Live : Maker(k) = undo[n].upload => k \in undo[n].list
    BY <1>1, <1>4, CrossedGrows DEF Fits
  <2>2. ~Active(undo[n].upload)'
    BY <2>1, NobodyNew
  <2>3. ASSUME NEW k \in Live', Maker(k)' = undo[n].upload PROVE k \in undo[n].list
    <3>1. k \in Case /\ kase'[k].state = "live"
      BY <2>3 DEF Live
    <3>2. ~Made(k)
      <4>1. Made(k) => /\ k[1] \in Commit /\ commit'[k[1]].pc = "row"
                       /\ commit'[k[1]].upload = undo[n].upload
        BY <2>3, <3>1, MadeByOne DEF Maker
      <4> QED BY <2>2, <4>1 DEF Active
    <3>3. kase[k].state = "live"
      BY <3>1, <3>2, CaseSteps DEF Corrected, Removed
    <3>4. Maker(k) = undo[n].upload
      BY <2>3, <3>1, <3>3, MakerStays
    <3> QED BY <2>1, <3>1, <3>3, <3>4 DEF Live
  <2> QED BY <2>2, <2>3
<1> QED BY <1>1, <1>2, <1>3, <1>4 DEF Fits

LEMMA StepKeepsUndos ==
    ASSUME TypeOK, ImportsFit, CommitsFit, TalliesFit, CasesFit, DiscardsFit, UndosFit,
           [Next]_vars
    PROVE  UndosFit'
<1> SUFFICES ASSUME NEW n \in Undo PROVE Fits(n)'
  BY DEF UndosFit, Fits
<1>1. Fits(n) /\ undo[n] \in UndoType
  BY DEF UndosFit, Fits, TypeOK
<1>2. CASE ~UndoStep(n)
  BY <1>2, RestingUndo, RestingUndoFits
<1>3. ASSUME NEW u \in Upload, UndoLoad(n, u) PROVE Fits(n)'
  <2>1. /\ import' = import /\ undo'[n] = [NewUndo EXCEPT !.pc = "loaded", !.upload = u]
        /\ import[u].status = "committed"
    BY <1>3 DEF UndoLoad, TypeOK
  <2>2. ~import[u].held
    BY <2>1 DEF ImportsFit
  <2>3. /\ undo'[n].pc = "loaded" /\ undo'[n].upload = u /\ undo'[n].list = {}
        /\ undo'[n].removed = {}
    BY <2>1 DEF NewUndo
  <2> QED BY <2>1, <2>2, <2>3 DEF Fits
<1>4. CASE UndoList(n)
  <2>1. /\ import' = import /\ kase' = kase /\ commit' = commit
        /\ undo[n].pc = "loaded" /\ undo'[n].pc = "listed"
        /\ undo'[n].upload = undo[n].upload /\ undo'[n].list = MadeBy(undo[n].upload)
        /\ undo'[n].removed = undo[n].removed
        /\ Active(undo[n].upload) => undo[n].upload \in crossed'
        /\ Active(undo[n].upload)' <=> Active(undo[n].upload)
    BY <1>1, <1>4 DEF UndoList, TypeOK, UndoType, Active
  <2>2. \A k \in Live : k \in MadeBy(undo[n].upload) <=> Maker(k) = undo[n].upload
    BY DEF CasesFit, MadeBy
  <2>3. MadeBy(undo[n].upload) \subseteq Live
    BY DEF MadeBy
  <2>4. undo[n].removed = {}
    BY <1>1, <2>1 DEF Fits
  <2>5. /\ undo[n].upload \in Upload
        /\ import[undo[n].upload].status # "none" /\ ~import[undo[n].upload].held
    BY <1>1, <2>1 DEF Fits
  <2>6. \A k \in undo'[n].list : kase'[k].state # "none" /\ Maker(k)' = undo'[n].upload
    BY <2>1, <2>2, <2>3 DEF Live, Maker
  <2>7. \/ undo'[n].upload \in crossed'
        \/ /\ ~(\E c \in Commit : /\ commit'[c].upload = undo'[n].upload
                                  /\ commit'[c].pc \in {"row", "looked"})
           /\ \A k \in Live' : Maker(k)' = undo'[n].upload => k \in undo'[n].list
    BY <2>1, <2>2 DEF Live, Maker, Active
  <2> QED BY <2>1, <2>4, <2>5, <2>6, <2>7 DEF Fits, Active
<1>5. CASE UndoDelete(n)
  <2>1. /\ undo'[n].pc = "deleted" /\ undo'[n].upload = undo[n].upload
        /\ undo'[n].list = undo[n].list /\ undo'[n].removed = Targets(n)
    BY <1>1, <1>5 DEF UndoDelete, TypeOK, UndoType
  <2>2. Targets(n) \subseteq undo[n].list /\ undo[n].list \subseteq Case
    BY <1>1 DEF Targets, UndoType
  <2>3. \A k \in undo[n].list : kase'[k].state # "none" /\ Maker(k)' = undo[n].upload
    BY <1>1, <2>2, MakerStays DEF Fits
  <2> QED BY <2>1, <2>2, <2>3 DEF Fits
<1>6. CASE UndoAudit(n)
  <2>1. /\ undo'[n].pc = "over" /\ undo'[n].upload = undo[n].upload
        /\ undo'[n].list = undo[n].list /\ undo'[n].removed = undo[n].removed
        /\ kase' = kase /\ commit' = commit
    BY <1>1, <1>6 DEF UndoAudit, TypeOK, UndoType
  <2> QED BY <1>1, <2>1 DEF Fits, Maker
<1> QED BY <1>2, <1>3, <1>4, <1>5, <1>6 DEF UndoStep

(* A case whose upload was committed and is so no longer was crossed, or is *)
(* gone.                                                                    *)
LEMMA CommittedMoves ==
    ASSUME TypeOK, ImportsFit, CommitsFit, TalliesFit, CasesFit, DiscardsFit, UndosFit,
           [Next]_vars, NEW k \in Live, kase'[k].state = "live",
           Maker(k) \in Upload, import[Maker(k)].status = "committed"
    PROVE  import'[Maker(k)].status = "committed" \/ Maker(k) \in crossed'
<1> DEFINE u == Maker(k)
           Goal == import'[u].status = "committed" \/ u \in crossed'
<1> HIDE DEF u
<1>0. u \in Upload /\ import[u].status = "committed" /\ u = Maker(k)
  BY DEF u
<1>2. ASSUME NEW d \in Discard, DiscardWrite(d) PROVE Goal
  BY <1>0, <1>2 DEF DiscardWrite, TypeOK
<1>3. ASSUME NEW n \in Undo, UndoDelete(n) PROVE Goal
  <2>1. CASE undo[n].upload # u
    BY <1>0, <1>3, <2>1 DEF UndoDelete, TypeOK
  <2>2. CASE undo[n].upload = u
    <3>1. k \in Case /\ k \notin Targets(n)
      BY <1>3 DEF UndoDelete, Live, NewCase
    <3>2. k \notin undo[n].list
      BY <3>1 DEF Targets
    <3>3. undo[n].pc = "listed"
      BY <1>3 DEF UndoDelete
    <3>4. u \in crossed
      BY <1>0, <2>2, <3>2, <3>3 DEF UndosFit
    <3> QED BY <3>4, CrossedGrows
  <2> QED BY <2>1, <2>2
<1>4. ASSUME NEW c \in Commit, CommitStep(c) PROVE Goal
  <2>1. CASE CommitEnd(c)
    BY <1>0, <2>1 DEF CommitEnd, TypeOK, ImportType
  <2>2. CASE ~CommitEnd(c)
    BY <1>0, <1>4, <2>2 DEF CommitStep, CommitLoad, BadRow, Conflict, LookUp, Create, Correct,
                            CommitDies
  <2> QED BY <2>1, <2>2
<1>5. ASSUME NEW v \in Upload, NEW f \in Files, Analyse(v, f) PROVE Goal
  BY <1>0, <1>5 DEF Analyse, TypeOK
<1>6. ASSUME NEW n \in Undo, UndoStep(n), ~UndoDelete(n) PROVE import' = import
  BY <1>6 DEF UndoStep, UndoLoad, UndoList, UndoAudit
<1>7. ASSUME \/ \E d \in Discard, v \in Upload : DiscardLoad(d, v)
             \/ \E l \in Case : Purge(l)
             \/ UNCHANGED vars
      PROVE  import' = import
  BY <1>7 DEF DiscardLoad, Purge, vars
<1>8. import' = import => Goal
  BY <1>0
<1> HIDE DEF Goal
<1>9. Goal
  BY <1>2, <1>3, <1>4, <1>5, <1>6, <1>7, <1>8 DEF Next
<1> QED BY <1>0, <1>9 DEF Goal

(* A commit that stops being under way has ended or died.                   *)
LEMMA ActiveMoves ==
    ASSUME TypeOK, ImportsFit, CommitsFit, TalliesFit, [Next]_vars,
           NEW u \in Upload, Active(u)
    PROVE  \/ \E c \in Commit : commit'[c].upload = u /\ commit'[c].pc \in {"row", "looked"}
           \/ import'[u].status = "committed"
           \/ \E c \in Commit : commit'[c].upload = u /\ commit'[c].pc = "dead"
<1>1. PICK c \in Commit : commit[c].upload = u /\ commit[c].pc \in UnderWay
  BY DEF Active, UnderWay
<1>2. CASE ~CommitStep(c)
  BY <1>1, <1>2, RestingCommit DEF UnderWay
<1>3. ~(\E v \in Upload : CommitLoad(c, v))
  BY <1>1 DEF CommitLoad, UnderWay
<1>4. CASE CountsRow(c)
  BY <1>1, <1>4, CountsOn
<1>5. CASE LookUp(c)
  BY <1>1, <1>5, LookUpStays
<1>6. CASE CommitEnd(c)
  BY <1>1, <1>6 DEF CommitEnd, TypeOK, ImportType
<1>7. CASE CommitDies(c)
  BY <1>1, <1>7, DiesAlone
<1> QED BY <1>2, <1>3, <1>4, <1>5, <1>6, <1>7, CommitCases

LEMMA StepKeepsTheWayBack ==
    ASSUME TypeOK, ImportsFit, CommitsFit, TalliesFit, CasesFit, DiscardsFit, UndosFit,
           CasesCanBeTakenBack, [Next]_vars
    PROVE  CasesCanBeTakenBack'
<1> SUFFICES ASSUME NEW k \in Live'
             PROVE  \/ import'[Maker(k)'].status = "committed" \/ Maker(k)' \in crossed'
                    \/ \E c \in Commit : /\ commit'[c].upload = Maker(k)'
                                         /\ commit'[c].pc \in {"row", "looked", "dead"}
  BY DEF CasesCanBeTakenBack, Active
<1>1. k \in Case /\ kase'[k].state = "live"
  BY DEF Live
<1>2. CASE Made(k)
  <2>1. k[1] \in Commit /\ commit'[k[1]].pc = "row"
    BY <1>1, <1>2, MadeByOne
  <2> QED BY <2>1 DEF Maker
<1>3. CASE ~Made(k)
  <2>1. k \in Live
    BY <1>1, <1>3, CaseSteps DEF Corrected, Removed, Live
  <2>2. Maker(k)' = Maker(k) /\ commit[k[1]].pc # "idle"
    BY <1>1, <2>1, MakerStays DEF Live
  <2>3. Maker(k) \in Upload
    BY <1>1, <2>2 DEF CommitsFit, Case, Maker
  <2>4. \/ import[Maker(k)].status = "committed" \/ Active(Maker(k)) \/ Maker(k) \in crossed
        \/ \E c \in Commit : commit[c].upload = Maker(k) /\ commit[c].pc = "dead"
    BY <2>1 DEF CasesCanBeTakenBack
  <2>5. ASSUME NEW c \in Commit, commit[c].upload = Maker(k), commit[c].pc = "dead"
        PROVE  commit'[c] = commit[c]
    <3>1. ~CommitStep(c)
      BY <2>5 DEF CommitStep, CommitLoad, BadRow, Conflict, LookUp, Create, Correct,
                  CommitEnd, CommitDies
    <3> QED BY <3>1, RestingCommit
  <2>6. ASSUME Active(Maker(k))
        PROVE  \/ import'[Maker(k)].status = "committed"
               \/ \E c \in Commit : /\ commit'[c].upload = Maker(k)
                                    /\ commit'[c].pc \in {"row", "looked", "dead"}
    <3> DEFINE u == Maker(k)
    <3>1. u \in Upload /\ Active(u)
      BY <2>3, <2>6
    <3>2. Maker(k) = u
      OBVIOUS
    <3> HIDE DEF u
    <3>3. \/ \E c \in Commit : commit'[c].upload = u /\ commit'[c].pc \in {"row", "looked"}
          \/ import'[u].status = "committed"
          \/ \E c \in Commit : commit'[c].upload = u /\ commit'[c].pc = "dead"
      BY <3>1, ActiveMoves
    <3> QED BY <3>2, <3>3
  <2> QED BY <1>1, <2>1, <2>2, <2>3, <2>4, <2>5, <2>6, CommittedMoves, CrossedGrows
<1> QED BY <1>2, <1>3

-----------------------------------------------------------------------------
(* The theorems *)

LEMMA InitFits == ASSUME Init PROVE IInv
<1>1. /\ NewImport \in ImportType /\ NewCase \in CaseType /\ NewCommit \in CommitType
      /\ NewDiscard \in DiscardType /\ NewUndo \in UndoType
  BY MigrationAssumption DEF NewImport, ImportType, NewCase, CaseType, NewCommit, CommitType,
     NewDiscard, DiscardType, NewUndo, UndoType, NoTally, Tally
<1>2. TypeOK
  BY <1>1 DEF Init, TypeOK
<1>3. \A k \in Case : kase[k].state = "none"
  BY DEF Init, NewCase
<1>4. Live = {}
  BY <1>3 DEF Live
<1>5. /\ \A u \in Upload : import[u].status = "none" /\ ~import[u].held
      /\ \A c \in Commit : commit[c].pc = "idle"
      /\ \A d \in Discard : discard[d].pc = "idle"
      /\ \A n \in Undo : undo[n].pc = "idle" /\ undo[n].list = {} /\ undo[n].removed = {}
  BY DEF Init, NewImport, NewCommit, NewDiscard, NewUndo
<1>6. CommitsFit /\ TalliesFit
  BY <1>3, <1>5 DEF CommitsFit, TalliesFit, UnderWay, Case
<1>7. ImportsFit /\ CasesFit /\ DiscardsFit /\ UndosFit
  BY <1>4, <1>5 DEF ImportsFit, CasesFit, DiscardsFit, UndosFit, OneCasePerSourceRow,
     HistoryEndsAtTheStatus
<1>8. CasesCanBeTakenBack
  BY <1>4 DEF CasesCanBeTakenBack
<1> QED BY <1>2, <1>6, <1>7, <1>8 DEF IInv

(* Every step of every handler keeps what the others rely on.               *)
THEOREM MigrationFits == Spec => []IInv
<1>1. Init => IInv
  BY InitFits
<1>2. IInv /\ [Next]_vars => IInv'
  <2> SUFFICES ASSUME TypeOK, ImportsFit, CommitsFit, TalliesFit, CasesFit, DiscardsFit,
                      UndosFit, CasesCanBeTakenBack, [Next]_vars
               PROVE  IInv'
    BY DEF IInv
  <2>1. TypeOK' BY StepIsTyped
  <2>2. ImportsFit' BY StepKeepsImports
  <2>3. CommitsFit' BY StepKeepsCommits
  <2>4. TalliesFit' BY StepKeepsTallies
  <2>5. CasesFit' BY StepKeepsCases
  <2>6. DiscardsFit' BY StepKeepsDiscards
  <2>7. UndosFit' BY StepKeepsUndos
  <2>8. CasesCanBeTakenBack' BY StepKeepsTheWayBack
  <2> QED BY <2>1, <2>2, <2>3, <2>4, <2>5, <2>6, <2>7, <2>8 DEF IInv
<1> QED BY <1>1, <1>2, PTL DEF Spec

(* writeCase: a source id never names two cases, with any number of commits *)
(* of any number of uploads of the same export.                             *)
THEOREM SourceRowsAreUnique == Spec => []OneCasePerSourceRow
<1>1. IInv => OneCasePerSourceRow
  BY DEF IInv, CasesFit
<1> QED BY <1>1, MigrationFits, PTL

(* An imported case can be taken back with its upload, unless a commit died *)
(* half way or a discard or an undo crossed one.                            *)
THEOREM WayBackStaysOpen == Spec => []CasesCanBeTakenBack
<1>1. IInv => CasesCanBeTakenBack
  BY DEF IInv
<1> QED BY <1>1, MigrationFits, PTL

(* undo deletes only what its own upload made, and its audit entry names    *)
(* whatever it deleted.                                                     *)
THEOREM UndosAreHonest == Spec => []UndoIsHonest
<1>1. IInv => UndoIsHonest
  BY DEF IInv, UndosFit, UndoIsHonest, UndoDeletesItsOwn, AuditNamesWhatIsGone
<1> QED BY <1>1, MigrationFits, PTL

(* What commit reports sums up to the file and counts the cases it made,    *)
(* and a case's history ends at its status.                                 *)
THEOREM ImportsAreRecorded == Spec => []MigrationInv
<1>1. IInv => TalliesAreTrue
  <2> SUFFICES ASSUME IInv, NEW c \in Commit, commit[c].pc = "done"
               PROVE  LET t == commit[c].tally IN
                      /\ t.imported + t.updated + t.skipped + t.failed = Len(commit[c].file)
                      /\ t.imported
                           = Cardinality({k \in Case : k[1] = c /\ kase[k].state # "none"})
    BY DEF TalliesAreTrue
  <2>1. /\ commit[c].tally.imported + commit[c].tally.updated + commit[c].tally.skipped
             + commit[c].tally.failed = commit[c].i - 1
        /\ commit[c].tally.imported = Cardinality(CasesOf(c))
    BY DEF IInv, TalliesFit
  <2>2. commit[c].i = Len(commit[c].file) + 1 /\ Len(commit[c].file) \in Nat
    <3>1. commit[c].file \in Files /\ commit[c].i = Len(commit[c].file) + 1
      BY DEF IInv, CommitsFit
    <3> QED BY <3>1, MigrationAssumption
  <2> QED BY <2>1, <2>2 DEF CasesOf
<1>2. IInv => MigrationInv
  BY <1>1 DEF IInv, MigrationInv, CasesFit
<1> QED BY <1>2, MigrationFits, PTL

-----------------------------------------------------------------------------
(* Induction on the naturals and along a sequence, stated of a set.         *)
LEMMA Least ==
    ASSUME NEW T, T \subseteq Nat, T # {}
    PROVE  \E n \in T : \A m \in T : n <= m
<1> DEFINE R == OpToRel(<, Nat)
<1>1. IsWellFoundedOn(R, Nat)
  BY NatLessThanWellFounded
<1>2. \E x \in T : \A y \in T : ~ (<<y, x>> \in R)
  <2> HIDE DEF R
  <2> QED BY <1>1, WFMin
<1>3. PICK n \in T : \A m \in T : ~ (<<m, n>> \in R)
  BY <1>2
<1>4. \A m \in T : n <= m
  <2> SUFFICES ASSUME NEW m \in T, ~(n <= m) PROVE FALSE
    OBVIOUS
  <2>1. m \in Nat /\ n \in Nat /\ m < n
    OBVIOUS
  <2>2. <<m, n>> \in R
    BY <2>1 DEF OpToRel
  <2> QED BY <1>3, <2>2
<1> QED BY <1>4

LEMMA Upwards ==
    ASSUME NEW S, 0 \in S, \A n \in Nat : n \in S => n + 1 \in S
    PROVE  Nat \subseteq S
<1> SUFFICES ASSUME Nat \ S # {} PROVE FALSE
  OBVIOUS
<1>1. PICK n \in Nat \ S : \A m \in Nat \ S : n <= m
  BY Least
<1>2. n # 0 /\ n - 1 \in Nat
  OBVIOUS
<1>3. n - 1 \in S
  BY <1>1, <1>2
<1> QED BY <1>2, <1>3

(* Induction along a sequence, an element at a time.                         *)
LEMMA Onwards ==
    ASSUME NEW S, NEW T, <<>> \in T,
           \A s \in Seq(S), x \in S : s \in T => Append(s, x) \in T
    PROVE  Seq(S) \subseteq T
<1> DEFINE U == {n \in Nat : \A s \in Seq(S) : Len(s) = n => s \in T}
<1>1. 0 \in U
  BY EmptySeq
<1>2. ASSUME NEW n \in Nat, n \in U PROVE n + 1 \in U
  <2> SUFFICES ASSUME NEW s \in Seq(S), Len(s) = n + 1 PROVE s \in T
    OBVIOUS
  <2>1. s # <<>>
    BY EmptySeq
  <2>2. PICK r \in Seq(S), x \in S : s = Append(r, x)
    BY <2>1, SequenceEmptyOrAppend
  <2>3. Len(s) = Len(r) + 1 /\ Len(r) \in Nat
    BY <2>2, AppendProperties, LenProperties
  <2>4. Len(r) = n
    BY <2>3
  <2>5. r \in T
    BY <2>4, <1>2
  <2> QED BY <2>2, <2>5
<1>3. Nat \subseteq U
  <2> HIDE DEF U
  <2> QED BY <1>1, <1>2, Upwards
<1> QED BY <1>3, LenProperties

-----------------------------------------------------------------------------
(* FlattenSeq of the community modules is a recursive function: there is one *)
(* for every sequence, and it has the values its definition says.            *)
Flattening(s, n, f) == f = [i \in 1 .. n |-> IF i = 1 THEN s[i] ELSE f[i - 1] \o s[i]]

LEMMA FlatteningExists ==
    ASSUME NEW s
    PROVE  \A n \in Nat : n # 0 => \E f : Flattening(s, n, f)
<1> DEFINE S == {n \in Nat : n # 0 => \E f : Flattening(s, n, f)}
<1>1. ASSUME NEW n \in Nat, n \in S
      PROVE  n + 1 \in S
  <2>1. CASE n = 0
    <3> DEFINE f == [i \in 1 .. 1 |-> s[i]]
    <3>1. f = [i \in 1 .. 1 |-> IF i = 1 THEN s[i] ELSE f[i - 1] \o s[i]]
      OBVIOUS
    <3>2. Flattening(s, 1, f)
      BY <3>1 DEF Flattening
    <3> HIDE DEF f
    <3> QED BY <2>1, <3>2
  <2>2. CASE n # 0
    <3>1. PICK f : Flattening(s, n, f)
      BY <1>1, <2>2
    <3>2. f = [i \in 1 .. n |-> IF i = 1 THEN s[i] ELSE f[i - 1] \o s[i]]
      BY <3>1 DEF Flattening
    <3> DEFINE g == [i \in 1 .. n + 1 |-> IF i = n + 1 THEN f[n] \o s[n + 1] ELSE f[i]]
    <3>3. \A i \in 1 .. n + 1 : g[i] = IF i = 1 THEN s[i] ELSE g[i - 1] \o s[i]
      <4> SUFFICES ASSUME NEW i \in 1 .. n + 1
                   PROVE  g[i] = IF i = 1 THEN s[i] ELSE g[i - 1] \o s[i]
        OBVIOUS
      <4>1. CASE i = n + 1
        <5>1. n \in 1 .. n + 1 /\ n # n + 1 /\ n + 1 \in 1 .. n + 1
          BY <2>2
        <5>2. g[n] = f[n] /\ g[n + 1] = f[n] \o s[n + 1]
          BY <5>1
        <5>3. n + 1 # 1 /\ (n + 1) - 1 = n
          BY <2>2
        <5> HIDE DEF g
        <5>4. g[i] = g[n] \o s[i] /\ i # 1 /\ i - 1 = n
          BY <4>1, <5>2, <5>3
        <5> QED BY <5>4
      <4>2. CASE i # n + 1
        <5>1. i \in 1 .. n /\ g[i] = f[i] /\ (i # 1 => g[i - 1] = f[i - 1])
          BY <4>2
        <5>2. f[i] = IF i = 1 THEN s[i] ELSE f[i - 1] \o s[i]
          BY <3>2, <5>1
        <5> HIDE DEF g
        <5> QED BY <5>1, <5>2
      <4> QED BY <4>1, <4>2
    <3>4. g = [i \in 1 .. n + 1 |-> g[i]]
      OBVIOUS
    <3> HIDE DEF g
    <3>5. Flattening(s, n + 1, g)
      BY <3>3, <3>4 DEF Flattening
    <3> QED BY <3>5
  <2> QED BY <2>1, <2>2
<1>2. 0 \in S
  OBVIOUS
<1>3. Nat \subseteq S
  <2> HIDE DEF S
  <2> QED BY <1>1, <1>2, Upwards
<1> QED BY <1>3

LEMMA FlattenFrom ==
    ASSUME NEW s, Len(s) \in Nat, Len(s) # 0
    PROVE  \E f : Flattening(s, Len(s), f) /\ FlattenSeq(s) = f[Len(s)]
  BY FlatteningExists DEF FlattenSeq, Flattening

LEMMA FlattenEmpty == FlattenSeq(<<>>) = <<>>
  BY DEF FlattenSeq

LEMMA FlattenAppend ==
    ASSUME NEW S, NEW s \in Seq(Seq(S)), NEW x \in Seq(S)
    PROVE  FlattenSeq(Append(s, x)) = FlattenSeq(s) \o x
<1> DEFINE n == Len(s)
           t == Append(s, x)
<1>1. /\ n \in Nat /\ t \in Seq(Seq(S)) /\ Len(t) = n + 1 /\ t[n + 1] = x
      /\ \A i \in 1 .. n : t[i] = s[i]
  BY AppendProperties, LenProperties
<1> HIDE DEF t
<1>2. PICK g : Flattening(t, n + 1, g) /\ FlattenSeq(t) = g[n + 1]
  <2>1. Len(t) \in Nat /\ Len(t) # 0
    BY <1>1
  <2> QED BY <1>1, <2>1, FlattenFrom
<1>3. \A i \in 1 .. n + 1 : g[i] = IF i = 1 THEN t[i] ELSE g[i - 1] \o t[i]
  BY <1>2 DEF Flattening
<1>4. CASE n = 0
  <2>1. s = <<>> /\ FlattenSeq(s) = <<>>
    BY <1>4, EmptySeq, FlattenEmpty
  <2>2. FlattenSeq(t) = x
    BY <1>1, <1>2, <1>3, <1>4
  <2>3. <<>> \o x = x
    OBVIOUS
  <2> QED BY <2>1, <2>2, <2>3 DEF t
<1>5. CASE n # 0
  <2>1. PICK f : Flattening(s, n, f) /\ FlattenSeq(s) = f[n]
    BY <1>1, <1>5, FlattenFrom
  <2>2. \A i \in 1 .. n : f[i] = IF i = 1 THEN s[i] ELSE f[i - 1] \o s[i]
    BY <2>1 DEF Flattening
  <2> DEFINE T == {i \in Nat : i \in 1 .. n => f[i] = g[i]}
  <2>3. ASSUME NEW i \in Nat, i \in T PROVE i + 1 \in T
    <3> SUFFICES ASSUME i + 1 \in 1 .. n PROVE f[i + 1] = g[i + 1]
      OBVIOUS
    <3>1. i + 1 \in 1 .. n + 1 /\ t[i + 1] = s[i + 1] /\ (i + 1) - 1 = i
      BY <1>1
    <3>2. CASE i = 0
      BY <3>1, <3>2, <2>2, <1>3
    <3>3. CASE i # 0
      <4>1. f[i] = g[i]
        BY <2>3, <3>3
      <4>2. i + 1 # 1
        BY <3>3
      <4>3. f[i + 1] = f[i] \o s[i + 1]
        BY <4>2, <3>1, <2>2
      <4>4. g[i + 1] = g[i] \o t[i + 1]
        BY <4>2, <3>1, <1>3
      <4> QED BY <4>1, <4>3, <4>4, <3>1
    <3> QED BY <3>2, <3>3
  <2>4. 0 \in T
    OBVIOUS
  <2>5. Nat \subseteq T
    <3> HIDE DEF T
    <3> QED BY <2>3, <2>4, Upwards
  <2>6. f[n] = g[n]
    BY <2>5, <1>1, <1>5
  <2>7. g[n + 1] = g[n] \o x
    <3>1. n + 1 \in 1 .. n + 1 /\ n + 1 # 1 /\ (n + 1) - 1 = n
      BY <1>1, <1>5
    <3>2. g[n + 1] = g[n] \o t[n + 1]
      BY <3>1, <1>3
    <3> QED BY <3>2, <1>1
  <2> QED BY <2>1, <2>6, <2>7, <1>2 DEF t
<1> QED BY <1>4, <1>5

LEMMA FlattenType ==
    ASSUME NEW S, NEW s \in Seq(Seq(S))
    PROVE  FlattenSeq(s) \in Seq(S)
<1> DEFINE n == Len(s)
<1>0. n \in Nat /\ \A i \in 1 .. n : s[i] \in Seq(S)
  BY LenProperties, ElementOfSeq
<1>1. CASE n = 0
  BY <1>1, EmptySeq, FlattenEmpty
<1>2. CASE n # 0
  <2>1. PICK f : Flattening(s, n, f) /\ FlattenSeq(s) = f[n]
    BY <1>0, <1>2, FlattenFrom
  <2>2. \A i \in 1 .. n : f[i] = IF i = 1 THEN s[i] ELSE f[i - 1] \o s[i]
    BY <2>1 DEF Flattening
  <2> DEFINE T == {i \in Nat : i \in 1 .. n => f[i] \in Seq(S)}
  <2>3. ASSUME NEW i \in Nat, i \in T PROVE i + 1 \in T
    <3> SUFFICES ASSUME i + 1 \in 1 .. n PROVE f[i + 1] \in Seq(S)
      OBVIOUS
    <3>1. CASE i = 0
      BY <3>1, <1>0, <2>2
    <3>2. CASE i # 0
      <4>0. i + 1 # 1 /\ (i + 1) - 1 = i /\ i \in 1 .. n
        BY <3>2
      <4>1. f[i] \in Seq(S) /\ s[i + 1] \in Seq(S) /\ f[i + 1] = f[i] \o s[i + 1]
        <5>1. f[i + 1] = f[i] \o s[i + 1]
          BY <4>0, <2>2
        <5> QED BY <5>1, <4>0, <2>3, <1>0
      <4> QED BY <4>1, ConcatProperties
    <3> QED BY <3>1, <3>2
  <2>4. 0 \in T
    OBVIOUS
  <2>5. Nat \subseteq T
    <3> HIDE DEF T
    <3> QED BY <2>3, <2>4, Upwards
  <2> QED BY <2>1, <2>5, <1>0, <1>2
<1> QED BY <1>1, <1>2
LEMMA FlattenConcat ==
    ASSUME NEW S, NEW s \in Seq(Seq(S)), NEW t \in Seq(Seq(S))
    PROVE  FlattenSeq(s \o t) = FlattenSeq(s) \o FlattenSeq(t)
<1> DEFINE T == {r \in Seq(Seq(S)) : FlattenSeq(s \o r) = FlattenSeq(s) \o FlattenSeq(r)}
<1>1. <<>> \in T
  <2>1. s \o <<>> = s /\ FlattenSeq(s) \o <<>> = FlattenSeq(s)
    BY ConcatEmptySeq, FlattenType
  <2> QED BY <2>1, FlattenEmpty, EmptySeq
<1>2. ASSUME NEW r \in Seq(Seq(S)), NEW x \in Seq(S), r \in T
      PROVE  Append(r, x) \in T
  <2>1. Append(r, x) \in Seq(Seq(S)) /\ s \o r \in Seq(Seq(S))
    BY AppendProperties, ConcatProperties
  <2>2. s \o Append(r, x) = Append(s \o r, x)
    <3>1. <<x>> \in Seq(Seq(S))
      OBVIOUS
    <3>2. Append(r, x) = r \o <<x>> /\ Append(s \o r, x) = (s \o r) \o <<x>>
      BY <2>1, AppendIsConcat
    <3>3. (s \o r) \o <<x>> = s \o (r \o <<x>>)
      BY <3>1, ConcatAssociative
    <3> QED BY <3>2, <3>3
  <2>3. FlattenSeq(Append(s \o r, x)) = FlattenSeq(s \o r) \o x
    BY <2>1, FlattenAppend
  <2>4. FlattenSeq(Append(r, x)) = FlattenSeq(r) \o x
    BY FlattenAppend
  <2>5. (FlattenSeq(s) \o FlattenSeq(r)) \o x = FlattenSeq(s) \o (FlattenSeq(r) \o x)
    <3>1. FlattenSeq(s) \in Seq(S) /\ FlattenSeq(r) \in Seq(S)
      BY FlattenType
    <3> QED BY <3>1, ConcatAssociative
  <2> QED BY <1>2, <2>1, <2>2, <2>3, <2>4, <2>5
<1>3. Seq(Seq(S)) \subseteq T
  <2> HIDE DEF T
  <2> QED BY <1>1, <1>2, Onwards
<1> QED BY <1>3

LEMMA SameLength ==
    ASSUME NEW m \in Nat, NEW n \in Nat, 1 .. m = 1 .. n
    PROVE  m = n
<1>1. CASE m < n
  <2>1. n \in 1 .. n /\ n \notin 1 .. m
    BY <1>1
  <2> QED BY <2>1
<1>2. CASE n < m
  <2>1. m \in 1 .. m /\ m \notin 1 .. n
    BY <1>2
  <2> QED BY <2>1
<1> QED BY <1>1, <1>2

LEMMA ConcatAppend ==
    ASSUME NEW S, NEW s \in Seq(S), NEW t \in Seq(S), NEW x \in S
    PROVE  s \o Append(t, x) = Append(s \o t, x)
<1>1. <<x>> \in Seq(S) /\ s \o t \in Seq(S)
  BY ConcatProperties
<1>2. Append(t, x) = t \o <<x>> /\ Append(s \o t, x) = (s \o t) \o <<x>>
  BY <1>1, AppendIsConcat
<1>3. (s \o t) \o <<x>> = s \o (t \o <<x>>)
  BY <1>1, ConcatAssociative
<1> QED BY <1>2, <1>3

-----------------------------------------------------------------------------
(* CsvText: what is written is read back.                                    *)
Text == Seq(Symbols)
Outer(rs, r, g) == [rows |-> rs, row |-> r, field |-> g, quoted |-> FALSE, skip |-> FALSE]
Inner(rs, r, g) == [rows |-> rs, row |-> r, field |-> g, quoted |-> TRUE, skip |-> FALSE]
Paired(rs, r, g) == [rows |-> rs, row |-> r, field |-> g, quoted |-> TRUE, skip |-> TRUE]

(* x stands in the text after its first p symbols.                           *)
At(text, p, x) ==
    /\ p \in Nat /\ p + Len(x) <= Len(text)
    /\ \A i \in 1 .. Len(x) : text[p + i] = x[i]

LEMMA AtConcat ==
    ASSUME NEW text \in Text, NEW x \in Text, NEW y \in Text, NEW p, At(text, p, x \o y)
    PROVE  /\ At(text, p, x) /\ At(text, p + Len(x), y)
           /\ Len(x \o y) = Len(x) + Len(y) /\ Len(x) \in Nat /\ Len(y) \in Nat /\ p \in Nat
           /\ Len(text) \in Nat
<1>1. /\ x \o y \in Text /\ Len(x \o y) = Len(x) + Len(y)
      /\ \A i \in 1 .. Len(x) + Len(y) : (x \o y)[i] =
            IF i <= Len(x) THEN x[i] ELSE y[i - Len(x)]
  BY ConcatProperties DEF Text
<1>2. Len(x) \in Nat /\ Len(y) \in Nat /\ Len(text) \in Nat
  BY LenProperties DEF Text
<1>3. PICK m \in Nat, n \in Nat, k \in Nat : m = Len(x) /\ n = Len(y) /\ k = Len(text)
  BY <1>2
<1>4. /\ p \in Nat /\ p + (m + n) <= k
      /\ \A i \in 1 .. m + n : text[p + i] = IF i <= m THEN x[i] ELSE y[i - m]
  BY <1>1, <1>3 DEF At
<1>5. At(text, p, x)
  <2>1. p + m <= k /\ \A i \in 1 .. m : i \in 1 .. m + n /\ i <= m
    BY <1>4
  <2> QED BY <2>1, <1>3, <1>4 DEF At
<1>6. At(text, p + Len(x), y)
  <2>1. p + m \in Nat /\ (p + m) + n <= k
    BY <1>4
  <2>2. ASSUME NEW i \in 1 .. n PROVE text[(p + m) + i] = y[i]
    <3>1. m + i \in 1 .. m + n /\ ~(m + i <= m) /\ (m + i) - m = i /\ p + (m + i) = (p + m) + i
      BY <1>4
    <3>2. text[p + (m + i)] = y[(m + i) - m]
      BY <3>1, <1>4
    <3> QED BY <3>1, <3>2
  <2> QED BY <2>1, <2>2, <1>3 DEF At
<1> QED BY <1>1, <1>2, <1>4, <1>5, <1>6

(* The scanner is a recursive function: there is one for every text.         *)
Scans(text, d, n, f) ==
    f = [i \in 0 .. n |-> IF i = 0 THEN Scanner ELSE Scan(text, d, f[i - 1], i)]

LEMMA ScanExists ==
    ASSUME NEW text, NEW d
    PROVE  \A n \in Nat : \E f : Scans(text, d, n, f)
<1> DEFINE S == {n \in Nat : \E f : Scans(text, d, n, f)}
<1>1. 0 \in S
  <2> DEFINE f == [i \in 0 .. 0 |-> Scanner]
  <2>1. f = [i \in 0 .. 0 |-> IF i = 0 THEN Scanner ELSE Scan(text, d, f[i - 1], i)]
    OBVIOUS
  <2>2. Scans(text, d, 0, f)
    BY <2>1 DEF Scans
  <2> HIDE DEF f
  <2> QED BY <2>2
<1>2. ASSUME NEW n \in Nat, n \in S PROVE n + 1 \in S
  <2>1. PICK f : Scans(text, d, n, f)
    BY <1>2
  <2>2. f = [i \in 0 .. n |-> IF i = 0 THEN Scanner ELSE Scan(text, d, f[i - 1], i)]
    BY <2>1 DEF Scans
  <2> DEFINE g == [i \in 0 .. n + 1 |-> IF i = n + 1 THEN Scan(text, d, f[n], n + 1) ELSE f[i]]
  <2>3. \A i \in 0 .. n + 1 : g[i] = IF i = 0 THEN Scanner ELSE Scan(text, d, g[i - 1], i)
    <3> SUFFICES ASSUME NEW i \in 0 .. n + 1
                 PROVE  g[i] = IF i = 0 THEN Scanner ELSE Scan(text, d, g[i - 1], i)
      OBVIOUS
    <3>1. CASE i = n + 1
      <4>1. n \in 0 .. n + 1 /\ n # n + 1 /\ n + 1 \in 0 .. n + 1 /\ n + 1 # 0 /\ (n + 1) - 1 = n
        OBVIOUS
      <4>2. g[n] = f[n] /\ g[n + 1] = Scan(text, d, f[n], n + 1)
        BY <4>1
      <4> HIDE DEF g
      <4>3. g[n + 1] = Scan(text, d, g[(n + 1) - 1], n + 1)
        BY <4>1, <4>2
      <4> QED BY <3>1, <4>1, <4>3
    <3>2. CASE i # n + 1
      <4>1. i \in 0 .. n /\ g[i] = f[i] /\ (i # 0 => g[i - 1] = f[i - 1])
        BY <3>2
      <4>2. f[i] = IF i = 0 THEN Scanner ELSE Scan(text, d, f[i - 1], i)
        BY <2>2, <4>1
      <4> HIDE DEF g
      <4>3. CASE i = 0
        BY <4>1, <4>2, <4>3
      <4>4. CASE i # 0
        BY <4>1, <4>2, <4>4
      <4> QED BY <4>3, <4>4
    <3> QED BY <3>1, <3>2
  <2>4. g = [i \in 0 .. n + 1 |-> g[i]]
    OBVIOUS
  <2> HIDE DEF g
  <2>5. Scans(text, d, n + 1, g)
    BY <2>3, <2>4 DEF Scans
  <2> QED BY <2>5
<1>3. Nat \subseteq S
  <2> HIDE DEF S
  <2> QED BY <1>1, <1>2, Upwards
<1> QED BY <1>3

Follows(text, f) ==
    f[0] = Scanner /\ \A p \in Nat : p < Len(text) => f[p + 1] = Scan(text, Comma, f[p], p + 1)

LEMMA ScannedIs ==
    ASSUME NEW text \in Text
    PROVE  \E f : Follows(text, f) /\ Scanned(text, Comma) = f[Len(text)]
<1>1. Len(text) \in Nat
  BY LenProperties DEF Text
<1>2. PICK f : Scans(text, Comma, Len(text), f) /\ Scanned(text, Comma) = f[Len(text)]
  <2>1. \E f : Scans(text, Comma, Len(text), f)
    BY <1>1, ScanExists
  <2> QED BY <2>1 DEF Scanned, Scans
<1>3. f = [i \in 0 .. Len(text) |-> IF i = 0 THEN Scanner ELSE Scan(text, Comma, f[i - 1], i)]
  BY <1>2 DEF Scans
<1>4. f[0] = Scanner
  <2>1. 0 \in 0 .. Len(text)
    BY <1>1
  <2> QED BY <1>3, <2>1
<1>5. ASSUME NEW p \in Nat, p < Len(text)
      PROVE  f[p + 1] = Scan(text, Comma, f[p], p + 1)
  <2>1. p + 1 \in 0 .. Len(text) /\ p + 1 # 0 /\ (p + 1) - 1 = p
    BY <1>1, <1>5
  <2>2. f[p + 1] = Scan(text, Comma, f[(p + 1) - 1], p + 1)
    BY <1>3, <2>1
  <2> QED BY <2>1, <2>2
<1> QED BY <1>2, <1>4, <1>5 DEF Follows

(* One symbol.                                                               *)
LEMMA ScanOne ==
    ASSUME NEW text, NEW i, NEW rs, NEW r, NEW g
    PROVE  /\ text[i] \notin {Quote, Comma, CR, LF} =>
                Scan(text, Comma, Outer(rs, r, g), i) =
                  Outer(rs, r, Append(g, text[i]))
           /\ text[i] = Quote =>
                Scan(text, Comma, Outer(rs, r, g), i) = Inner(rs, r, g)
           /\ text[i] = Comma =>
                Scan(text, Comma, Outer(rs, r, g), i) =
                  Outer(rs, Append(r, g), <<>>)
           /\ text[i] = CR /\ i < Len(text) /\ text[i + 1] = LF =>
                Scan(text, Comma, Outer(rs, r, g), i) = Outer(rs, r, g)
           /\ text[i] = LF =>
                Scan(text, Comma, Outer(rs, r, g), i) =
                  Outer(Append(rs, Append(r, g)), <<>>, <<>>)
<1>0. Quote # Comma /\ Quote # CR /\ Quote # LF /\ CR # Comma /\ LF # Comma /\ CR # LF
  BY DEF Quote, Comma, CR, LF
<1>1. CASE text[i] \notin {Quote, Comma, CR, LF}
  BY <1>1 DEF Scan, Outer, Inner, Paired
<1>2. CASE text[i] = Quote
  BY <1>0, <1>2 DEF Scan, Outer, Inner, Paired
<1>3. CASE text[i] = Comma
  BY <1>0, <1>3 DEF Scan, Outer, Inner, Paired, EndField
<1>4. CASE text[i] = CR
  BY <1>0, <1>4 DEF Scan, Outer, Inner, Paired
<1>5. CASE text[i] = LF
  BY <1>0, <1>5 DEF Scan, Outer, Inner, Paired, EndRecord
<1> QED BY <1>0, <1>1, <1>2, <1>3, <1>4, <1>5

LEMMA ScanQuoted ==
    ASSUME NEW text, NEW i, NEW rs, NEW r, NEW g
    PROVE  /\ text[i] # Quote =>
                Scan(text, Comma, Inner(rs, r, g), i) =
                  Inner(rs, r, Append(g, text[i]))
           /\ text[i] = Quote /\ i < Len(text) /\ text[i + 1] = Quote =>
                Scan(text, Comma, Inner(rs, r, g), i) =
                  Paired(rs, r, Append(g, Quote))
           /\ text[i] = Quote /\ i < Len(text) /\ text[i + 1] # Quote =>
                Scan(text, Comma, Inner(rs, r, g), i) = Outer(rs, r, g)
           /\ Scan(text, Comma, Paired(rs, r, g), i) = Inner(rs, r, g)
  BY DEF Scan, Outer, Inner, Paired

LEMMA AtAppend ==
    ASSUME NEW text \in Text, NEW x \in Text, NEW c \in Symbols, NEW p,
           At(text, p, Append(x, c))
    PROVE  /\ At(text, p, x) /\ Len(x) \in Nat /\ p + Len(x) \in Nat
           /\ p + Len(x) < Len(text) /\ text[p + Len(x) + 1] = c
           /\ p + Len(Append(x, c)) = p + Len(x) + 1
<1>1. <<c>> \in Text /\ Append(x, c) = x \o <<c>> /\ Len(<<c>>) = 1 /\ <<c>>[1] = c
  BY AppendIsConcat DEF Text
<1>2. At(text, p, x \o <<c>>)
  BY <1>1
<1>3. /\ At(text, p, x) /\ At(text, p + Len(x), <<c>>) /\ Len(x \o <<c>>) = Len(x) + Len(<<c>>)
      /\ Len(x) \in Nat /\ p \in Nat /\ Len(text) \in Nat
  BY <1>1, <1>2, AtConcat
<1>4. PICK m \in Nat, k \in Nat : m = Len(x) /\ k = Len(text)
  BY <1>3
<1>5. p + m + 1 <= k /\ text[p + m + 1] = c
  BY <1>1, <1>3, <1>4 DEF At
<1>6. p + m < k /\ p + m \in Nat /\ p + (m + 1) = p + m + 1
  BY <1>3, <1>5
<1> QED BY <1>1, <1>3, <1>4, <1>5, <1>6

LEMMA PlainRun ==
    ASSUME NEW text \in Text, NEW f, Follows(text, f), NEW p, NEW rs, NEW r, NEW g \in Text,
           f[p] = Outer(rs, r, g)
    PROVE  \A x \in Text :
             At(text, p, x) /\ (\A i \in 1 .. Len(x) : x[i] \notin {Quote, Comma, CR, LF}) =>
               f[p + Len(x)] = Outer(rs, r, g \o x)
<1> DEFINE T == {x \in Text :
             At(text, p, x) /\ (\A i \in 1 .. Len(x) : x[i] \notin {Quote, Comma, CR, LF}) =>
               f[p + Len(x)] = Outer(rs, r, g \o x)}
<1>1. <<>> \in T
  <2>1. <<>> \in Text /\ Len(<<>>) = 0 /\ g \o <<>> = g
    BY ConcatEmptySeq, EmptySeq DEF Text
  <2>2. At(text, p, <<>>) => p + 0 = p
    BY DEF At
  <2> QED BY <2>1, <2>2
<1>2. ASSUME NEW x \in Text, NEW c \in Symbols, x \in T
      PROVE  Append(x, c) \in T
  <2> DEFINE y == Append(x, c)
  <2>1. /\ y \in Text /\ Len(y) = Len(x) + 1 /\ y[Len(x) + 1] = c /\ Len(x) \in Nat
        /\ \A i \in 1 .. Len(x) : y[i] = x[i] /\ i \in 1 .. Len(y)
        /\ Len(x) + 1 \in 1 .. Len(y)
    BY AppendProperties, LenProperties DEF Text
  <2> SUFFICES ASSUME At(text, p, y), \A i \in 1 .. Len(y) : y[i] \notin {Quote, Comma, CR, LF}
               PROVE  f[p + Len(y)] = Outer(rs, r, g \o y)
    BY <2>1
  <2>2. /\ At(text, p, x) /\ p + Len(x) \in Nat
        /\ p + Len(x) < Len(text) /\ text[p + Len(x) + 1] = c /\ p + Len(y) = p + Len(x) + 1
    BY AtAppend
  <2> HIDE DEF y
  <2>3. c \notin {Quote, Comma, CR, LF} /\ \A i \in 1 .. Len(x) : x[i] \notin {Quote, Comma, CR, LF}
    BY <2>1
  <2>4. f[p + Len(x)] = Outer(rs, r, g \o x)
    BY <1>2, <2>2, <2>3
  <2>5. f[p + Len(x) + 1] = Scan(text, Comma, f[p + Len(x)], p + Len(x) + 1)
    BY <2>2 DEF Follows
  <2>6. f[p + Len(x) + 1] = Outer(rs, r, Append(g \o x, c))
    BY <2>2, <2>3, <2>4, <2>5, ScanOne
  <2>7. g \o y = Append(g \o x, c)
    BY ConcatAppend DEF Text, y
  <2> QED BY <2>2, <2>6, <2>7
<1>3. Seq(Symbols) \subseteq T
  <2>1. <<>> \in T /\ \A x \in Seq(Symbols), c \in Symbols : x \in T => Append(x, c) \in T
    BY <1>1, <1>2 DEF Text
  <2> HIDE DEF T
  <2> QED BY <2>1, Onwards
<1> QED BY <1>3 DEF Text

LEMMA AppendIs ==
    ASSUME NEW S, NEW s \in Seq(S), NEW x \in S, NEW u \in Seq(S), Len(u) = Len(s) + 1,
           u[Len(s) + 1] = x, \A i \in 1 .. Len(s) : u[i] = s[i]
    PROVE  u = Append(s, x)
<1>1. /\ Append(s, x) \in Seq(S) /\ Len(Append(s, x)) = Len(s) + 1
      /\ Append(s, x)[Len(s) + 1] = x /\ \A i \in 1 .. Len(s) : Append(s, x)[i] = s[i]
  BY AppendProperties
<1>2. Len(s) \in Nat
  BY LenProperties
<1>3. \A i \in 1 .. Len(s) + 1 : i \in 1 .. Len(s) \/ i = Len(s) + 1
  BY <1>2
<1>4. \A i \in 1 .. Len(u) : u[i] = Append(s, x)[i]
  BY <1>1, <1>3
<1> QED BY <1>1, <1>4, SeqEqual

Twice(c) == IF c = Quote THEN <<Quote, Quote>> ELSE <<c>>

LEMMA DoubledIs ==
    /\ Doubled(<<>>) = <<>>
    /\ \A x \in Text : Doubled(x) \in Text
    /\ \A x \in Text, c \in Symbols : Doubled(Append(x, c)) = Doubled(x) \o Twice(c)
<1>1. \A c \in Symbols : Twice(c) \in Seq(Symbols)
  BY DEF Twice, Quote
<1>2. \A x \in Text : /\ [i \in DOMAIN x |-> Twice(x[i])] \in Seq(Seq(Symbols))
                      /\ Len([i \in DOMAIN x |-> Twice(x[i])]) = Len(x)
                      /\ \A i \in 1 .. Len(x) : [j \in DOMAIN x |-> Twice(x[j])][i] = Twice(x[i])
  <2> SUFFICES ASSUME NEW x \in Text
               PROVE  /\ [i \in DOMAIN x |-> Twice(x[i])] \in Seq(Seq(Symbols))
                      /\ Len([i \in DOMAIN x |-> Twice(x[i])]) = Len(x)
                      /\ \A i \in 1 .. Len(x) : [j \in DOMAIN x |-> Twice(x[j])][i] = Twice(x[i])
    OBVIOUS
  <2>1. DOMAIN x = 1 .. Len(x) /\ Len(x) \in Nat /\ \A i \in 1 .. Len(x) : x[i] \in Symbols
    BY LenProperties, ElementOfSeq DEF Text
  <2>2. PICK n \in Nat : n = Len(x)
    BY <2>1
  <2> DEFINE u == [i \in 1 .. n |-> Twice(x[i])]
  <2>3. u \in [1 .. n -> Seq(Symbols)]
    BY <1>1, <2>1, <2>2
  <2>4. \A i \in 1 .. n : u[i] = Twice(x[i])
    OBVIOUS
  <2>5. u = [i \in DOMAIN x |-> Twice(x[i])]
    BY <2>1, <2>2
  <2> HIDE DEF u
  <2>6. u \in Seq(Seq(Symbols)) /\ Len(u) = n
    BY <2>3
  <2> QED BY <2>2, <2>4, <2>5, <2>6
<1>3. \A x : Doubled(x) = FlattenSeq([i \in DOMAIN x |-> Twice(x[i])])
  BY DEF Doubled, Twice
<1>4. \A x \in Text : Doubled(x) \in Text
  BY <1>2, <1>3, FlattenType DEF Text
<1>5. Doubled(<<>>) = <<>>
  <2>1. [i \in DOMAIN <<>> |-> Twice(<<>>[i])] = <<>>
    OBVIOUS
  <2> QED BY <1>3, <2>1, FlattenEmpty
<1>6. ASSUME NEW x \in Text, NEW c \in Symbols
      PROVE  Doubled(Append(x, c)) = Doubled(x) \o Twice(c)
  <2>1. /\ Append(x, c) \in Text /\ Len(Append(x, c)) = Len(x) + 1
        /\ Append(x, c)[Len(x) + 1] = c /\ \A i \in 1 .. Len(x) : Append(x, c)[i] = x[i]
        /\ Len(x) \in Nat
    BY AppendProperties, LenProperties DEF Text
  <2> DEFINE y == Append(x, c)
             u == [i \in DOMAIN y |-> Twice(y[i])]
             v == [i \in DOMAIN x |-> Twice(x[i])]
  <2>2. /\ u \in Seq(Seq(Symbols)) /\ Len(u) = Len(y)
        /\ \A i \in 1 .. Len(y) : u[i] = Twice(y[i])
    BY <1>2, <2>1
  <2>3. /\ v \in Seq(Seq(Symbols)) /\ Len(v) = Len(x)
        /\ \A i \in 1 .. Len(x) : v[i] = Twice(x[i])
    BY <1>2
  <2>4. Doubled(y) = FlattenSeq(u) /\ Doubled(x) = FlattenSeq(v)
    BY <1>3
  <2> HIDE DEF u, v
  <2>5. u = Append(v, Twice(c))
    <3>1. Len(x) + 1 \in 1 .. Len(x) + 1 /\ \A i \in 1 .. Len(x) : i \in 1 .. Len(x) + 1
      BY <2>1
    <3>2. Len(u) = Len(v) + 1 /\ u[Len(v) + 1] = Twice(c) /\ \A i \in 1 .. Len(v) : u[i] = v[i]
      BY <3>1, <2>1, <2>2, <2>3
    <3> QED BY <3>2, <2>2, <2>3, <1>1, AppendIs
  <2>6. FlattenSeq(Append(v, Twice(c))) = FlattenSeq(v) \o Twice(c)
    BY <1>1, <2>3, FlattenAppend
  <2> QED BY <2>4, <2>5, <2>6
<1> QED BY <1>4, <1>5, <1>6

LEMMA QuotedRun ==
    ASSUME NEW text \in Text, NEW f, Follows(text, f), NEW p, NEW rs, NEW r, NEW g \in Text,
           f[p] = Inner(rs, r, g)
    PROVE  \A x \in Text : At(text, p, Doubled(x)) =>
             f[p + Len(Doubled(x))] = Inner(rs, r, g \o x)
<1> DEFINE T == {x \in Text : At(text, p, Doubled(x)) =>
                   f[p + Len(Doubled(x))] = Inner(rs, r, g \o x)}
<1>1. <<>> \in T
  <2>1. <<>> \in Text /\ Len(<<>>) = 0 /\ g \o <<>> = g /\ Doubled(<<>>) = <<>>
    BY ConcatEmptySeq, EmptySeq, DoubledIs DEF Text
  <2>2. At(text, p, <<>>) => p + 0 = p
    BY DEF At
  <2> QED BY <2>1, <2>2
<1>2. ASSUME NEW x \in Text, NEW c \in Symbols, x \in T
      PROVE  Append(x, c) \in T
  <2> DEFINE y == Append(x, c)
  <2>1. y \in Text /\ Doubled(y) = Doubled(x) \o Twice(c) /\ Doubled(x) \in Text
    BY AppendProperties, DoubledIs DEF Text
  <2>2. g \o y = Append(g \o x, c)
    BY ConcatAppend DEF Text
  <2> HIDE DEF y
  <2> SUFFICES ASSUME At(text, p, Doubled(x) \o Twice(c))
               PROVE  f[p + Len(Doubled(x) \o Twice(c))] = Inner(rs, r, g \o y)
    BY <2>1 DEF y
  <2>3. Twice(c) \in Text
    BY DEF Twice, Quote, Text
  <2>4. /\ At(text, p, Doubled(x)) /\ At(text, p + Len(Doubled(x)), Twice(c))
        /\ Len(Doubled(x) \o Twice(c)) = Len(Doubled(x)) + Len(Twice(c))
        /\ Len(Doubled(x)) \in Nat /\ Len(text) \in Nat /\ p \in Nat
    BY <2>1, <2>3, AtConcat
  <2>5. PICK q \in Nat : q = p + Len(Doubled(x))
    BY <2>4
  <2>6. f[q] = Inner(rs, r, g \o x)
    BY <1>2, <2>4, <2>5
  <2>7. CASE c # Quote
    <3>1. Twice(c) = <<c>> /\ Len(<<c>>) = 1 /\ <<c>>[1] = c
      BY <2>7 DEF Twice
    <3>2. q + 1 <= Len(text) /\ text[q + 1] = c
      BY <3>1, <2>4, <2>5 DEF At
    <3>3. f[q + 1] = Scan(text, Comma, f[q], q + 1)
      BY <3>2, <2>4 DEF Follows
    <3>4. f[q + 1] = Inner(rs, r, Append(g \o x, c))
      BY <3>2, <3>3, <2>6, <2>7, ScanQuoted
    <3>5. p + Len(Doubled(x) \o Twice(c)) = q + 1
      BY <3>1, <2>4, <2>5
    <3> QED BY <3>4, <3>5, <2>2
  <2>8. CASE c = Quote
    <3>1. Twice(c) = <<Quote, Quote>> /\ Len(<<Quote, Quote>>) = 2
          /\ <<Quote, Quote>>[1] = Quote /\ <<Quote, Quote>>[2] = Quote
      BY <2>8 DEF Twice
    <3>2. q + 2 <= Len(text) /\ text[q + 1] = Quote /\ text[q + 2] = Quote
      BY <3>1, <2>4, <2>5 DEF At
    <3>3. /\ f[q + 1] = Scan(text, Comma, f[q], q + 1)
          /\ f[(q + 1) + 1] = Scan(text, Comma, f[q + 1], (q + 1) + 1)
      <4>1. q < Len(text) /\ q + 1 \in Nat /\ q + 1 < Len(text)
        BY <3>2, <2>4
      <4> QED BY <4>1 DEF Follows
    <3>4. f[q + 1] = Paired(rs, r, Append(g \o x, Quote))
      <4>1. q + 1 < Len(text) /\ text[(q + 1) + 1] = Quote
        <5>1. (q + 1) + 1 = q + 2
          OBVIOUS
        <5> QED BY <5>1, <3>2, <2>4
      <4> QED BY <4>1, <3>2, <3>3, <2>6, ScanQuoted
    <3>5. f[(q + 1) + 1] = Inner(rs, r, Append(g \o x, Quote))
      BY <3>3, <3>4, ScanQuoted
    <3>6. p + Len(Doubled(x) \o Twice(c)) = (q + 1) + 1
      BY <3>1, <2>4, <2>5
    <3> QED BY <3>5, <3>6, <2>2, <2>8
  <2> QED BY <2>7, <2>8
<1>3. Seq(Symbols) \subseteq T
  <2>1. <<>> \in T /\ \A x \in Seq(Symbols), c \in Symbols : x \in T => Append(x, c) \in T
    BY <1>1, <1>2 DEF Text
  <2> HIDE DEF T
  <2> QED BY <2>1, Onwards
<1> QED BY <1>3 DEF Text

-----------------------------------------------------------------------------
Image(m, s) == [i \in DOMAIN s |-> m[s[i]]]

LEMMA ImageIs ==
    ASSUME NEW S, NEW R, NEW m \in [S -> R]
    PROVE  /\ Image(m, <<>>) = <<>>
           /\ \A s \in Seq(S) : /\ Image(m, s) \in Seq(R) /\ Len(Image(m, s)) = Len(s)
                                /\ \A i \in 1 .. Len(s) : Image(m, s)[i] = m[s[i]]
           /\ \A s \in Seq(S), x \in S : Image(m, Append(s, x)) = Append(Image(m, s), m[x])
<1>1. Image(m, <<>>) = <<>>
  BY DEF Image
<1>2. ASSUME NEW s \in Seq(S)
      PROVE  /\ Image(m, s) \in Seq(R) /\ Len(Image(m, s)) = Len(s)
             /\ \A i \in 1 .. Len(s) : Image(m, s)[i] = m[s[i]]
  <2>1. DOMAIN s = 1 .. Len(s) /\ Len(s) \in Nat /\ \A i \in 1 .. Len(s) : s[i] \in S
    BY LenProperties, ElementOfSeq
  <2>2. PICK n \in Nat : n = Len(s)
    BY <2>1
  <2> DEFINE u == [i \in 1 .. n |-> m[s[i]]]
  <2>3. u \in [1 .. n -> R]
    BY <2>1, <2>2
  <2>4. \A i \in 1 .. n : u[i] = m[s[i]]
    OBVIOUS
  <2>5. u = Image(m, s)
    BY <2>1, <2>2 DEF Image
  <2> HIDE DEF u
  <2>6. u \in Seq(R) /\ Len(u) = n
    BY <2>3
  <2> QED BY <2>2, <2>4, <2>5, <2>6
<1>3. ASSUME NEW s \in Seq(S), NEW x \in S
      PROVE  Image(m, Append(s, x)) = Append(Image(m, s), m[x])
  <2>1. PICK t \in Seq(S) : t = Append(s, x)
    BY AppendProperties
  <2>2. /\ Len(t) = Len(s) + 1 /\ t[Len(s) + 1] = x /\ \A i \in 1 .. Len(s) : t[i] = s[i]
        /\ Len(s) \in Nat
    BY <2>1, AppendProperties, LenProperties
  <2>3. /\ Image(m, t) \in Seq(R) /\ Len(Image(m, t)) = Len(t)
        /\ \A i \in 1 .. Len(t) : Image(m, t)[i] = m[t[i]]
    BY <1>2
  <2>4. /\ Image(m, s) \in Seq(R) /\ Len(Image(m, s)) = Len(s)
        /\ \A i \in 1 .. Len(s) : Image(m, s)[i] = m[s[i]]
    BY <1>2
  <2>5. Len(s) + 1 \in 1 .. Len(s) + 1 /\ \A i \in 1 .. Len(s) : i \in 1 .. Len(s) + 1
    BY <2>2
  <2>6. /\ Len(Image(m, t)) = Len(Image(m, s)) + 1 /\ Image(m, t)[Len(Image(m, s)) + 1] = m[x]
        /\ \A i \in 1 .. Len(Image(m, s)) : Image(m, t)[i] = Image(m, s)[i]
    BY <2>2, <2>3, <2>4, <2>5
  <2>7. m[x] \in R
    OBVIOUS
  <2> QED BY <2>1, <2>3, <2>4, <2>6, <2>7, AppendIs
<1> QED BY <1>1, <1>2, <1>3

LEMMA JoinedIs ==
    ASSUME NEW glue \in Text
    PROVE  /\ \A parts \in Seq(Text) : Joined(parts, glue) \in Text
           /\ \A x \in Text : Joined(Append(<<>>, x), glue) = x
           /\ \A parts \in Seq(Text), x \in Text : parts # <<>> =>
                Joined(Append(parts, x), glue) = Joined(parts, glue) \o (glue \o x)
<1> DEFINE Glued(parts) == [i \in DOMAIN parts |-> IF i = 1 THEN parts[i] ELSE glue \o parts[i]]
<1>1. ASSUME NEW parts \in Seq(Text)
      PROVE  /\ Glued(parts) \in Seq(Text) /\ Len(Glued(parts)) = Len(parts)
             /\ \A i \in 1 .. Len(parts) :
                  Glued(parts)[i] = IF i = 1 THEN parts[i] ELSE glue \o parts[i]
  <2>1. DOMAIN parts = 1 .. Len(parts) /\ Len(parts) \in Nat
        /\ \A i \in 1 .. Len(parts) : parts[i] \in Text
    BY LenProperties, ElementOfSeq
  <2>2. PICK n \in Nat : n = Len(parts)
    BY <2>1
  <2> DEFINE u == [i \in 1 .. n |-> IF i = 1 THEN parts[i] ELSE glue \o parts[i]]
  <2>3. \A i \in 1 .. n : parts[i] \in Text /\ glue \o parts[i] \in Text
    BY <2>1, <2>2, ConcatProperties DEF Text
  <2>4. u \in [1 .. n -> Text]
    BY <2>3
  <2>5. \A i \in 1 .. n : u[i] = IF i = 1 THEN parts[i] ELSE glue \o parts[i]
    OBVIOUS
  <2>6. u = Glued(parts)
    BY <2>1, <2>2
  <2> HIDE DEF u, Glued
  <2>7. u \in Seq(Text) /\ Len(u) = n
    BY <2>4
  <2> QED BY <2>2, <2>5, <2>6, <2>7
<1>2. \A parts : Joined(parts, glue) = FlattenSeq(Glued(parts))
  BY DEF Joined
<1> HIDE DEF Glued
<1>3. \A parts \in Seq(Text) : Joined(parts, glue) \in Text
  BY <1>1, <1>2, FlattenType DEF Text
<1>4. ASSUME NEW parts \in Seq(Text), NEW x \in Text, NEW y \in Text,
             y = IF parts = <<>> THEN x ELSE glue \o x
      PROVE  Joined(Append(parts, x), glue) = FlattenSeq(Glued(parts)) \o y
  <2>1. PICK t \in Seq(Text) : t = Append(parts, x)
    BY AppendProperties
  <2>2. /\ Len(t) = Len(parts) + 1 /\ t[Len(parts) + 1] = x
        /\ \A i \in 1 .. Len(parts) : t[i] = parts[i]
        /\ Len(parts) \in Nat
    BY <2>1, AppendProperties, LenProperties
  <2>3. /\ Glued(t) \in Seq(Text) /\ Len(Glued(t)) = Len(t)
        /\ \A i \in 1 .. Len(t) : Glued(t)[i] = IF i = 1 THEN t[i] ELSE glue \o t[i]
    BY <1>1
  <2>4. /\ Glued(parts) \in Seq(Text) /\ Len(Glued(parts)) = Len(parts)
        /\ \A i \in 1 .. Len(parts) :
             Glued(parts)[i] = IF i = 1 THEN parts[i] ELSE glue \o parts[i]
    BY <1>1
  <2>5. Len(parts) + 1 \in 1 .. Len(parts) + 1 /\ \A i \in 1 .. Len(parts) : i \in 1 .. Len(parts) + 1
    BY <2>2
  <2>6. (parts = <<>>) <=> (Len(parts) + 1 = 1)
    BY <2>2, EmptySeq
  <2>7. Glued(t)[Len(parts) + 1] = y
    BY <1>4, <2>2, <2>3, <2>5, <2>6
  <2>8. /\ Len(Glued(t)) = Len(Glued(parts)) + 1 /\ Glued(t)[Len(Glued(parts)) + 1] = y
        /\ \A i \in 1 .. Len(Glued(parts)) : Glued(t)[i] = Glued(parts)[i]
    BY <2>2, <2>3, <2>4, <2>5, <2>7
  <2>9. Glued(t) = Append(Glued(parts), y)
    BY <2>3, <2>4, <2>8, AppendIs
  <2>10. FlattenSeq(Append(Glued(parts), y)) = FlattenSeq(Glued(parts)) \o y
    BY <2>4, FlattenAppend DEF Text
  <2> QED BY <1>2, <2>1, <2>9, <2>10
<1>5. ASSUME NEW x \in Text PROVE Joined(Append(<<>>, x), glue) = x
  <2>1. <<>> \in Seq(Text)
    BY EmptySeq
  <2>2. Joined(Append(<<>>, x), glue) = FlattenSeq(Glued(<<>>)) \o x
    BY <2>1, <1>4
  <2>3. Glued(<<>>) = <<>>
    BY DEF Glued
  <2> QED BY <2>2, <2>3, FlattenEmpty, ConcatEmptySeq DEF Text
<1>6. ASSUME NEW parts \in Seq(Text), NEW x \in Text, parts # <<>>
      PROVE  Joined(Append(parts, x), glue) = Joined(parts, glue) \o (glue \o x)
  <2>1. glue \o x \in Text
    BY ConcatProperties DEF Text
  <2>2. Joined(Append(parts, x), glue) = FlattenSeq(Glued(parts)) \o (glue \o x)
    BY <2>1, <1>4, <1>6
  <2> QED BY <2>2, <1>2
<1> QED BY <1>3, <1>5, <1>6

LEMMA SafeType ==
    /\ \A x \in Text : Safe(x) \in Text
    /\ \A x \in Text : cell(x) \in Text
    /\ <<Comma>> \in Text /\ <<Quote>> \in Text /\ <<CR, LF>> \in Text /\ <<BOM>> \in Text
    /\ <<>> \in Text
<1>1. {Mark, Quote, Comma, CR, LF, BOM} \subseteq Symbols
  BY DEF Symbols
<1>2. <<Comma>> \in Text /\ <<Quote>> \in Text /\ <<CR, LF>> \in Text /\ <<BOM>> \in Text
      /\ <<Mark>> \in Text /\ <<>> \in Text
  BY <1>1 DEF Text
<1>3. \A x \in Text : neutralise(x) \in Text
  BY <1>2, ConcatProperties DEF neutralise, Text
<1>4. \A x \in Text : preserveDigits(x) \in Text
  BY <1>2, ConcatProperties DEF preserveDigits, Text
<1>5. \A x \in Text : Safe(x) \in Text
  BY <1>3, <1>4 DEF Safe
<1>6. \A x \in Text : Doubled(x) \in Text
  BY DoubledIs
<1>7. \A x \in Text : (<<Quote>> \o Doubled(x)) \o <<Quote>> \in Text
  <2> SUFFICES ASSUME NEW x \in Text PROVE (<<Quote>> \o Doubled(x)) \o <<Quote>> \in Text
    OBVIOUS
  <2>1. \A s, t \in Text : s \o t \in Text
    BY ConcatProperties DEF Text
  <2> QED BY <1>2, <1>6, <2>1
<1>8. \A x \in Text : cell(x) \in Text
  BY <1>5, <1>7 DEF cell
<1> QED BY <1>2, <1>5, <1>8

(* A cell is read as it was written.                                         *)
LEMMA CellIsRead ==
    ASSUME NEW text \in Text, NEW f, Follows(text, f), NEW p, NEW rs, NEW r, NEW x \in Text,
           f[p] = Outer(rs, r, <<>>), At(text, p, cell(x)),
           p + Len(cell(x)) < Len(text), text[p + Len(cell(x)) + 1] # Quote
    PROVE  f[p + Len(cell(x))] = Outer(rs, r, Safe(x))
<1>1. PICK s \in Text : s = Safe(x)
  BY SafeType
<1>2. CASE ToSet(s) \intersect {Quote, Comma, LF, CR} = {}
  <2>1. cell(x) = s
    BY <1>1, <1>2 DEF cell
  <2>2. \A i \in 1 .. Len(s) : s[i] \notin {Quote, Comma, CR, LF}
    <3>1. DOMAIN s = 1 .. Len(s)
      BY LenProperties DEF Text
    <3> QED BY <3>1, <1>2 DEF ToSet
  <2>3. f[p + Len(s)] = Outer(rs, r, <<>> \o s)
    <3>1. PICK o \in Text : o = <<>>
      BY SafeType
    <3>2. f[p] = Outer(rs, r, o) /\ At(text, p, s)
      BY <2>1, <3>1
    <3>3. f[p + Len(s)] = Outer(rs, r, o \o s)
      BY <3>2, <2>2, PlainRun
    <3> QED BY <3>1, <3>3
  <2>4. <<>> \o s = s
    BY ConcatEmptySeq DEF Text
  <2> QED BY <2>1, <2>3, <2>4, <1>1
<1>3. CASE ToSet(s) \intersect {Quote, Comma, LF, CR} # {}
  <2>1. cell(x) = (<<Quote>> \o Doubled(s)) \o <<Quote>>
    BY <1>1, <1>3 DEF cell
  <2>2. PICK q \in Text, y \in Text, z \in Text :
           /\ q = <<Quote>> /\ y = Doubled(s) /\ z = q \o y
           /\ Len(q) = 1 /\ q[1] = Quote /\ cell(x) = z \o q
    <3>1. <<Quote>> \in Text /\ Doubled(s) \in Text
      BY SafeType, DoubledIs
    <3>2. <<Quote>> \o Doubled(s) \in Text
      BY <3>1, ConcatProperties DEF Text
    <3> QED BY <2>1, <3>1, <3>2
  <2>3. /\ At(text, p, z) /\ At(text, p + Len(z), q) /\ Len(z \o q) = Len(z) + Len(q)
        /\ Len(z) \in Nat /\ p \in Nat /\ Len(text) \in Nat
    <3>1. At(text, p, z \o q)
      BY <2>2
    <3> QED BY <3>1, AtConcat
  <2>4. /\ At(text, p, q) /\ At(text, p + Len(q), y) /\ Len(z) = Len(q) + Len(y)
        /\ Len(y) \in Nat
    <3>1. At(text, p, q \o y) /\ Len(z) = Len(q \o y)
      BY <2>2, <2>3
    <3> QED BY <3>1, AtConcat
  <2>5. text[p + 1] = Quote /\ p + 1 <= Len(text)
    BY <2>2, <2>4 DEF At
  <2>6. f[p + 1] = Inner(rs, r, <<>>)
    <3>1. f[p + 1] = Scan(text, Comma, f[p], p + 1)
      BY <2>3, <2>5 DEF Follows
    <3> QED BY <3>1, <2>5, ScanOne
  <2>7. f[p + 1 + Len(y)] = Inner(rs, r, s)
    <3>1. At(text, p + 1, Doubled(s))
      BY <2>2, <2>4
    <3>2. f[p + 1 + Len(Doubled(s))] = Inner(rs, r, <<>> \o s)
      <4>1. PICK n : n = p + 1
        OBVIOUS
      <4>2. PICK o \in Text : o = <<>>
        BY SafeType
      <4>3. f[n] = Inner(rs, r, o) /\ At(text, n, Doubled(s))
        BY <4>1, <4>2, <2>6, <3>1
      <4>4. f[n + Len(Doubled(s))] = Inner(rs, r, o \o s)
        BY <4>3, QuotedRun
      <4> QED BY <4>1, <4>2, <4>4
    <3>3. <<>> \o s = s
      BY ConcatEmptySeq DEF Text
    <3> QED BY <3>2, <3>3, <2>2
  <2>8. PICK e \in Nat : e = p + 1 + Len(y)
    BY <2>3, <2>4
  <2>9. e = p + Len(z) /\ p + Len(cell(x)) = e + 1
    BY <2>2, <2>3, <2>4, <2>8
  <2>10. text[e + 1] = Quote /\ e + 1 < Len(text) /\ text[(e + 1) + 1] # Quote
    BY <2>2, <2>3, <2>9 DEF At
  <2>11. f[e + 1] = Scan(text, Comma, f[e], e + 1)
    <3>1. e < Len(text)
      BY <2>3, <2>10
    <3> QED BY <3>1 DEF Follows
  <2>12. f[e] = Inner(rs, r, s)
    BY <2>7, <2>8
  <2>13. f[e + 1] = Outer(rs, r, s)
    BY <2>10, <2>11, <2>12, ScanQuoted
  <2> QED BY <2>9, <2>13, <1>1
<1> QED BY <1>2, <1>3

Fresh(rs) == Outer(rs, <<>>, <<>>)
CellOf == [x \in Text |-> cell(x)]
SafeOf == [x \in Text |-> Safe(x)]
Written(row) == Joined(Image(CellOf, row), <<Comma>>)

LEMMA RowsAre ==
    /\ CellOf \in [Text -> Text] /\ SafeOf \in [Text -> Text]
    /\ \A row \in Seq(Text) : csvRow(row) = Written(row)
    /\ \A row \in Seq(Text) : Written(row) \in Text
    /\ \A x \in Text : Written(Append(<<>>, x)) = cell(x)
    /\ \A row \in Seq(Text), x \in Text : row # <<>> =>
         Written(Append(row, x)) = Written(row) \o (<<Comma>> \o cell(x))
<1>1. CellOf \in [Text -> Text] /\ SafeOf \in [Text -> Text]
  BY SafeType DEF CellOf, SafeOf
<1>2. ASSUME NEW row \in Seq(Text) PROVE csvRow(row) = Written(row)
  <2>1. \A i \in DOMAIN row : row[i] \in Text
    BY LenProperties, ElementOfSeq
  <2>2. [i \in DOMAIN row |-> cell(row[i])] = Image(CellOf, row)
    BY <2>1 DEF Image, CellOf
  <2> QED BY <2>2 DEF csvRow, Written
<1>3. PICK glue \in Text : glue = <<Comma>>
  BY SafeType
<1>4. /\ Image(CellOf, <<>>) = <<>>
      /\ \A s \in Seq(Text) : Image(CellOf, s) \in Seq(Text) /\ Len(Image(CellOf, s)) = Len(s)
      /\ \A s \in Seq(Text), x \in Text :
           Image(CellOf, Append(s, x)) = Append(Image(CellOf, s), CellOf[x])
  BY <1>1, ImageIs
<1>5. \A x \in Text : CellOf[x] = cell(x) /\ cell(x) \in Text
  BY SafeType DEF CellOf
<1>6. /\ \A parts \in Seq(Text) : Joined(parts, glue) \in Text
      /\ \A x \in Text : Joined(Append(<<>>, x), glue) = x
      /\ \A parts \in Seq(Text), x \in Text : parts # <<>> =>
           Joined(Append(parts, x), glue) = Joined(parts, glue) \o (glue \o x)
  BY JoinedIs
<1>7. \A row : Written(row) = Joined(Image(CellOf, row), glue)
  BY <1>3 DEF Written
<1>8. \A row \in Seq(Text) : Written(row) \in Text
  BY <1>4, <1>6, <1>7
<1>9. ASSUME NEW x \in Text PROVE Written(Append(<<>>, x)) = cell(x)
  <2>1. <<>> \in Seq(Text)
    BY EmptySeq
  <2>2. Image(CellOf, Append(<<>>, x)) = Append(<<>>, cell(x))
    BY <2>1, <1>4, <1>5
  <2> QED BY <2>2, <1>5, <1>6, <1>7
<1>10. ASSUME NEW row \in Seq(Text), NEW x \in Text, row # <<>>
       PROVE  Written(Append(row, x)) = Written(row) \o (<<Comma>> \o cell(x))
  <2>1. Image(CellOf, Append(row, x)) = Append(Image(CellOf, row), cell(x))
    BY <1>4, <1>5
  <2>2. Image(CellOf, row) \in Seq(Text) /\ Image(CellOf, row) # <<>>
    <3>1. Len(Image(CellOf, row)) = Len(row) /\ Image(CellOf, row) \in Seq(Text)
      BY <1>4
    <3>2. Len(row) # 0
      BY <1>10, EmptySeq
    <3> QED BY <3>1, <3>2, EmptySeq
  <2>3. Joined(Append(Image(CellOf, row), cell(x)), glue) =
          Joined(Image(CellOf, row), glue) \o (glue \o cell(x))
    BY <2>2, <1>5, <1>6
  <2> QED BY <2>1, <2>3, <1>3, <1>7
<1> QED BY <1>1, <1>2, <1>8, <1>9, <1>10

LEMMA SafeImage ==
    /\ Image(SafeOf, <<>>) = <<>>
    /\ \A s \in Seq(Text) : Image(SafeOf, s) \in Seq(Text) /\ Len(Image(SafeOf, s)) = Len(s)
    /\ \A s \in Seq(Text), i \in Nat : i \in 1 .. Len(s) => Image(SafeOf, s)[i] = Safe(s[i])
    /\ \A s \in Seq(Text), x \in Text :
         Image(SafeOf, Append(s, x)) = Append(Image(SafeOf, s), Safe(x))
<1>1. SafeOf \in [Text -> Text]
  BY RowsAre
<1>2. \A x \in Text : SafeOf[x] = Safe(x)
  BY DEF SafeOf
<1>3. /\ Image(SafeOf, <<>>) = <<>>
      /\ \A s \in Seq(Text) : Image(SafeOf, s) \in Seq(Text) /\ Len(Image(SafeOf, s)) = Len(s)
      /\ \A s \in Seq(Text), x \in Text :
           Image(SafeOf, Append(s, x)) = Append(Image(SafeOf, s), SafeOf[x])
  BY <1>1, ImageIs
<1>4. ASSUME NEW s \in Seq(Text), NEW i \in Nat, i \in 1 .. Len(s)
      PROVE  Image(SafeOf, s)[i] = Safe(s[i])
  <2>1. i \in DOMAIN s /\ s[i] \in Text
    BY <1>4, LenProperties, ElementOfSeq
  <2> QED BY <1>2, <2>1 DEF Image
<1> QED BY <1>2, <1>3, <1>4

(* f has read the row up to q, all but the end of its last field.            *)
ReadTo(f, q, rs, row) ==
    \E r, g : f[q] = Outer(rs, r, g) /\ Append(r, g) = Image(SafeOf, row)

LEMMA RowIsRead ==
    ASSUME NEW text \in Text, NEW f, Follows(text, f), NEW p, NEW rs,
           f[p] = Fresh(rs)
    PROVE  \A row \in Seq(Text) :
             /\ row # <<>> /\ At(text, p, Written(row))
             /\ p + Len(Written(row)) < Len(text) /\ text[p + Len(Written(row)) + 1] # Quote
             => ReadTo(f, p + Len(Written(row)), rs, row)
<1> DEFINE T == {row \in Seq(Text) :
             /\ row # <<>> /\ At(text, p, Written(row))
             /\ p + Len(Written(row)) < Len(text) /\ text[p + Len(Written(row)) + 1] # Quote
             => ReadTo(f, p + Len(Written(row)), rs, row)}
<1>1. <<>> \in T
  BY EmptySeq
<1>2. ASSUME NEW row \in Seq(Text), NEW x \in Text, row \in T
      PROVE  Append(row, x) \in T
  <2>0. PICK w \in Seq(Text) : w = Append(row, x)
    BY AppendProperties
  <2> SUFFICES ASSUME At(text, p, Written(w)), p + Len(Written(w)) < Len(text),
                      text[p + Len(Written(w)) + 1] # Quote
               PROVE  ReadTo(f, p + Len(Written(w)), rs, w)
    BY <2>0
  <2>1. Image(SafeOf, w) = Append(Image(SafeOf, row), Safe(x))
    BY <2>0, SafeImage
  <2>2. CASE row = <<>>
    <3>1. Written(w) = cell(x)
      BY <2>0, <2>2, RowsAre
    <3>2. f[p + Len(cell(x))] = Outer(rs, <<>>, Safe(x))
      <4>1. /\ At(text, p, cell(x)) /\ p + Len(cell(x)) < Len(text)
            /\ text[p + Len(cell(x)) + 1] # Quote
        BY <3>1
      <4>2. f[p] = Outer(rs, <<>>, <<>>)
        BY DEF Fresh
      <4> QED BY <4>1, <4>2, CellIsRead
    <3>3. Image(SafeOf, row) = <<>>
      BY <2>2, SafeImage
    <3> QED BY <3>1, <3>2, <3>3, <2>1 DEF ReadTo
  <2>3. CASE row # <<>>
    <3>1. Written(w) = Written(row) \o (<<Comma>> \o cell(x)) /\ Written(row) \in Text
      BY <2>0, <2>3, RowsAre
    <3>2. PICK c \in Text, y \in Text, z \in Text :
             c = <<Comma>> /\ y = cell(x) /\ z = c \o y /\ Len(c) = 1 /\ c[1] = Comma
             /\ Written(w) = Written(row) \o z
      <4>1. <<Comma>> \in Text /\ cell(x) \in Text
        BY SafeType
      <4>2. <<Comma>> \o cell(x) \in Text
        BY <4>1, ConcatProperties DEF Text
      <4> QED BY <3>1, <4>1, <4>2
    <3>3. /\ At(text, p, Written(row)) /\ At(text, p + Len(Written(row)), z)
          /\ Len(Written(row) \o z) = Len(Written(row)) + Len(z)
          /\ Len(Written(row)) \in Nat /\ p \in Nat /\ Len(text) \in Nat
      <4>1. At(text, p, Written(row) \o z)
        BY <3>2
      <4> QED BY <4>1, <3>1, AtConcat
    <3>4. PICK q : q = p + Len(Written(row))
      OBVIOUS
    <3>5. q \in Nat
      BY <3>3, <3>4
    <3>6. At(text, q, c) /\ At(text, q + Len(c), y) /\ Len(z) = Len(c) + Len(y) /\ Len(y) \in Nat
      <4>1. At(text, q, c \o y) /\ Len(z) = Len(c \o y)
        BY <3>2, <3>3, <3>4
      <4> QED BY <4>1, AtConcat
    <3>7. text[q + 1] = Comma /\ q + 1 <= Len(text)
      BY <3>2, <3>6 DEF At
    <3>8. q < Len(text) /\ q + 1 \in Nat
      BY <3>3, <3>5, <3>7
    <3>9. \E r, g : f[q] = Outer(rs, r, g) /\ Append(r, g) = Image(SafeOf, row)
      <4>1. Comma # Quote
        BY DEF Comma, Quote
      <4>2. ReadTo(f, q, rs, row)
        BY <1>2, <2>3, <3>3, <3>4, <3>7, <3>8, <4>1
      <4> QED BY <4>2 DEF ReadTo
    <3>10. PICK r, g : f[q] = Outer(rs, r, g) /\ Append(r, g) = Image(SafeOf, row)
      BY <3>9
    <3>11. f[q + 1] = Outer(rs, Append(r, g), <<>>)
      <4>1. f[q + 1] = Scan(text, Comma, f[q], q + 1)
        BY <3>5, <3>8 DEF Follows
      <4>2. f[q + 1] = Scan(text, Comma, Outer(rs, r, g), q + 1)
        BY <4>1, <3>10
      <4> QED BY <4>2, <3>7, ScanOne
    <3>12. PICK e : e = q + 1
      OBVIOUS
    <3>13. /\ f[e] = Outer(rs, Append(r, g), <<>>) /\ At(text, e, cell(x))
           /\ e + Len(cell(x)) = p + Len(Written(w))
      BY <3>2, <3>3, <3>4, <3>6, <3>11, <3>12
    <3>14. f[e + Len(cell(x))] = Outer(rs, Append(r, g), Safe(x))
      <4>1. e + Len(cell(x)) < Len(text) /\ text[e + Len(cell(x)) + 1] # Quote
        BY <3>13
      <4> QED BY <3>13, <4>1, CellIsRead
    <3>15. f[p + Len(Written(w))] = Outer(rs, Append(r, g), Safe(x))
      BY <3>13, <3>14
    <3>16. Append(Append(r, g), Safe(x)) = Image(SafeOf, w)
      BY <3>10, <2>1
    <3> QED BY <3>15, <3>16 DEF ReadTo
  <2> QED BY <2>2, <2>3
<1>3. Seq(Text) \subseteq T
  <2> HIDE DEF T
  <2> QED BY <1>1, <1>2, Onwards
<1> QED BY <1>3

Break == <<CR, LF>>

LEMMA RowEnds ==
    ASSUME NEW text \in Text, NEW f, Follows(text, f), NEW p, NEW rs,
           f[p] = Fresh(rs), NEW row \in Seq(Text), row # <<>>,
           At(text, p, Written(row) \o Break)
    PROVE  f[p + Len(Written(row) \o Break)] =
             Fresh(Append(rs, Image(SafeOf, row)))
<1>1. PICK z \in Text : z = Break /\ Len(z) = 2 /\ z[1] = CR /\ z[2] = LF
  BY SafeType DEF Break
<1>2. Written(row) \in Text /\ At(text, p, Written(row) \o z)
  BY <1>1, RowsAre
<1>3. /\ At(text, p, Written(row)) /\ At(text, p + Len(Written(row)), z)
      /\ Len(Written(row) \o z) = Len(Written(row)) + Len(z)
      /\ Len(Written(row)) \in Nat /\ p \in Nat /\ Len(text) \in Nat
  BY <1>2, AtConcat
<1>4. PICK q : q = p + Len(Written(row))
  OBVIOUS
<1>5. q \in Nat /\ At(text, q, z) /\ p + Len(Written(row) \o z) = q + 2
  BY <1>1, <1>3, <1>4
<1>6. q + 2 <= Len(text) /\ text[q + 1] = CR /\ text[q + 2] = LF
  BY <1>1, <1>5 DEF At
<1>7. q < Len(text) /\ q + 1 \in Nat /\ q + 1 < Len(text) /\ (q + 1) + 1 = q + 2
  BY <1>3, <1>5, <1>6
<1>8. \E r, g : f[q] = Outer(rs, r, g) /\ Append(r, g) = Image(SafeOf, row)
  <2>1. CR # Quote
    BY DEF CR, Quote
  <2>2. p + Len(Written(row)) < Len(text) /\ text[p + Len(Written(row)) + 1] # Quote
    BY <2>1, <1>4, <1>6, <1>7
  <2>3. ReadTo(f, p + Len(Written(row)), rs, row)
    BY <1>3, <2>2, RowIsRead
  <2> QED BY <1>4, <2>3 DEF ReadTo
<1>9. PICK r, g : f[q] = Outer(rs, r, g) /\ Append(r, g) = Image(SafeOf, row)
  BY <1>8
<1>10. f[q + 1] = Outer(rs, r, g)
  <2>1. f[q + 1] = Scan(text, Comma, f[q], q + 1)
    BY <1>5, <1>7 DEF Follows
  <2>2. text[(q + 1) + 1] = LF
    BY <1>6, <1>7
  <2> QED BY <2>1, <2>2, <1>6, <1>7, <1>9, ScanOne
<1>11. f[q + 2] = Outer(Append(rs, Append(r, g)), <<>>, <<>>)
  <2>1. f[(q + 1) + 1] = Scan(text, Comma, f[q + 1], (q + 1) + 1)
    BY <1>7 DEF Follows
  <2>2. f[q + 2] = Scan(text, Comma, Outer(rs, r, g), q + 2)
    BY <2>1, <1>7, <1>10
  <2> QED BY <2>2, <1>6, ScanOne
<1>12. f[p + Len(Written(row) \o z)] = Fresh(Append(rs, Image(SafeOf, row)))
  BY <1>5, <1>9, <1>11 DEF Fresh
<1> QED BY <1>1, <1>12
-----------------------------------------------------------------------------
(* The table, row by row.                                                    *)
WrittenOf == [row \in Seq(Text) |-> Written(row)]
SafesOf == [row \in Seq(Text) |-> Image(SafeOf, row)]
Sheet(w) == Joined(Image(WrittenOf, w), Break) \o Break
FullRow == Seq(Text) \ {<<>>}

LEMMA TextAssociative ==
    ASSUME NEW x \in Text, NEW y \in Text, NEW z \in Text
    PROVE  (x \o y) \o z = x \o (y \o z)
  BY ConcatAssociative DEF Text

LEMMA SheetIs ==
    /\ \A w \in Seq(Seq(Text)) : Sheet(w) \in Text /\ toCsv(w) = <<BOM>> \o Sheet(w)
    /\ \A row \in Seq(Text) : Sheet(Append(<<>>, row)) = Written(row) \o Break
    /\ \A w \in Seq(Seq(Text)), row \in Seq(Text) : w # <<>> =>
         Sheet(Append(w, row)) = Sheet(w) \o (Written(row) \o Break)
<1>1. WrittenOf \in [Seq(Text) -> Text] /\ \A row \in Seq(Text) : WrittenOf[row] = Written(row)
  BY RowsAre DEF WrittenOf
<1>2. PICK glue \in Text : glue = Break
  BY SafeType DEF Break
<1>3. /\ Image(WrittenOf, <<>>) = <<>>
      /\ \A s \in Seq(Seq(Text)) : /\ Image(WrittenOf, s) \in Seq(Text)
                                   /\ Len(Image(WrittenOf, s)) = Len(s)
      /\ \A s \in Seq(Seq(Text)), x \in Seq(Text) :
           Image(WrittenOf, Append(s, x)) = Append(Image(WrittenOf, s), WrittenOf[x])
  BY <1>1, ImageIs
<1>4. /\ \A parts \in Seq(Text) : Joined(parts, glue) \in Text
      /\ \A x \in Text : Joined(Append(<<>>, x), glue) = x
      /\ \A parts \in Seq(Text), x \in Text : parts # <<>> =>
           Joined(Append(parts, x), glue) = Joined(parts, glue) \o (glue \o x)
  BY JoinedIs
<1>5. \A w : Sheet(w) = Joined(Image(WrittenOf, w), glue) \o glue
  BY <1>2 DEF Sheet
<1>6. \A s, t \in Text : s \o t \in Text
  BY ConcatProperties DEF Text
<1>7. \A w \in Seq(Seq(Text)) : Sheet(w) \in Text
  BY <1>3, <1>4, <1>5, <1>6
<1>8. ASSUME NEW w \in Seq(Seq(Text)) PROVE toCsv(w) = <<BOM>> \o Sheet(w)
  <2>1. \A i \in DOMAIN w : w[i] \in Seq(Text)
    BY LenProperties, ElementOfSeq
  <2>2. [i \in DOMAIN w |-> csvRow(w[i])] = Image(WrittenOf, w)
    BY <2>1, RowsAre DEF Image, WrittenOf
  <2>3. toCsv(w) = (<<BOM>> \o Joined(Image(WrittenOf, w), glue)) \o glue
    BY <2>2, <1>2 DEF toCsv, Break
  <2>4. PICK b \in Text, j \in Text : b = <<BOM>> /\ j = Joined(Image(WrittenOf, w), glue)
    BY <1>3, <1>4, SafeType
  <2>5. (b \o j) \o glue = b \o (j \o glue)
    BY TextAssociative
  <2> QED BY <2>3, <2>4, <2>5, <1>5
<1>9. ASSUME NEW row \in Seq(Text) PROVE Sheet(Append(<<>>, row)) = Written(row) \o Break
  <2>1. <<>> \in Seq(Seq(Text)) /\ Written(row) \in Text
    BY EmptySeq, RowsAre
  <2>2. Image(WrittenOf, Append(<<>>, row)) = Append(<<>>, Written(row))
    BY <2>1, <1>1, <1>3
  <2> QED BY <2>1, <2>2, <1>2, <1>4, <1>5
<1>10. ASSUME NEW w \in Seq(Seq(Text)), NEW row \in Seq(Text), w # <<>>
       PROVE  Sheet(Append(w, row)) = Sheet(w) \o (Written(row) \o Break)
  <2>1. PICK v \in Seq(Text), x \in Text : v = Image(WrittenOf, w) /\ x = Written(row)
    BY <1>3, RowsAre
  <2>2. v # <<>>
    <3>1. Len(v) = Len(w) /\ Len(w) # 0
      BY <2>1, <1>3, <1>10, EmptySeq
    <3> QED BY <3>1, EmptySeq
  <2>3. Image(WrittenOf, Append(w, row)) = Append(v, x)
    BY <2>1, <1>1, <1>3
  <2>4. Joined(Append(v, x), glue) = Joined(v, glue) \o (glue \o x)
    BY <2>2, <1>4
  <2>5. PICK j \in Text : j = Joined(v, glue)
    BY <1>4
  <2>6. /\ (j \o (glue \o x)) \o glue = j \o ((glue \o x) \o glue)
        /\ (glue \o x) \o glue = glue \o (x \o glue)
        /\ j \o (glue \o (x \o glue)) = (j \o glue) \o (x \o glue)
    <3>1. PICK k \in Text, m \in Text : k = glue \o x /\ m = x \o glue
      BY <1>6
    <3>2. (j \o k) \o glue = j \o (k \o glue)
      BY TextAssociative
    <3>3. (glue \o x) \o glue = glue \o (x \o glue)
      BY TextAssociative
    <3>4. (j \o glue) \o m = j \o (glue \o m)
      BY TextAssociative
    <3> QED BY <3>1, <3>2, <3>3, <3>4
  <2>7. Sheet(Append(w, row)) = (j \o (glue \o x)) \o glue /\ Sheet(w) = j \o glue
    BY <2>1, <2>3, <2>4, <2>5, <1>5
  <2> QED BY <2>1, <2>6, <2>7, <1>2
<1> QED BY <1>7, <1>8, <1>9, <1>10

LEMMA SafesAre ==
    /\ SafesOf \in [Seq(Text) -> Seq(Text)]
    /\ Image(SafesOf, <<>>) = <<>>
    /\ \A w \in Seq(Seq(Text)) : /\ Image(SafesOf, w) \in Seq(Seq(Text))
                                 /\ Len(Image(SafesOf, w)) = Len(w)
                                 /\ \A i \in 1 .. Len(w) :
                                      Image(SafesOf, w)[i] = Image(SafeOf, w[i])
    /\ \A w \in Seq(Seq(Text)), row \in Seq(Text) :
         Image(SafesOf, Append(w, row)) = Append(Image(SafesOf, w), Image(SafeOf, row))
<1>1. SafesOf \in [Seq(Text) -> Seq(Text)]
      /\ \A row \in Seq(Text) : SafesOf[row] = Image(SafeOf, row)
  BY SafeImage DEF SafesOf
<1>2. /\ Image(SafesOf, <<>>) = <<>>
      /\ \A s \in Seq(Seq(Text)) : /\ Image(SafesOf, s) \in Seq(Seq(Text))
                                   /\ Len(Image(SafesOf, s)) = Len(s)
      /\ \A s \in Seq(Seq(Text)), x \in Seq(Text) :
           Image(SafesOf, Append(s, x)) = Append(Image(SafesOf, s), SafesOf[x])
  BY <1>1, ImageIs
<1>3. \A w \in Seq(Seq(Text)) : \A i \in 1 .. Len(w) : i \in DOMAIN w /\ w[i] \in Seq(Text)
  BY LenProperties, ElementOfSeq
<1>4. \A w \in Seq(Seq(Text)) : \A i \in 1 .. Len(w) :
        Image(SafesOf, w)[i] = Image(SafeOf, w[i])
  <2> SUFFICES ASSUME NEW w \in Seq(Seq(Text)), NEW i \in 1 .. Len(w)
               PROVE  Image(SafesOf, w)[i] = Image(SafeOf, w[i])
    OBVIOUS
  <2>1. Image(SafesOf, w)[i] = SafesOf[w[i]]
    BY <1>3 DEF Image
  <2> QED BY <2>1, <1>1, <1>3
<1> QED BY <1>1, <1>2, <1>4

LEMMA FullRows == \A w \in Seq(FullRow) : w \in Seq(Seq(Text))
<1> SUFFICES ASSUME NEW w \in Seq(FullRow) PROVE w \in Seq(Seq(Text))
  OBVIOUS
<1>1. PICK n \in Nat : w \in [1 .. n -> FullRow]
  BY DEF Seq
<1>2. \A i \in 1 .. n : w[i] \in Seq(Text)
  BY <1>1 DEF FullRow
<1>3. w = [i \in 1 .. n |-> w[i]]
  BY <1>1
<1> QED BY <1>2, <1>3

LEMMA SheetIsRead ==
    ASSUME NEW text \in Text, NEW f, Follows(text, f)
    PROVE  \A w \in Seq(FullRow) : w # <<>> /\ At(text, 0, Sheet(w)) =>
             f[Len(Sheet(w))] = Fresh(Image(SafesOf, w))
<1> DEFINE T == {w \in Seq(FullRow) : w # <<>> /\ At(text, 0, Sheet(w)) =>
                   f[Len(Sheet(w))] = Fresh(Image(SafesOf, w))}
<1>1. <<>> \in T
  BY EmptySeq
<1>2. ASSUME NEW w \in Seq(FullRow), NEW row \in FullRow, w \in T
      PROVE  Append(w, row) \in T
  <2>0. PICK u \in Seq(FullRow) : u = Append(w, row)
    BY AppendProperties
  <2> SUFFICES ASSUME At(text, 0, Sheet(u))
               PROVE  f[Len(Sheet(u))] = Fresh(Image(SafesOf, u))
    BY <2>0
  <2>1. w \in Seq(Seq(Text)) /\ row \in Seq(Text) /\ row # <<>>
    BY FullRows DEF FullRow
  <2>2. PICK z \in Text : z = Written(row) \o Break
    <3>1. Written(row) \in Text /\ Break \in Text
      BY <2>1, RowsAre, SafeType DEF Break
    <3> QED BY <3>1, ConcatProperties DEF Text
  <2>3. Image(SafesOf, u) = Append(Image(SafesOf, w), Image(SafeOf, row))
    BY <2>0, <2>1, SafesAre
  <2>4. CASE w = <<>>
    <3>1. Sheet(u) = z
      BY <2>0, <2>1, <2>2, <2>4, SheetIs
    <3>2. PICK none : none = <<>> /\ none = Image(SafesOf, w)
      BY <2>4, SafesAre
    <3>3. f[0] = Fresh(none)
      <4>1. f[0] = Scanner
        BY DEF Follows
      <4> QED BY <3>2, <4>1 DEF Scanner, Fresh, Outer
    <3>4. f[0 + Len(z)] = Fresh(Append(none, Image(SafeOf, row)))
      <4>1. PICK p : p = 0
        OBVIOUS
      <4>2. f[p] = Fresh(none) /\ At(text, p, Written(row) \o Break)
        BY <2>2, <3>1, <3>3, <4>1
      <4>3. f[p + Len(Written(row) \o Break)] = Fresh(Append(none, Image(SafeOf, row)))
        BY <2>1, <4>2, RowEnds
      <4> QED BY <4>1, <4>3, <2>2
    <3>5. 0 + Len(z) = Len(z)
      BY LenProperties DEF Text
    <3> QED BY <2>3, <3>1, <3>2, <3>4, <3>5
  <2>5. CASE w # <<>>
    <3>1. Sheet(u) = Sheet(w) \o z /\ Sheet(w) \in Text
      BY <2>0, <2>1, <2>2, <2>5, SheetIs
    <3>2. PICK s \in Text : s = Sheet(w)
      BY <3>1
    <3>3. /\ At(text, 0, s) /\ At(text, 0 + Len(s), z) /\ Len(s \o z) = Len(s) + Len(z)
          /\ Len(s) \in Nat /\ Len(z) \in Nat
      <4>1. At(text, 0, s \o z)
        BY <3>1, <3>2
      <4>2. PICK p : p = 0
        OBVIOUS
      <4>3. At(text, p, s \o z)
        BY <4>1, <4>2
      <4>4. /\ At(text, p, s) /\ At(text, p + Len(s), z) /\ Len(s \o z) = Len(s) + Len(z)
            /\ Len(s) \in Nat /\ Len(z) \in Nat
        BY <4>3, AtConcat
      <4> QED BY <4>2, <4>4
    <3>4. PICK q : q = Len(s)
      OBVIOUS
    <3>5. f[q] = Fresh(Image(SafesOf, w)) /\ At(text, q, Written(row) \o Break)
      <4>1. 0 + Len(s) = q
        BY <3>3, <3>4
      <4>2. At(text, q, z)
        BY <4>1, <3>3
      <4> QED BY <4>2, <1>2, <2>2, <2>5, <3>2, <3>3, <3>4
    <3>6. f[q + Len(Written(row) \o Break)] =
            Fresh(Append(Image(SafesOf, w), Image(SafeOf, row)))
      BY <2>1, <3>5, RowEnds
    <3>7. Len(Sheet(u)) = q + Len(Written(row) \o Break)
      BY <2>2, <3>1, <3>2, <3>3, <3>4
    <3> QED BY <2>3, <3>6, <3>7
  <2> QED BY <2>4, <2>5
<1>3. Seq(FullRow) \subseteq T
  <2> HIDE DEF T
  <2> QED BY <1>1, <1>2, Onwards
<1> QED BY <1>3

-----------------------------------------------------------------------------
(* The first line decides the delimiter.                                     *)
LEMMA LeastIs ==
    ASSUME NEW T, T \subseteq Nat, NEW k \in T, \A j \in T : k <= j
    PROVE  (CHOOSE i \in T : \A j \in T : i <= j) = k
<1>1. \A i \in T : (\A j \in T : i <= j) <=> i = k
  <2> SUFFICES ASSUME NEW i \in T PROVE (\A j \in T : i <= j) <=> i = k
    OBVIOUS
  <2>1. i \in Nat /\ k \in Nat
    OBVIOUS
  <2>2. (\A j \in T : i <= j) => i <= k /\ k <= i
    OBVIOUS
  <2> QED BY <2>1, <2>2
<1>2. \E i \in T : \A j \in T : i <= j
  OBVIOUS
<1> QED BY <1>1, <1>2

LEMMA Beginnings ==
    ASSUME NEW text \in Text, NEW h \in Text, At(text, 0, h), NEW n \in Nat, n <= Len(h)
    PROVE  SubSeq(text, 1, n) = SubSeq(h, 1, n)
<1>1. PICK m \in Nat : m = Len(h)
  BY LenProperties DEF Text
<1>2. \A i \in 1 .. m : text[i] = h[i] /\ h[i] \in Symbols
  <2>1. \A i \in 1 .. m : text[0 + i] = h[i] /\ 0 + i = i
    BY <1>1 DEF At
  <2>2. \A i \in 1 .. m : h[i] \in Symbols
    BY <1>1, ElementOfSeq DEF Text
  <2> QED BY <2>1, <2>2
<1>3. \A i \in 1 .. n : i \in 1 .. m
  BY <1>1
<1>4. \A i \in 1 .. n : text[i] = h[i] /\ h[i] \in Symbols
  BY <1>2, <1>3
<1>5. /\ SubSeq(h, 1, n) \in Seq(Symbols)
      /\ Len(SubSeq(h, 1, n)) = IF 1 <= n THEN n - 1 + 1 ELSE 0
      /\ \A i \in 1 .. n - 1 + 1 : SubSeq(h, 1, n)[i] = h[1 + i - 1]
  BY <1>4, SubSeqProperties
<1>6. \A i \in 1 .. n : text[i] \in Symbols
  BY <1>4
<1>7. /\ SubSeq(text, 1, n) \in Seq(Symbols)
      /\ Len(SubSeq(text, 1, n)) = IF 1 <= n THEN n - 1 + 1 ELSE 0
      /\ \A i \in 1 .. n - 1 + 1 : SubSeq(text, 1, n)[i] = text[1 + i - 1]
  BY <1>6, SubSeqProperties
<1>8. n - 1 + 1 = n /\ (IF 1 <= n THEN n - 1 + 1 ELSE 0) = n /\ \A i \in 1 .. n : 1 + i - 1 = i
  OBVIOUS
<1>9. \A i \in 1 .. n : SubSeq(text, 1, n)[i] = SubSeq(h, 1, n)[i]
  BY <1>4, <1>5, <1>7, <1>8
<1> QED BY <1>5, <1>7, <1>8, <1>9, SeqEqual

LEMMA FirstLineIs ==
    ASSUME NEW text \in Text, NEW h \in Text, At(text, 0, h \o Break)
    PROVE  FirstLine(text) = FirstLine(h)
<1>1. PICK z \in Text : z = Break /\ Len(z) = 2 /\ z[1] = CR
  BY SafeType DEF Break
<1>2. /\ At(text, 0, h) /\ At(text, 0 + Len(h), z) /\ Len(h) \in Nat /\ Len(text) \in Nat
  <2>1. PICK p : p = 0
    OBVIOUS
  <2>2. At(text, p, h \o z)
    BY <1>1, <2>1
  <2>3. /\ At(text, p, h) /\ At(text, p + Len(h), z) /\ Len(h) \in Nat /\ Len(text) \in Nat
    BY <2>2, AtConcat
  <2> QED BY <2>1, <2>3
<1>3. PICK n \in Nat, k \in Nat : n = Len(h) /\ k = Len(text)
  BY <1>2
<1>4. n + 1 <= k /\ text[n + 1] = CR /\ \A i \in 1 .. n : text[i] = h[i]
  <2>1. 0 + n = n /\ \A i \in 1 .. n : 0 + i = i
    OBVIOUS
  <2>2. n + 2 <= k /\ text[n + 1] = CR
    BY <1>1, <1>2, <1>3, <2>1 DEF At
  <2>3. \A i \in 1 .. n : text[i] = h[i]
    BY <1>2, <1>3, <2>1 DEF At
  <2> QED BY <2>2, <2>3
<1>5. DOMAIN text = 1 .. k /\ DOMAIN h = 1 .. n
  BY <1>3, LenProperties DEF Text
<1> DEFINE B == {i \in DOMAIN text : text[i] \in {CR, LF}}
           H == {i \in DOMAIN h : h[i] \in {CR, LF}}
<1>6. /\ n + 1 \in B /\ B \subseteq Nat /\ H \subseteq B /\ H \subseteq 1 .. n
      /\ \A i \in B : i \in H \/ n + 1 <= i
  BY <1>4, <1>5
<1>7. FirstLine(text) = SubSeq(text, 1, (CHOOSE i \in B : \A j \in B : i <= j) - 1)
  BY <1>6 DEF FirstLine
<1>8. FirstLine(h) = IF H = {} THEN h
                     ELSE SubSeq(h, 1, (CHOOSE i \in H : \A j \in H : i <= j) - 1)
  BY DEF FirstLine
<1> HIDE DEF B, H
<1>9. CASE H = {}
  <2>1. \A i \in B : n + 1 <= i
    BY <1>6, <1>9
  <2>2. (CHOOSE i \in B : \A j \in B : i <= j) = n + 1
    BY <1>6, <2>1, LeastIs
  <2>3. (n + 1) - 1 = n /\ n <= n
    OBVIOUS
  <2>4. SubSeq(text, 1, n) = SubSeq(h, 1, n)
    BY <1>2, <1>3, <2>3, Beginnings
  <2>5. SubSeq(h, 1, n) = h
    BY <1>3, SubSeqFull DEF Text
  <2> QED BY <1>7, <1>8, <1>9, <2>2, <2>3, <2>4, <2>5
<1>10. CASE H # {}
  <2>1. PICK m \in H : \A j \in H : m <= j
    BY <1>6, <1>10, Least
  <2>2. m \in 1 .. n /\ m \in B /\ H \subseteq Nat
    BY <1>6, <2>1
  <2>3. \A j \in B : m <= j
    BY <1>6, <2>1, <2>2
  <2>4. (CHOOSE i \in B : \A j \in B : i <= j) = m
    BY <1>6, <2>2, <2>3, LeastIs
  <2>5. (CHOOSE i \in H : \A j \in H : i <= j) = m
    BY <2>1, <2>2, LeastIs
  <2>6. m - 1 \in Nat /\ m - 1 <= n
    BY <2>2
  <2>7. SubSeq(text, 1, m - 1) = SubSeq(h, 1, m - 1)
    BY <1>2, <1>3, <2>6, Beginnings
  <2> QED BY <1>7, <1>8, <1>10, <2>4, <2>5, <2>7
<1> QED BY <1>9, <1>10

LEMMA AtLonger ==
    ASSUME NEW s \in Text, NEW z \in Text, NEW x, At(s, 0, x), Len(x) \in Nat
    PROVE  At(s \o z, 0, x)
<1>1. /\ Len(s \o z) = Len(s) + Len(z)
      /\ \A i \in 1 .. Len(s) + Len(z) : (s \o z)[i] =
            IF i <= Len(s) THEN s[i] ELSE z[i - Len(s)]
  BY ConcatProperties DEF Text
<1>2. PICK n \in Nat, m \in Nat, k \in Nat : n = Len(s) /\ m = Len(z) /\ k = Len(x)
  BY LenProperties DEF Text
<1>3. k <= n /\ \A i \in 1 .. k : s[0 + i] = x[i]
  BY <1>2 DEF At
<1>4. \A i \in 1 .. k : i \in 1 .. n + m /\ i <= n /\ 0 + i = i
  BY <1>2, <1>3
<1>5. \A i \in 1 .. k : (s \o z)[0 + i] = x[i]
  BY <1>1, <1>2, <1>3, <1>4
<1>6. 0 + k <= n + m
  BY <1>3
<1> QED BY <1>1, <1>2, <1>5, <1>6 DEF At

LEMMA AtStart == \A s \in Text : At(s, 0, s) /\ Len(s) \in Nat
<1> SUFFICES ASSUME NEW s \in Text PROVE At(s, 0, s) /\ Len(s) \in Nat
  OBVIOUS
<1>1. Len(s) \in Nat
  BY LenProperties DEF Text
<1>2. 0 + Len(s) <= Len(s) /\ \A i \in 1 .. Len(s) : 0 + i = i
  BY <1>1
<1> QED BY <1>1, <1>2 DEF At

(* The sheet begins with its row of headings.                                *)
LEMMA SheetBegins ==
    \A w \in Seq(FullRow) : w # <<>> => At(Sheet(w), 0, Written(w[1]) \o Break)
<1> DEFINE T == {w \in Seq(FullRow) : w # <<>> => At(Sheet(w), 0, Written(w[1]) \o Break)}
<1>1. <<>> \in T
  BY EmptySeq
<1>2. ASSUME NEW w \in Seq(FullRow), NEW row \in FullRow, w \in T
      PROVE  Append(w, row) \in T
  <2>0. PICK u \in Seq(FullRow) : u = Append(w, row)
    BY AppendProperties
  <2> SUFFICES At(Sheet(u), 0, Written(u[1]) \o Break)
    BY <2>0
  <2>1. w \in Seq(Seq(Text)) /\ row \in Seq(Text)
    BY FullRows DEF FullRow
  <2>2. PICK z \in Text : z = Written(row) \o Break
    <3>1. Written(row) \in Text /\ Break \in Text
      BY <2>1, RowsAre, SafeType DEF Break
    <3> QED BY <3>1, ConcatProperties DEF Text
  <2>3. CASE w = <<>>
    <3>1. u[1] = row
      BY <2>0, <2>3
    <3>2. Sheet(u) = z
      BY <2>0, <2>1, <2>2, <2>3, SheetIs
    <3> QED BY <2>2, <3>1, <3>2, AtStart
  <2>4. CASE w # <<>>
    <3>1. u[1] = w[1] /\ w[1] \in Seq(Text)
      <4>1. 1 \in 1 .. Len(w)
        BY <2>4, EmptySeq, LenProperties
      <4> QED BY <4>1, <2>0, <2>1, AppendProperties, ElementOfSeq
    <3>2. Sheet(u) = Sheet(w) \o z /\ Sheet(w) \in Text
      BY <2>0, <2>1, <2>2, <2>4, SheetIs
    <3>3. PICK y \in Text : y = Written(w[1]) \o Break
      <4>1. Written(w[1]) \in Text /\ Break \in Text
        BY <3>1, RowsAre, SafeType DEF Break
      <4> QED BY <4>1, ConcatProperties DEF Text
    <3>4. At(Sheet(w), 0, y) /\ Len(y) \in Nat
      BY <1>2, <2>4, <3>3, AtStart
    <3>5. At(Sheet(w) \o z, 0, y)
      BY <3>2, <3>4, AtLonger
    <3> QED BY <3>1, <3>2, <3>3, <3>5
  <2> QED BY <2>3, <2>4
<1>3. Seq(FullRow) \subseteq T
  <2> HIDE DEF T
  <2> QED BY <1>1, <1>2, Onwards
<1> QED BY <1>3

(* The mark at the front of the file is taken off.                           *)
LEMMA UploadIs ==
    ASSUME NEW w \in Seq(Seq(Text))
    PROVE  decodeUpload(toCsv(w)) = Sheet(w)
<1>1. PICK b \in Text, s \in Text : b = <<BOM>> /\ s = Sheet(w) /\ Len(b) = 1 /\ b[1] = BOM
  BY SafeType, SheetIs
<1>2. PICK x \in Text : x = b \o s
  BY ConcatProperties DEF Text
<1>3. PICK n \in Nat : n = Len(s)
  BY LenProperties DEF Text
<1>4. Len(x) = 1 + n /\ \A i \in 1 .. 1 + n : x[i] = IF i <= 1 THEN b[i] ELSE s[i - 1]
  BY <1>1, <1>2, <1>3, ConcatProperties DEF Text
<1>5. x # <<>> /\ x[1] = BOM
  BY <1>1, <1>4, EmptySeq
<1>6. /\ Tail(x) \in Seq(Symbols) /\ Len(Tail(x)) = Len(x) - 1
      /\ \A i \in 1 .. Len(Tail(x)) : Tail(x)[i] = x[i + 1]
  BY <1>5, HeadTailProperties DEF Text
<1>7. Len(Tail(x)) = n
  BY <1>4, <1>6
<1>8. \A i \in 1 .. n : i + 1 \in 1 .. 1 + n /\ ~(i + 1 <= 1) /\ (i + 1) - 1 = i
  OBVIOUS
<1>9. \A i \in 1 .. n : Tail(x)[i] = s[i]
  BY <1>4, <1>6, <1>7, <1>8
<1>10. s \in Seq(Symbols)
  BY DEF Text
<1>11. Tail(x) = s
  BY <1>3, <1>6, <1>7, <1>9, <1>10, SeqEqual
<1>12. toCsv(w) = x
  BY <1>1, <1>2, SheetIs
<1> QED BY <1>1, <1>5, <1>11, <1>12 DEF decodeUpload

(* A table written and read: cell by cell, each made safe.                   *)
LEMMA SheetIsParsed ==
    ASSUME NEW w \in Seq(FullRow), w # <<>>,
           sniffDelimiter(FirstLine(csvRow(Head(w)))) = Comma
    PROVE  parseDelimited(Sheet(w)) =
             [headers |-> [i \in DOMAIN Image(SafesOf, w)[1] |-> Trimmed(Image(SafesOf, w)[1][i])],
              rows |-> NotBlank(Tail(Image(SafesOf, w)))]
<1>1. PICK text \in Text : text = Sheet(w)
  BY FullRows, SheetIs
<1>2. PICK all \in Seq(Seq(Text)) : all = Image(SafesOf, w) /\ Len(all) = Len(w)
  BY FullRows, SafesAre
<1>3. all # <<>> /\ w[1] \in Seq(Text) /\ Head(w) = w[1] /\ Head(all) = all[1]
  <2>1. Len(w) # 0 /\ Len(w) \in Nat
    BY EmptySeq, LenProperties
  <2>2. 1 \in 1 .. Len(w)
    BY <2>1
  <2> QED BY <1>2, <2>1, <2>2, EmptySeq, FullRows, ElementOfSeq
<1>4. FirstLine(text) = FirstLine(Written(w[1]))
  <2>1. Written(w[1]) \in Text
    BY <1>3, RowsAre
  <2>2. At(text, 0, Written(w[1]) \o Break)
    BY <1>1, SheetBegins
  <2> QED BY <2>1, <2>2, FirstLineIs
<1>5. sniffDelimiter(FirstLine(text)) = Comma
  BY <1>3, <1>4, RowsAre
<1>6. PICK f : Follows(text, f) /\ Scanned(text, Comma) = f[Len(text)]
  BY ScannedIs
<1>7. Scanned(text, Comma) = Fresh(all)
  <2>1. At(text, 0, Sheet(w))
    BY <1>1, AtStart
  <2>2. f[Len(Sheet(w))] = Fresh(Image(SafesOf, w))
    BY <1>6, <2>1, SheetIsRead
  <2> QED BY <1>1, <1>2, <1>6, <2>2
<1>8. Fresh(all).rows = all /\ Fresh(all).row = <<>> /\ Fresh(all).field = <<>>
  BY DEF Fresh, Outer
<1>9. parseDelimited(text) =
        [headers |-> [i \in DOMAIN Head(all) |-> Trimmed(Head(all)[i])],
         rows |-> NotBlank(Tail(all))]
  BY <1>5, <1>7, <1>8 DEF parseDelimited
<1> QED BY <1>1, <1>2, <1>3, <1>9

LEMMA SeqOfThose ==
    ASSUME NEW R, NEW S, NEW s \in Seq(R), \A i \in 1 .. Len(s) : s[i] \in S
    PROVE  s \in Seq(S)
<1>1. PICK n \in Nat : n = Len(s) /\ s \in [1 .. n -> R]
  BY DEF Seq
<1>2. s \in [1 .. n -> S]
  BY <1>1
<1> QED BY <1>2

LEMMA TableReadsBack ==
    ASSUME NEW table \in Seq(Seq(Text)), table # <<>>, table[1] # <<>>,
           \A r \in DOMAIN table : Len(table[r]) = Len(table[1]),
           sniffDelimiter(FirstLine(csvRow(Head(table)))) = Comma
    PROVE  parseDelimited(decodeUpload(toCsv(table))) =
             [headers |-> [i \in DOMAIN Head(table) |-> Trimmed(Safe(Head(table)[i]))],
              rows |-> NotBlank([r \in 1 .. Len(table) - 1 |->
                                   [i \in DOMAIN Head(table) |-> Safe(table[r + 1][i])]])]
<1>1. PICK n \in Nat : n = Len(table)
  BY LenProperties
<1>2. n # 0 /\ 1 \in 1 .. n /\ DOMAIN table = 1 .. n
  BY <1>1, EmptySeq, LenProperties
<1>3. \A r \in 1 .. n : table[r] \in Seq(Text)
  BY <1>1, ElementOfSeq
<1>4. Len(table[1]) # 0
  BY <1>2, <1>3, EmptySeq
<1>5. \A r \in 1 .. n : table[r] # <<>>
  BY <1>2, <1>3, <1>4, EmptySeq
<1>6. table \in Seq(FullRow)
  <2>1. \A r \in 1 .. n : table[r] \in FullRow
    BY <1>3, <1>5 DEF FullRow
  <2> QED BY <1>1, <2>1, SeqOfThose
<1>7. Head(table) = table[1]
  BY <1>2
<1>8. \A r \in 1 .. n : DOMAIN table[r] = DOMAIN Head(table)
  <2>1. \A r \in 1 .. n : DOMAIN table[r] = 1 .. Len(table[r])
    BY <1>3, LenProperties
  <2> QED BY <1>2, <1>7, <2>1
<1>9. \A r \in 1 .. n : Image(SafeOf, table[r]) = [i \in DOMAIN Head(table) |-> Safe(table[r][i])]
  <2> SUFFICES ASSUME NEW r \in 1 .. n
               PROVE  Image(SafeOf, table[r]) = [i \in DOMAIN Head(table) |-> Safe(table[r][i])]
    OBVIOUS
  <2>1. PICK row \in Seq(Text) : row = table[r] /\ DOMAIN row = DOMAIN Head(table)
    BY <1>3, <1>8
  <2>2. \A i \in DOMAIN row : SafeOf[row[i]] = Safe(row[i])
    <3>1. \A i \in DOMAIN row : row[i] \in Text
      BY LenProperties, ElementOfSeq
    <3> QED BY <3>1 DEF SafeOf
  <2>3. Image(SafeOf, row) = [i \in DOMAIN row |-> Safe(row[i])]
    BY <2>2 DEF Image
  <2> QED BY <2>1, <2>3
<1>10. PICK all :
         /\ all = Image(SafesOf, table) /\ all \in Seq(Seq(Text)) /\ Len(all) = n
         /\ \A r \in 1 .. n : all[r] = [i \in DOMAIN Head(table) |-> Safe(table[r][i])]
  <2>1. /\ Image(SafesOf, table) \in Seq(Seq(Text)) /\ Len(Image(SafesOf, table)) = n
        /\ \A r \in 1 .. n : Image(SafesOf, table)[r] = Image(SafeOf, table[r])
    BY <1>1, SafesAre
  <2>2. \A r \in 1 .. n :
          Image(SafesOf, table)[r] = [i \in DOMAIN Head(table) |-> Safe(table[r][i])]
    BY <2>1, <1>9
  <2> QED BY <2>1, <2>2
<1>11. /\ all[1] = [i \in DOMAIN Head(table) |-> Safe(Head(table)[i])]
       /\ [i \in DOMAIN all[1] |-> Trimmed(all[1][i])] =
            [i \in DOMAIN Head(table) |-> Trimmed(Safe(Head(table)[i]))]
  <2>1. all[1] = [i \in DOMAIN Head(table) |-> Safe(Head(table)[i])]
    BY <1>2, <1>7, <1>10
  <2> QED BY <2>1
<1>12. Tail(all) = [r \in 1 .. n - 1 |->
                      [i \in DOMAIN Head(table) |-> Safe(table[r + 1][i])]]
  <2>1. all # <<>>
    BY <1>2, <1>10, EmptySeq
  <2>2. /\ Tail(all) \in Seq(Seq(Text)) /\ Len(Tail(all)) = n - 1
        /\ \A r \in 1 .. n - 1 : Tail(all)[r] = all[r + 1]
    BY <1>10, <2>1, HeadTailProperties
  <2>3. \A r \in 1 .. n - 1 : r + 1 \in 1 .. n
    OBVIOUS
  <2>4. \A r \in 1 .. n - 1 : Tail(all)[r] = [i \in DOMAIN Head(table) |-> Safe(table[r + 1][i])]
    BY <1>10, <2>2, <2>3
  <2>5. Tail(all) = [r \in 1 .. n - 1 |-> Tail(all)[r]]
    BY <2>2, LenProperties
  <2> QED BY <2>4, <2>5
<1>13. parseDelimited(Sheet(table)) =
         [headers |-> [i \in DOMAIN all[1] |-> Trimmed(all[1][i])], rows |-> NotBlank(Tail(all))]
  BY <1>6, <1>10, SheetIsParsed
<1>14. decodeUpload(toCsv(table)) = Sheet(table)
  BY UploadIs
<1> QED BY <1>1, <1>11, <1>12, <1>13, <1>14

-----------------------------------------------------------------------------
(* CsvImport: the operator's page, the previews under way, the row written.  *)
PageShape ==
    /\ wizard = [step |-> wizard.step, of |-> wizard.of, mapping |-> wizard.mapping,
                 order |-> wizard.order, busy |-> wizard.busy, shown |-> wizard.shown,
                 muddled |-> wizard.muddled]
    /\ wizard.busy \in BOOLEAN /\ wizard.muddled \in BOOLEAN
PressShape ==
    pressed = [of |-> pressed.of, over |-> pressed.over, mapping |-> pressed.mapping,
               order |-> pressed.order, shown |-> pressed.shown, muddled |-> pressed.muddled]
CallShape ==
    \A c \in calls : /\ c = [n |-> c.n, of |-> c.of, mapping |-> c.mapping, order |-> c.order,
                             answer |-> c.answer]
                     /\ c.of \in 1 .. Len(imports)
UploadsFit ==
    /\ imports \in Seq({"analysed", "committed", "discarded"})
    /\ wizard.step = "review" => wizard.of \in 1 .. Len(imports)
BeforeTheFile ==
    file = NoFile => /\ wizard.step = "upload" /\ calls = {} /\ pressed = NoPress
                     /\ written = <<>>

(* A row coerced from the file as it is.                                     *)
Coerced(row, mapping, order) == row = coerceRow(file, mapping, order, row.form)

(* Unless muddled: what is shown is of this mapping and this order and no
   preview of this upload is under way, or only one is, and it is of them.   *)
Shows ==
    /\ \A c \in calls : c.of # wizard.of
    /\ Coerced(wizard.shown, wizard.mapping, wizard.order)
Awaits ==
    /\ wizard.busy /\ pressed = NoPress
    /\ \E c : /\ calls = {c} /\ c.of = wizard.of
              /\ c.mapping = wizard.mapping /\ c.order = wizard.order
              /\ c.answer = Nothing \/ Coerced(c.answer, wizard.mapping, wizard.order)
PreviewFits == wizard.step = "review" /\ ~wizard.muddled => Shows \/ Awaits
PressFits ==
    pressed # NoPress /\ ~pressed.muddled =>
        Coerced(pressed.shown, pressed.mapping, pressed.order)
WrittenFits ==
    written # <<>> => /\ Coerced(written[1].row, written[1].row.target, written[1].row.order)
                      /\ WrittenAsPreviewed
ParsedFits ==
    parsed # <<>> =>
        /\ parsed[1].table \in Tables
        /\ parsed[1].read = parseDelimited(decodeUpload(toCsv(parsed[1].table)))

ImportIInv ==
    /\ PageShape /\ PressShape /\ CallShape /\ UploadsFit /\ BeforeTheFile
    /\ PreviewFits /\ PressFits /\ WrittenFits /\ ParsedFits

LEMMA CoercedIs ==
    \A f, mapping, order, version :
        /\ coerceRow(f, mapping, order, version).target = mapping
        /\ coerceRow(f, mapping, order, version).order = order
        /\ coerceRow(f, mapping, order, version).form = version
  BY DEF coerceRow

LEMMA ImportBegins == ImportInit => ImportIInv
<1> SUFFICES ASSUME ImportInit PROVE ImportIInv
  OBVIOUS
<1>1. /\ file = NoFile /\ wizard = NoWizard /\ calls = {} /\ written = <<>> /\ parsed = <<>>
      /\ pressed = NoPress /\ imports = <<>>
  BY DEF ImportInit
<1>2. wizard.step = "upload" /\ PageShape
  BY <1>1 DEF NoWizard, PageShape
<1>3. PressShape
  BY <1>1 DEF NoPress, PressShape
<1>4. UploadsFit
  BY <1>1, <1>2, EmptySeq DEF UploadsFit
<1> QED BY <1>1, <1>2, <1>3, <1>4 DEF ImportIInv, CallShape, BeforeTheFile, PreviewFits,
           PressFits, WrittenFits, ParsedFits

(* What holds as long as these stay as they are.                             *)
LEMMA StillWritten ==
    ASSUME ImportIInv, file' = file, written' = written, parsed' = parsed
    PROVE  WrittenFits' /\ ParsedFits'
  BY DEF ImportIInv, WrittenFits, WrittenAsPreviewed, ParsedFits, Coerced

LEMMA StillPressed ==
    ASSUME ImportIInv, file' = file, pressed' = pressed
    PROVE  PressFits' /\ PressShape'
  BY DEF ImportIInv, PressFits, PressShape, Coerced

LEMMA Uploading ==
    ASSUME ImportIInv, NEW hs \in Headings, Uploads(hs)
    PROVE  ImportIInv'
<1>1. /\ wizard.step = "upload" /\ calls' = calls /\ pressed' = pressed
      /\ written' = written /\ parsed' = parsed /\ imports' = Append(imports, "analysed")
      /\ PressShape /\ CallShape /\ UploadsFit /\ BeforeTheFile /\ ParsedFits
  BY DEF Uploads, ImportIInv
<1>2. PICK f, mapping, order :
         /\ \E cells : f = [headings |-> hs, cells |-> cells]
         /\ file \in {NoFile, f} /\ file' = f
         /\ wizard' = [NoWizard EXCEPT !.step = "review", !.of = Len(imports) + 1,
                         !.mapping = mapping, !.order = order,
                         !.shown = coerceRow(f, mapping, order, form)]
  BY DEF Uploads
<1>3. /\ wizard'.step = "review" /\ wizard'.mapping = mapping /\ wizard'.order = order
      /\ wizard'.of = Len(imports) + 1 /\ wizard'.shown = coerceRow(file', mapping, order, form)
      /\ PageShape'
  BY <1>2 DEF NoWizard, PageShape
<1>4. file' # NoFile
  <2>1. Len(hs) >= 2
    BY ImportConstants
  <2>2. hs # <<>>
    BY <2>1, EmptySeq
  <2> QED BY <1>2, <2>2 DEF NoFile
<1>5. wizard'.shown = coerceRow(file', mapping, order, wizard'.shown.form)
  BY <1>3, CoercedIs
<1>6. UploadsFit' /\ Len(imports) \in Nat /\ Len(imports') = Len(imports) + 1
  BY <1>1, <1>3, AppendProperties DEF UploadsFit
<1>7. CallShape'
  BY <1>1, <1>6 DEF CallShape
<1>8. PreviewFits'
  <2>1. ASSUME NEW c \in calls PROVE c.of # Len(imports) + 1
    BY <1>1, <1>6 DEF CallShape
  <2> QED BY <2>1, <1>1, <1>3, <1>5 DEF PreviewFits, Shows, Coerced
<1>9. PressFits' /\ PressShape' /\ WrittenFits' /\ ParsedFits'
  <2>1. CASE file = NoFile
    BY <2>1, <1>1 DEF BeforeTheFile, PressFits, PressShape, WrittenFits, ParsedFits
  <2>2. CASE file = f
    BY <2>2, <1>1, <1>2, StillWritten, StillPressed
  <2> QED BY <1>2, <2>1, <2>2
<1> QED BY <1>3, <1>4, <1>6, <1>7, <1>8, <1>9 DEF ImportIInv, BeforeTheFile

(* A new preview is asked for, with the mapping and the order of the page.   *)
LEMMA Asking ==
    ASSUME ImportIInv, wizard.step = "review", NEW mapping, NEW order,
           wizard' = [wizard EXCEPT !.mapping = mapping, !.order = order, !.busy = TRUE,
                                    !.muddled = wizard.muddled \/ InBetween],
           Asks(mapping, order)
    PROVE  ImportIInv'
<1>1. /\ PageShape /\ CallShape /\ UploadsFit /\ BeforeTheFile
      /\ file' = file /\ pressed' = pressed /\ written' = written /\ parsed' = parsed
      /\ imports' = imports
  BY DEF ImportIInv, Asks
<1>2. /\ wizard'.step = "review" /\ wizard'.mapping = mapping /\ wizard'.order = order
      /\ wizard'.of = wizard.of /\ wizard'.busy = TRUE
      /\ wizard'.muddled <=> (wizard.muddled \/ InBetween)
      /\ PageShape'
  BY <1>1 DEF PageShape
<1>3. PICK c : /\ c = [n |-> previews + 1, of |-> wizard.of, mapping |-> mapping,
                       order |-> order, answer |-> Nothing]
               /\ calls' = calls \union {c}
  BY DEF Asks
<1>4. /\ c.of = wizard.of /\ c.mapping = mapping /\ c.order = order /\ c.answer = Nothing
      /\ c = [n |-> c.n, of |-> c.of, mapping |-> c.mapping, order |-> c.order,
              answer |-> c.answer]
  BY <1>3
<1>5. CallShape'
  BY <1>1, <1>3, <1>4 DEF CallShape, UploadsFit
<1>6. PreviewFits'
  <2> SUFFICES ASSUME ~wizard'.muddled PROVE Awaits'
    BY <1>2 DEF PreviewFits
  <2>1. calls' = {c} /\ pressed' = NoPress
    BY <1>1, <1>2, <1>3 DEF InBetween
  <2> QED BY <2>1, <1>2, <1>4 DEF Awaits
<1>7. WrittenFits' /\ ParsedFits' /\ PressFits' /\ PressShape'
  BY <1>1, StillWritten, StillPressed
<1>8. BeforeTheFile' /\ UploadsFit'
  BY <1>1, <1>2 DEF BeforeTheFile, UploadsFit
<1> QED BY <1>2, <1>5, <1>6, <1>7, <1>8 DEF ImportIInv

LEMMA Retargeting ==
    ASSUME ImportIInv, NEW i, NEW target, retarget(i, target)
    PROVE  ImportIInv'
<1>1. PICK mapping : mapping = Retargeted(i, target)
  OBVIOUS
<1>2. /\ wizard.step = "review" /\ Asks(mapping, wizard.order)
      /\ wizard' = [wizard EXCEPT !.mapping = mapping, !.busy = TRUE,
                                  !.muddled = wizard.muddled \/ InBetween]
  BY <1>1 DEF retarget
<1>3. wizard' = [wizard EXCEPT !.mapping = mapping, !.order = wizard.order, !.busy = TRUE,
                               !.muddled = wizard.muddled \/ InBetween]
  <2>1. PageShape
    BY DEF ImportIInv
  <2> QED BY <2>1, <1>2 DEF PageShape
<1> QED BY <1>2, <1>3, Asking

LEMMA Reordering ==
    ASSUME ImportIInv, NEW order, Reorders(order)
    PROVE  ImportIInv'
<1>1. /\ wizard.step = "review" /\ Asks(wizard.mapping, order)
      /\ wizard' = [wizard EXCEPT !.order = order, !.busy = TRUE,
                                  !.muddled = wizard.muddled \/ InBetween]
  BY DEF Reorders
<1>2. wizard' = [wizard EXCEPT !.mapping = wizard.mapping, !.order = order, !.busy = TRUE,
                               !.muddled = wizard.muddled \/ InBetween]
  <2>1. PageShape
    BY DEF ImportIInv
  <2> QED BY <2>1, <1>1 DEF PageShape
<1> QED BY <1>1, <1>2, Asking

(* A preview of the upload on the page, which is in review and not muddled,
   is the one it awaits.                                                     *)
LEMMA TheCall ==
    ASSUME ImportIInv, NEW c \in calls, c.of = wizard.of, wizard.step = "review",
           ~wizard.muddled
    PROVE  /\ wizard.busy /\ pressed = NoPress /\ calls = {c}
           /\ c.mapping = wizard.mapping /\ c.order = wizard.order
           /\ c.answer = Nothing \/ Coerced(c.answer, wizard.mapping, wizard.order)
<1>1. Awaits
  BY DEF ImportIInv, PreviewFits, Shows
<1> QED BY <1>1 DEF Awaits

LEMMA Answering ==
    ASSUME ImportIInv, NEW c \in calls, Reanalyses(c)
    PROVE  ImportIInv'
<1>1. /\ wizard' = wizard /\ file' = file /\ written' = written /\ parsed' = parsed
      /\ pressed' = pressed /\ imports' = imports
      /\ PageShape /\ CallShape /\ UploadsFit /\ BeforeTheFile
  BY DEF Reanalyses, ImportIInv
<1>2. PICK d, answer : /\ answer = coerceRow(file, c.mapping, c.order, form)
                       /\ d = [c EXCEPT !.answer = answer]
                       /\ calls' = (calls \ {c}) \union {d}
  BY DEF Reanalyses
<1>3. /\ d.of = c.of /\ d.mapping = c.mapping /\ d.order = c.order /\ d.answer = answer
      /\ d = [n |-> d.n, of |-> d.of, mapping |-> d.mapping, order |-> d.order,
              answer |-> d.answer]
      /\ c.of \in 1 .. Len(imports)
  BY <1>1, <1>2 DEF CallShape
<1>4. CallShape'
  BY <1>1, <1>2, <1>3 DEF CallShape
<1>5. answer = coerceRow(file, c.mapping, c.order, answer.form)
  BY <1>2, CoercedIs
<1>6. PreviewFits'
  <2> SUFFICES ASSUME wizard.step = "review", ~wizard.muddled PROVE Shows' \/ Awaits'
    BY <1>1 DEF PreviewFits
  <2>1. CASE c.of = wizard.of
    <3>1. /\ wizard.busy /\ pressed = NoPress /\ calls = {c} /\ c.mapping = wizard.mapping
          /\ c.order = wizard.order
      BY <2>1, TheCall
    <3>2. calls' = {d}
      BY <1>2, <3>1
    <3> QED BY <1>1, <1>3, <1>5, <2>1, <3>1, <3>2 DEF Awaits, Coerced
  <2>2. CASE c.of # wizard.of
    <3>1. Shows
      BY <2>2 DEF ImportIInv, PreviewFits, Awaits
    <3> QED BY <3>1, <2>2, <1>1, <1>2, <1>3 DEF Shows, Coerced
  <2> QED BY <2>1, <2>2
<1>7. WrittenFits' /\ ParsedFits' /\ PressFits' /\ PressShape'
  BY <1>1, StillWritten, StillPressed
<1>8. BeforeTheFile'
  BY <1>1 DEF BeforeTheFile
<1> QED BY <1>1, <1>4, <1>6, <1>7, <1>8 DEF ImportIInv, PageShape, UploadsFit

LEMMA Arriving ==
    ASSUME ImportIInv, NEW c \in calls, PreviewArrives(c)
    PROVE  ImportIInv'
<1>1. /\ c.answer # Nothing /\ calls' = calls \ {c}
      /\ wizard' = [wizard EXCEPT !.of = c.of, !.shown = c.answer, !.busy = FALSE,
                                  !.muddled = wizard.muddled \/ c.of # wizard.of]
      /\ file' = file /\ written' = written /\ parsed' = parsed
      /\ pressed' = pressed /\ imports' = imports
      /\ PageShape /\ CallShape /\ UploadsFit /\ BeforeTheFile
  BY DEF PreviewArrives, ImportIInv
<1>2. /\ wizard'.step = wizard.step /\ wizard'.mapping = wizard.mapping
      /\ wizard'.order = wizard.order /\ wizard'.of = c.of /\ wizard'.shown = c.answer
      /\ wizard'.muddled <=> (wizard.muddled \/ c.of # wizard.of)
      /\ PageShape'
  BY <1>1 DEF PageShape
<1>3. PreviewFits'
  <2> SUFFICES ASSUME wizard.step = "review", ~wizard.muddled, c.of = wizard.of
               PROVE  Shows'
    BY <1>2 DEF PreviewFits
  <2>1. calls = {c} /\ Coerced(c.answer, wizard.mapping, wizard.order)
    BY <1>1, TheCall
  <2>2. calls' = {}
    BY <1>1, <2>1
  <2> QED BY <1>1, <1>2, <2>1, <2>2 DEF Shows, Coerced
<1>4. WrittenFits' /\ ParsedFits' /\ PressFits' /\ PressShape'
  BY <1>1, StillWritten, StillPressed
<1>5. UploadsFit' /\ CallShape' /\ BeforeTheFile'
  BY <1>1, <1>2 DEF UploadsFit, CallShape, BeforeTheFile
<1> QED BY <1>2, <1>3, <1>4, <1>5 DEF ImportIInv

LEMMA Failing ==
    ASSUME ImportIInv, NEW c \in calls, PreviewFails(c)
    PROVE  ImportIInv'
<1>1. /\ calls' = calls \ {c}
      /\ wizard' = [wizard EXCEPT !.busy = FALSE,
                                  !.muddled = wizard.muddled \/ c.of = wizard.of]
      /\ file' = file /\ written' = written /\ parsed' = parsed
      /\ pressed' = pressed /\ imports' = imports
      /\ PageShape /\ CallShape /\ UploadsFit /\ BeforeTheFile
  BY DEF PreviewFails, ImportIInv
<1>2. /\ wizard'.step = wizard.step /\ wizard'.mapping = wizard.mapping
      /\ wizard'.order = wizard.order /\ wizard'.of = wizard.of /\ wizard'.shown = wizard.shown
      /\ wizard'.muddled <=> (wizard.muddled \/ c.of = wizard.of)
      /\ PageShape'
  BY <1>1 DEF PageShape
<1>3. PreviewFits'
  <2> SUFFICES ASSUME wizard.step = "review", ~wizard.muddled, c.of # wizard.of
               PROVE  Shows'
    BY <1>2 DEF PreviewFits
  <2>1. Shows
    BY DEF ImportIInv, PreviewFits, Awaits
  <2> QED BY <2>1, <1>1, <1>2 DEF Shows, Coerced
<1>4. WrittenFits' /\ ParsedFits' /\ PressFits' /\ PressShape'
  BY <1>1, StillWritten, StillPressed
<1>5. UploadsFit' /\ CallShape' /\ BeforeTheFile'
  BY <1>1, <1>2 DEF UploadsFit, CallShape, BeforeTheFile
<1> QED BY <1>2, <1>3, <1>4, <1>5 DEF ImportIInv

(* Steps that leave the file, the page and its previews alone.               *)
LEMMA PageUntouched ==
    ASSUME ImportIInv, file' = file, wizard' = wizard, calls' = calls, pressed' = pressed,
           written' = written, parsed' = parsed, Len(imports') = Len(imports),
           imports' \in Seq({"analysed", "committed", "discarded"})
    PROVE  ImportIInv'
<1>1. WrittenFits' /\ ParsedFits' /\ PressFits' /\ PressShape'
  BY StillWritten, StillPressed
<1> QED BY <1>1 DEF ImportIInv, PageShape, CallShape, UploadsFit, BeforeTheFile, PreviewFits,
                    Shows, Awaits, Coerced

LEMMA StatusSet ==
    ASSUME ImportIInv, NEW i, NEW status \in {"analysed", "committed", "discarded"},
           imports' = [imports EXCEPT ![i] = status]
    PROVE  /\ imports' \in Seq({"analysed", "committed", "discarded"})
           /\ Len(imports') = Len(imports)
<1>1. imports \in Seq({"analysed", "committed", "discarded"})
  BY DEF ImportIInv, UploadsFit
<1>2. CASE i \in 1 .. Len(imports)
  BY <1>1, <1>2, ExceptSeq
<1>3. CASE i \notin 1 .. Len(imports)
  <2>1. imports' = imports
    BY <1>1, <1>3
  <2> QED BY <1>1, <2>1
<1> QED BY <1>2, <1>3

LEMMA AnotherForm ==
    ASSUME ImportIInv, FormChanges
    PROVE  ImportIInv'
<1>1. /\ file' = file /\ wizard' = wizard /\ calls' = calls /\ pressed' = pressed
      /\ written' = written /\ parsed' = parsed /\ imports' = imports
  BY DEF FormChanges
<1> QED BY <1>1, PageUntouched DEF ImportIInv, UploadsFit

LEMMA Pressing ==
    ASSUME ImportIInv, PressesImport
    PROVE  ImportIInv'
<1>1. /\ wizard.step = "review" /\ ~wizard.busy
      /\ wizard' = [wizard EXCEPT !.busy = TRUE]
      /\ file' = file /\ calls' = calls /\ written' = written /\ parsed' = parsed
      /\ imports' = imports
      /\ PageShape /\ CallShape /\ UploadsFit /\ BeforeTheFile
  BY DEF PressesImport, ImportIInv
<1>2. /\ wizard'.step = wizard.step /\ wizard'.mapping = wizard.mapping
      /\ wizard'.order = wizard.order /\ wizard'.of = wizard.of /\ wizard'.shown = wizard.shown
      /\ wizard'.muddled = wizard.muddled
      /\ PageShape'
  BY <1>1 DEF PageShape
<1>3. /\ pressed'.mapping = wizard.mapping /\ pressed'.order = wizard.order
      /\ pressed'.shown = wizard.shown /\ pressed'.muddled = wizard.muddled
      /\ PressShape'
  BY DEF PressesImport, PressShape
<1>4. ~wizard.muddled => Shows
  BY <1>1 DEF ImportIInv, PreviewFits, Awaits
<1>5. PreviewFits' /\ PressFits'
  BY <1>1, <1>2, <1>3, <1>4 DEF PreviewFits, PressFits, Shows, Coerced
<1>6. WrittenFits' /\ ParsedFits'
  BY <1>1, StillWritten
<1>7. UploadsFit' /\ CallShape' /\ BeforeTheFile'
  BY <1>1, <1>2 DEF UploadsFit, CallShape, BeforeTheFile
<1> QED BY <1>2, <1>3, <1>5, <1>6, <1>7 DEF ImportIInv

LEMMA Committing ==
    ASSUME ImportIInv, Commits
    PROVE  ImportIInv'
<1>1. /\ pressed # NoPress /\ pressed' = [pressed EXCEPT !.over = TRUE]
      /\ imports' = [imports EXCEPT ![pressed.of] = "committed"]
      /\ wizard' = wizard /\ file' = file /\ calls' = calls /\ parsed' = parsed
      /\ PageShape /\ PressShape /\ CallShape /\ UploadsFit /\ BeforeTheFile
  BY DEF Commits, ImportIInv
<1>2. PICK row, press :
         /\ row = coerceRow(file, pressed.mapping, pressed.order, form) /\ press = pressed
         /\ written' = <<[row |-> row, press |-> press]>> \/ written' = written
  BY DEF Commits
<1>3. /\ pressed'.mapping = pressed.mapping /\ pressed'.order = pressed.order
      /\ pressed'.shown = pressed.shown /\ pressed'.muddled = pressed.muddled
      /\ PressShape'
  BY <1>1 DEF PressShape
<1>4. PressFits'
  BY <1>1, <1>3 DEF ImportIInv, PressFits, Coerced
<1>5. ASSUME written' = <<[row |-> row, press |-> press]>>
      PROVE  WrittenFits'
  <2>1. written'[1].row = row /\ written'[1].press = press
    BY <1>5
  <2>2. /\ row.target = pressed.mapping /\ row.order = pressed.order /\ row.form = form
    BY <1>2, CoercedIs
  <2>3. Coerced(written[1].row, written[1].row.target, written[1].row.order)'
    BY <1>1, <1>2, <2>1, <2>2 DEF Coerced
  <2>4. WrittenAsPreviewed'
    <3> SUFFICES ASSUME ~pressed.muddled, form = pressed.shown.form PROVE row = pressed.shown
      BY <1>2, <2>1, <2>2 DEF WrittenAsPreviewed
    <3>1. Coerced(pressed.shown, pressed.mapping, pressed.order)
      BY <1>1 DEF ImportIInv, PressFits
    <3> QED BY <3>1, <1>2 DEF Coerced
  <2> QED BY <2>3, <2>4 DEF WrittenFits
<1>6. WrittenFits'
  <2>1. CASE written' = written
    BY <2>1, <1>1 DEF ImportIInv, WrittenFits, WrittenAsPreviewed, Coerced
  <2> QED BY <2>1, <1>2, <1>5
<1>7. ParsedFits' /\ PageShape' /\ BeforeTheFile'
  BY <1>1 DEF ImportIInv, ParsedFits, PageShape, BeforeTheFile
<1>8. UploadsFit' /\ CallShape'
  BY <1>1, StatusSet DEF UploadsFit, CallShape
<1>9. PreviewFits'
  BY <1>1 DEF ImportIInv, PreviewFits, Shows, Awaits, Coerced
<1> QED BY <1>3, <1>4, <1>6, <1>7, <1>8, <1>9 DEF ImportIInv

LEMMA PressOver ==
    ASSUME ImportIInv, NEW step, step = wizard.step \/ step = "done", pressed # NoPress,
           wizard' = [wizard EXCEPT !.step = step, !.busy = FALSE], pressed' = NoPress,
           file' = file, calls' = calls, written' = written, parsed' = parsed,
           imports' = imports
    PROVE  ImportIInv'
<1>1. PageShape /\ CallShape /\ UploadsFit /\ BeforeTheFile
  BY DEF ImportIInv
<1>2. /\ wizard'.step = step /\ wizard'.mapping = wizard.mapping
      /\ wizard'.order = wizard.order /\ wizard'.of = wizard.of /\ wizard'.shown = wizard.shown
      /\ wizard'.muddled = wizard.muddled
      /\ PageShape'
  BY <1>1 DEF PageShape
<1>3. PreviewFits'
  <2> SUFFICES ASSUME wizard.step = "review", ~wizard.muddled PROVE Shows'
    BY <1>2 DEF PreviewFits
  <2>1. Shows
    BY DEF ImportIInv, PreviewFits, Awaits
  <2> QED BY <2>1, <1>2 DEF Shows, Coerced
<1>4. PressFits' /\ PressShape'
  BY DEF PressFits, PressShape, NoPress
<1>5. WrittenFits' /\ ParsedFits'
  BY StillWritten
<1>6. UploadsFit' /\ CallShape' /\ BeforeTheFile'
  BY <1>1, <1>2 DEF UploadsFit, CallShape, BeforeTheFile
<1> QED BY <1>2, <1>3, <1>4, <1>5, <1>6 DEF ImportIInv

LEMMA PressEnds ==
    ASSUME ImportIInv, CommitAnswered \/ CommitFails
    PROVE  ImportIInv'
<1>1. CASE CommitAnswered
  <2>1. pressed # NoPress
    BY <1>1 DEF CommitAnswered, NoPress
  <2>2. /\ wizard' = [wizard EXCEPT !.step = "done", !.busy = FALSE] /\ pressed' = NoPress
        /\ file' = file /\ calls' = calls /\ written' = written /\ parsed' = parsed
        /\ imports' = imports
    BY <1>1 DEF CommitAnswered
  <2> QED BY <2>1, <2>2, PressOver
<1>2. CASE CommitFails
  <2>1. /\ pressed # NoPress /\ pressed' = NoPress
        /\ wizard' = [wizard EXCEPT !.busy = FALSE]
        /\ file' = file /\ calls' = calls /\ written' = written /\ parsed' = parsed
        /\ imports' = imports
    BY <1>2 DEF CommitFails
  <2>2. wizard' = [wizard EXCEPT !.step = wizard.step, !.busy = FALSE]
    <3>1. PageShape
      BY DEF ImportIInv
    <3> QED BY <3>1, <2>1 DEF PageShape
  <2> QED BY <2>1, <2>2, PressOver
<1> QED BY <1>1, <1>2

LEMMA Discarding ==
    ASSUME ImportIInv, NEW i, PressesDiscard \/ IsDiscarded(i)
    PROVE  ImportIInv'
<1>1. /\ file' = file /\ wizard' = wizard /\ calls' = calls /\ pressed' = pressed
      /\ written' = written /\ parsed' = parsed
      /\ imports' = imports \/ imports' = [imports EXCEPT ![i] = "discarded"]
  BY DEF PressesDiscard, IsDiscarded
<1>2. CASE imports' = imports
  BY <1>1, <1>2, PageUntouched DEF ImportIInv, UploadsFit
<1>3. CASE imports' = [imports EXCEPT ![i] = "discarded"]
  BY <1>1, <1>3, StatusSet, PageUntouched
<1> QED BY <1>1, <1>2, <1>3

LEMMA Resetting ==
    ASSUME ImportIInv, NEW i, BeginsAnew(i) \/ ImportsAnother
    PROVE  ImportIInv'
<1>1. /\ wizard' = NoWizard /\ file' = file /\ calls' = calls /\ pressed' = pressed
      /\ written' = written /\ parsed' = parsed /\ imports' = imports
  BY DEF BeginsAnew, ImportsAnother
<1>2. wizard'.step = "upload" /\ PageShape'
  BY <1>1 DEF NoWizard, PageShape
<1>3. WrittenFits' /\ ParsedFits' /\ PressFits' /\ PressShape'
  BY <1>1, StillWritten, StillPressed
<1> QED BY <1>1, <1>2, <1>3 DEF ImportIInv, CallShape, UploadsFit, BeforeTheFile, PreviewFits

LEMMA ReadingBack ==
    ASSUME ImportIInv, ReadsBack
    PROVE  ImportIInv'
<1>1. /\ file' = file /\ wizard' = wizard /\ calls' = calls /\ written' = written
      /\ pressed' = pressed /\ imports' = imports
  BY DEF ReadsBack
<1>2. PICK table \in Tables :
         parsed' = <<[table |-> table, read |-> parseDelimited(decodeUpload(toCsv(table)))]>>
  BY DEF ReadsBack
<1>3. parsed'[1].table = table
      /\ parsed'[1].read = parseDelimited(decodeUpload(toCsv(table)))
  BY <1>2
<1>4. ParsedFits'
  BY <1>3 DEF ParsedFits
<1>5. PressFits' /\ PressShape'
  BY <1>1, StillPressed
<1>6. WrittenFits'
  BY <1>1 DEF ImportIInv, WrittenFits, WrittenAsPreviewed, Coerced
<1> QED BY <1>1, <1>4, <1>5, <1>6 DEF ImportIInv, PageShape, CallShape, UploadsFit,
           BeforeTheFile, PreviewFits, Shows, Awaits, Coerced

LEMMA ImportStep ==
    ASSUME ImportIInv, [ImportNext]_importVars
    PROVE  ImportIInv'
<1>1. CASE UNCHANGED importVars
  BY <1>1, PageUntouched DEF importVars, ImportIInv, UploadsFit
<1>2. CASE ImportNext
  <2>1. ASSUME NEW hs \in Headings, Uploads(hs) PROVE ImportIInv'
    BY <2>1, Uploading
  <2>2. ASSUME NEW i \in 1 .. 3, NEW target \in Offered, retarget(i, target) PROVE ImportIInv'
    BY <2>2, Retargeting
  <2>3. ASSUME NEW order \in {"dmy", "mdy", "iso"}, Reorders(order) PROVE ImportIInv'
    BY <2>3, Reordering
  <2>4. ASSUME NEW c \in calls, Reanalyses(c) PROVE ImportIInv'
    BY <2>4, Answering
  <2>5. ASSUME NEW c \in calls, PreviewArrives(c) PROVE ImportIInv'
    BY <2>5, Arriving
  <2>6. ASSUME NEW c \in calls, PreviewFails(c) PROVE ImportIInv'
    BY <2>6, Failing
  <2>7. CASE FormChanges
    BY <2>7, AnotherForm
  <2>8. CASE PressesImport
    BY <2>8, Pressing
  <2>9. CASE Commits
    BY <2>9, Committing
  <2>10. CASE CommitAnswered \/ CommitFails
    BY <2>10, PressEnds
  <2>11. CASE PressesDiscard
    BY <2>11, Discarding
  <2>12. ASSUME NEW i \in leaving, IsDiscarded(i) PROVE ImportIInv'
    BY <2>12, Discarding
  <2>13. ASSUME NEW i \in leaving, BeginsAnew(i) PROVE ImportIInv'
    BY <2>13, Resetting
  <2>14. CASE ImportsAnother
    BY <2>14, Resetting
  <2>15. CASE ReadsBack
    BY <2>15, ReadingBack
  <2> QED BY <1>2, <2>1, <2>2, <2>3, <2>4, <2>5, <2>6, <2>7, <2>8, <2>9, <2>10, <2>11,
             <2>12, <2>13, <2>14, <2>15 DEF ImportNext
<1> QED BY <1>1, <1>2

(* A filled cell is complained of, put, or overwritten by a later one.       *)
LEMMA NoCellIsLost ==
    ASSUME NEW f, NEW mapping, NEW order, NEW version, NEW i \in Filled(f, mapping),
           NEW row, row = coerceRow(f, mapping, order, version)
    PROVE  \/ i \in row.issues
           \/ \E put \in row.puts : put[1] = i
           \/ \E j \in Filled(f, mapping) : j > i /\ mapping[j] = mapping[i]
<1>1. row.issues = Complaints(f, mapping, order)
      /\ row.puts = {<<j, mapping[j], Kept(mapping[j], f.cells[j], order, version)>> :
                       j \in {k \in Filled(f, mapping) :
                           /\ Kept(mapping[k], f.cells[k], order, version) # <<>>
                           /\ ~Overwritten(f, mapping, order, k)}}
  BY DEF coerceRow
<1>2. CASE Overwritten(f, mapping, order, i)
  BY <1>2 DEF Overwritten
<1>3. CASE ~Overwritten(f, mapping, order, i) /\ i \notin Complaints(f, mapping, order)
  <2>1. /\ mapping[i] \in Dates => Readable(f.cells[i], order)
        /\ ~(mapping[i] = "progress" /\ f.cells[i] = "word")
    BY <1>3 DEF Complaints
  <2>2. Kept(mapping[i], f.cells[i], order, version) # <<>>
    <3> HIDE DEF Readable
    <3> QED BY <2>1 DEF Kept
  <2>3. PICK put : put = <<i, mapping[i], Kept(mapping[i], f.cells[i], order, version)>>
    OBVIOUS
  <2>4. put \in row.puts /\ put[1] = i
    BY <1>1, <1>3, <2>2, <2>3
  <2> QED BY <2>4
<1> QED BY <1>1, <1>2, <1>3

LEMMA ImportMeans == ImportIInv => ImportInv
<1> SUFFICES ASSUME ImportIInv PROVE ImportInv
  OBVIOUS
<1>1. WrittenAsPreviewed
  BY DEF ImportIInv, WrittenFits, WrittenAsPreviewed
<1>2. NothingIsLost
  <2>1. PICK row : row = written[1].row
    OBVIOUS
  <2> SUFFICES ASSUME written # <<>>, NEW i \in Filled(file, row.target)
               PROVE  \/ i \in row.issues
                      \/ \E put \in row.puts : put[1] = i
                      \/ \E j \in Filled(file, row.target) :
                           j > i /\ row.target[j] = row.target[i]
    BY <2>1 DEF NothingIsLost
  <2>2. row = coerceRow(file, row.target, row.order, row.form)
    BY <2>1 DEF ImportIInv, WrittenFits, Coerced
  <2> QED BY <2>2, NoCellIsLost
<1>3. ExportReadsBack
  <2> SUFFICES ASSUME parsed # <<>>,
                      sniffDelimiter(FirstLine(csvRow(Head(parsed[1].table)))) = Comma
               PROVE  LET table == parsed[1].table IN
                      parsed[1].read =
             [headers |-> [i \in DOMAIN Head(table) |-> Trimmed(Safe(Head(table)[i]))],
              rows |-> NotBlank([r \in 1 .. Len(table) - 1 |->
                                   [i \in DOMAIN Head(table) |-> Safe(table[r + 1][i])]])]
    BY DEF ExportReadsBack
  <2>1. PICK table : table = parsed[1].table
    OBVIOUS
  <2>2. table \in Tables /\ parsed[1].read = parseDelimited(decodeUpload(toCsv(table)))
    BY <2>1 DEF ImportIInv, ParsedFits
  <2>3. /\ table \in Seq(Seq(Text)) /\ table # <<>> /\ table[1] # <<>>
        /\ \A r \in DOMAIN table : Len(table[r]) = Len(table[1])
    BY <2>2, ImportConstants DEF Text
  <2>4. sniffDelimiter(FirstLine(csvRow(Head(table)))) = Comma
    BY <2>1
  <2>5. parseDelimited(decodeUpload(toCsv(table))) =
             [headers |-> [i \in DOMAIN Head(table) |-> Trimmed(Safe(Head(table)[i]))],
              rows |-> NotBlank([r \in 1 .. Len(table) - 1 |->
                                   [i \in DOMAIN Head(table) |-> Safe(table[r + 1][i])]])]
    BY <2>3, <2>4, TableReadsBack
  <2> QED BY <2>1, <2>2, <2>5
<1> QED BY <1>1, <1>2, <1>3 DEF ImportInv

(* The operator's page and the previews under way fit together at every step,
   and what is written was coerced from the file (MigrationPage.tsx,
   migration.service.ts).                                                    *)
THEOREM ImportFits == ImportSpec => []ImportIInv
  BY ImportBegins, ImportStep, PTL DEF ImportSpec

(* For every file and table: what is written is what was previewed, no filled
   cell is lost unnoticed, and an exported table is read back as it was
   written, whatever is in its cells (csv.ts, csv-import.ts).                *)
THEOREM FilesAreWrittenAsPreviewed == ImportSpec => []ImportInv
  BY ImportFits, ImportMeans, PTL
=============================================================================
