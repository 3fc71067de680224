---------------------------- MODULE CaseRecord ----------------------------
(***************************************************************************)
(* What is kept about one case besides its status and clock: the letters   *)
(* written about it and whom it waits for, the files added to it, the      *)
(* stamps of its outcome report, its appeals, and its permanent deletion.  *)
(* Every job is one HTTP request; its steps are the transactions and the   *)
(* disk operations of its handler, and between two of them any other job   *)
(* may run.  server/src/cases: outbound.service, attachments.controller,   *)
(* workflow.service, case-deletion.service.                                *)
(***************************************************************************)
EXTENDS Integers, FiniteSets

CONSTANTS
    Job,        \* requests, each used once
    File,       \* files somebody may add
    Appeal,     \* ids of appeal cases
    Window,     \* how long a closed case can be appealed
    MaxTime     \* bound of the clock

ASSUME CaseRecordAssumption ==
    /\ Window \in Nat /\ MaxTime \in Nat
    /\ File # {} /\ Appeal # {}

VARIABLES
    kase,       \* the row of the case; rows: how many rows refer to it so far
    appeals,    \* the appeal cases: absent, deleted, or the appeal_status of each
    attached,   \* files with a row in case_attachments
    arrived,    \* those of them that came through the delegation
    disk,       \* files under the uploads root
    job,        \* how far each request is and what it has read
    asked,      \* parties a letter has gone out to
    overtaken,  \* a publication replaced another it had not seen
    now

vars == <<kase, appeals, attached, arrived, disk, job, asked, overtaken, now>>

Never == -1
Times == {Never} \cup (0 .. MaxTime)
Party == {"customer", "internal"}
AppealStatuses == {"requested", "under_review", "upheld", "rejected"}
Ops == {"send", "external", "upload", "receive", "publish", "receipt",
        "appeal", "decide", "delete"}

(* delegated: a delegation of the case exists, accepted and open.           *)
KaseType == [exists : BOOLEAN, status : {"open", "pending", "closed"},
             until : Never .. (MaxTime + Window), delegated : BOOLEAN, waits : Party \cup {"nobody"},
             published : Times, accessed : Times,
             appealStatus : AppealStatuses \cup {"none"}, rows : Nat]

(* at and seen: when a stamp's row was read, and the stamp in it.  early:   *)
(* the files of the case when its deletion began.  rows: kase.rows then,    *)
(* and mark: when the tables were emptied.  removed: this deletion is the   *)
(* one that found the case still there.                                     *)
JobType == [op : Ops, pc : {"ready", "looked", "stored", "mailed", "logged",
                            "waiting", "moving", "listed", "emptied", "deleted",
                            "refused", "blocked", "failed", "ended"},
            party : Party, file : File, appeal : Appeal,
            verdict : AppealStatuses, at : Times, seen : Times,
            keys : SUBSET File, early : SUBSET File, lost : SUBSET File,
            rows : Nat, mark : Nat, removed : BOOLEAN]

SomeParty == CHOOSE p \in Party : TRUE
SomeFile == CHOOSE f \in File : TRUE
SomeAppeal == CHOOSE a \in Appeal : TRUE

(* A job not begun; the operands an operation has none of do not vary.      *)
Idle ==
    [op |-> "publish", pc |-> "ready", party |-> SomeParty, file |-> SomeFile,
     appeal |-> SomeAppeal, verdict |-> "requested", at |-> Never, seen |-> Never,
     keys |-> {}, early |-> {}, lost |-> {}, rows |-> 0, mark |-> 0,
     removed |-> FALSE]

(* A case in the middle of its life: some files on it, a letter under way.  *)
Init ==
    /\ \E files \in SUBSET File, s \in {"open", "closed"}, d \in BOOLEAN :
         /\ kase = [exists |-> TRUE, status |-> s,
                    until |-> IF s = "closed" THEN Window ELSE Never,
                    delegated |-> d, waits |-> "nobody", published |-> Never,
                    accessed |-> Never, appealStatus |-> "none", rows |-> 0]
         /\ attached = files
         /\ disk = files
    /\ arrived = {}
    /\ appeals = [a \in Appeal |-> "absent"]
    /\ job = [j \in Job |-> Idle]
    /\ asked = {}
    /\ overtaken = FALSE
    /\ now = 0

At(j, op, pc) == job[j].op \in op /\ job[j].pc = pc

(* A request begins as r; once it is over only a deletion is remembered.    *)
Begins(j, r, pc) ==
    /\ job[j] = Idle
    /\ job' = [job EXCEPT ![j] = IF pc = "ended" THEN [Idle EXCEPT !.pc = pc]
                                ELSE [r EXCEPT !.pc = pc]]
Goes(j, pc) ==
    job' = [job EXCEPT ![j] = IF pc \in {"ended", "failed"} /\ job[j].op # "delete"
                              THEN [Idle EXCEPT !.pc = "ended"]
                              ELSE [@ EXCEPT !.pc = pc]]
Live(a) == appeals[a] \notin {"absent", "deleted"}
Record == <<kase, appeals, attached, arrived, disk>>
Aside == <<asked, overtaken, now>>

(* A row that refers to the case was inserted with it.                      *)
Added(k) == [k EXCEPT !.rows = @ + 1]

(* Rows and keys are deleted, but not committed, by somebody else.          *)
BeingEmptied == \E j \in Job : job[j].pc = "emptied"

-----------------------------------------------------------------------------
(* Letters.  send reads the case; the mail leaves before anything about it  *)
(* is written.                                                              *)
SendLooks(j) ==
    /\ \E p \in Party : Begins(j, [Idle EXCEPT !.op = "send", !.party = p],
                                IF kase.exists THEN "looked" ELSE "ended")
    /\ UNCHANGED <<Record, Aside>>

(* What follows a mail that could not be sent: the audit row, and the error *)
(* to the operator.                                                         *)
AfterFailureGoesOn(j) == Goes(j, "logged")

AfterFailure(j) == Goes(j, "ended")

Mail(j) ==
    /\ At(j, {"send"}, "looked")
    /\ \/ /\ asked' = asked \cup {job[j].party}
          /\ Goes(j, "mailed")
       \/ AfterFailure(j) /\ UNCHANGED asked
    /\ UNCHANGED <<Record, overtaken, now>>

(* The copy in email_log refers to the case: it is refused for a case that  *)
(* is gone, and the request ends in an error although the mail has left.    *)
LogMail(j) ==
    /\ At(j, {"send"}, "mailed")
    /\ IF kase.exists
       THEN kase' = Added(kase) /\ Goes(j, "logged")
       ELSE Goes(j, "ended") /\ UNCHANGED kase
    /\ UNCHANGED <<appeals, attached, arrived, disk, Aside>>

(* A letter sent from the operator's own mail client is only reported.      *)
ExternalLooks(j) ==
    /\ \E p \in Party :
         /\ Begins(j, [Idle EXCEPT !.op = "external", !.party = p],
                   IF kase.exists THEN "logged" ELSE "ended")
         /\ asked' = asked \cup {p}
    /\ UNCHANGED <<Record, overtaken, now>>

(* setPendingFrom: an UPDATE by id, which finds nothing if the case is gone. *)
SetPending(j) ==
    /\ At(j, {"send", "external"}, "logged")
    /\ kase' = IF kase.exists THEN [kase EXCEPT !.waits = job[j].party] ELSE kase
    /\ Goes(j, IF job[j].op = "send" /\ job[j].party = "customer"
               THEN "waiting" ELSE "ended")
    /\ UNCHANGED <<appeals, attached, arrived, disk, Aside>>

(* markAwaitingRequester: changeStatus reads, and later writes by id.  That  *)
(* a status committed in between is overwritten is module CaseWorkflow's.   *)
AwaitRead(j) ==
    /\ At(j, {"send"}, "waiting")
    /\ Goes(j, IF kase.exists /\ kase.status = "open" THEN "moving" ELSE "ended")
    /\ UNCHANGED <<Record, Aside>>

AwaitMove(j) ==
    /\ At(j, {"send"}, "moving")
    /\ kase' = IF kase.exists THEN Added([kase EXCEPT !.status = "pending"]) ELSE kase
    /\ Goes(j, "ended")
    /\ UNCHANGED <<appeals, attached, arrived, disk, Aside>>

-----------------------------------------------------------------------------
(* Files: an operator's ("upload") or a delegate's ("receive").             *)
UploadLooks(j) ==
    /\ \E op \in {"upload", "receive"}, f \in File \ disk :
         /\ \A i \in Job : At(i, {"upload", "receive"}, "looked") => job[i].file # f
         /\ Begins(j, [Idle EXCEPT !.op = op, !.file = f],
                   IF kase.exists /\ (op = "receive" => kase.delegated)
                   THEN "looked" ELSE "ended")
    /\ UNCHANGED <<Record, Aside>>

UploadStores(j) ==
    /\ At(j, {"upload", "receive"}, "looked")
    /\ disk' = disk \cup {job[j].file}
    /\ Goes(j, "stored")
    /\ UNCHANGED <<kase, appeals, attached, arrived, Aside>>

(* A delegate's row refers to the delegation too, and waits for whoever is  *)
(* deleting it.  An operator's file is the answer the case waited for.      *)
UploadFiles(j) ==
    /\ At(j, {"upload", "receive"}, "stored")
    /\ job[j].op = "receive" => ~BeingEmptied
    /\ IF kase.exists
       THEN /\ attached' = attached \cup {job[j].file}
            /\ arrived' = IF job[j].op = "receive"
                          THEN arrived \cup {job[j].file} ELSE arrived
            /\ kase' = Added(IF job[j].op = "upload"
                             THEN [kase EXCEPT !.waits = "nobody"] ELSE kase)
       ELSE UNCHANGED <<kase, attached, arrived>>
    /\ Goes(j, "ended")
    /\ UNCHANGED <<appeals, disk, Aside>>

-----------------------------------------------------------------------------
(* The outcome report: published, and later confirmed to have been read.    *)
StampOf(op) == IF op = "publish" THEN kase.published ELSE kase.accessed

MayStamp(op) == kase.exists /\ (op = "receipt" => kase.published # Never)

StampReads(j) ==
    /\ \E op \in {"publish", "receipt"} :
         Begins(j, [Idle EXCEPT !.op = op, !.at = now, !.seen = StampOf(op)],
                IF MayStamp(op) THEN "looked" ELSE "ended")
    /\ UNCHANGED <<Record, Aside>>

(* The first stamp stays.                                                   *)
Stamp(j, t) == IF job[j].seen # Never THEN job[j].seen ELSE t

(* `now` was taken at some moment since the read.                           *)
StampWrites(j) ==
    /\ At(j, {"publish", "receipt"}, "looked")
    /\ \E t \in job[j].at .. now :
         kase' = IF ~kase.exists THEN kase
                 ELSE IF job[j].op = "publish"
                      THEN Added([kase EXCEPT !.published = Stamp(j, t)])
                      ELSE Added([kase EXCEPT !.accessed = Stamp(j, t)])
    /\ overtaken' = (overtaken \/ (kase.exists /\ StampOf(job[j].op) # job[j].seen))
    /\ Goes(j, "ended")
    /\ UNCHANGED <<appeals, attached, arrived, disk, asked, now>>

-----------------------------------------------------------------------------
(* Closing opens the window for an appeal; the rest of it is CaseWorkflow.  *)
Close ==
    /\ kase.exists /\ kase.status # "closed"
    /\ kase' = Added([kase EXCEPT !.status = "closed", !.until = now + Window])
    /\ UNCHANGED <<appeals, attached, arrived, disk, job, Aside>>

CanBeAppealed == kase.exists /\ kase.status = "closed" /\ now <= kase.until

AppealReads(j) ==
    /\ \E a \in Appeal :
         /\ appeals[a] = "absent"
         /\ \A i \in Job : At(i, {"appeal"}, "looked") => job[i].appeal # a
         /\ Begins(j, [Idle EXCEPT !.op = "appeal", !.appeal = a],
                   IF CanBeAppealed THEN "looked" ELSE "ended")
    /\ UNCHANGED <<Record, Aside>>

(* The appeal refers to its original, which must still be there.            *)
OriginalThere == kase.exists

AppealOpens(j) ==
    /\ At(j, {"appeal"}, "looked")
    /\ IF OriginalThere
       THEN /\ appeals' = [appeals EXCEPT ![job[j].appeal] = "requested"]
            /\ kase' = Added([kase EXCEPT !.appealStatus = "under_review"])
       ELSE UNCHANGED <<appeals, kase>>
    /\ Goes(j, "ended")
    /\ UNCHANGED <<attached, arrived, disk, Aside>>

DecideReads(j) ==
    /\ \E a \in Appeal, v \in AppealStatuses :
         Begins(j, [Idle EXCEPT !.op = "decide", !.appeal = a, !.verdict = v],
                IF Live(a) THEN "looked" ELSE "ended")
    /\ UNCHANGED <<Record, Aside>>

(* The row of the appeal, then that of its original, in one transaction:    *)
(* the first lock orders two decisions of the same appeal.                  *)
OnOriginalNothing(v) == kase

OnOriginal(v) == [kase EXCEPT !.appealStatus = v]

DecideWrites(j) ==
    /\ At(j, {"decide"}, "looked")
    /\ IF Live(job[j].appeal)
       THEN /\ appeals' = [appeals EXCEPT ![job[j].appeal] = job[j].verdict]
            /\ kase' = OnOriginal(job[j].verdict)
       ELSE UNCHANGED <<appeals, kase>>
    /\ Goes(j, "ended")
    /\ UNCHANGED <<attached, arrived, disk, Aside>>

-----------------------------------------------------------------------------
(* Permanent deletion: the case and its appeals are looked at, the keys of  *)
(* its files listed, its rows deleted in one transaction, its files after   *)
(* the commit.                                                              *)
NotAppealed == \A a \in Appeal : ~Live(a)

PurgeLooks(j) ==
    /\ Begins(j, [Idle EXCEPT !.op = "delete", !.early = attached, !.rows = kase.rows],
              IF kase.exists /\ NotAppealed THEN "looked" ELSE "ended")
    /\ UNCHANGED <<Record, Aside>>

KeysIn(j) == attached

PurgeLists(j) ==
    /\ At(j, {"delete"}, "looked")
    /\ job' = [job EXCEPT ![j].pc = "listed", ![j].keys = KeysIn(j)]
    /\ UNCHANGED <<Record, Aside>>

(* CASE_OWNED_TABLES empties case_delegations before case_attachments, whose *)
(* rows may refer to it: then that statement is refused.                    *)
OrderHolds == kase.exists => arrived = {}

PurgeEmpties(j) ==
    /\ At(j, {"delete"}, "listed")
    /\ ~BeingEmptied
    /\ job' = [job EXCEPT ![j].pc = IF OrderHolds THEN "emptied" ELSE "refused",
                          ![j].mark = kase.rows]
    /\ UNCHANGED <<Record, Aside>>

(* A row that arrived behind the emptied tables, or an appeal, still refers *)
(* to the case, and the database keeps it.                                  *)
Unreferenced(j) == kase.rows = job[j].mark /\ NotAppealed

PurgeDeletes(j) ==
    /\ At(j, {"delete"}, "emptied")
    /\ IF kase.exists /\ ~Unreferenced(j)
       THEN Goes(j, "blocked") /\ UNCHANGED <<kase, attached, arrived>>
       ELSE /\ kase' = [kase EXCEPT !.exists = FALSE, !.delegated = FALSE]
            /\ attached' = {}
            /\ arrived' = {}
            /\ job' = [job EXCEPT ![j].pc = "deleted", ![j].removed = kase.exists]
    /\ UNCHANGED <<appeals, disk, Aside>>

(* Each file is looked for afterwards; one that is still there is counted   *)
(* as failed in the audit entry.                                            *)
CountedByAsking(stuck) == {}

Counted(stuck) == stuck

FilesAfter == "deleted"

PurgeFiles(j) ==
    /\ At(j, {"delete"}, FilesAfter)
    /\ \E stuck \in SUBSET (job[j].keys \cap disk) :
         /\ disk' = disk \ (job[j].keys \ stuck)
         /\ job' = [job EXCEPT ![j].pc = "ended", ![j].lost = Counted(stuck)]
    /\ UNCHANGED <<kase, appeals, attached, arrived, Aside>>

(* An appeal has no files here; nothing refers to it.                       *)
PurgeAppeal(j) ==
    /\ Begins(j, Idle, "ended")
    /\ \E a \in Appeal : Live(a) /\ appeals' = [appeals EXCEPT ![a] = "deleted"]
    /\ UNCHANGED <<kase, attached, arrived, disk, Aside>>

-----------------------------------------------------------------------------
(* A failure, or a restart, ends a request after its last commit.           *)
Dies(j) ==
    /\ job[j].pc \notin {"ready", "ended", "failed", "refused", "blocked"}
    /\ Goes(j, "failed")
    /\ UNCHANGED <<Record, Aside>>

Tick ==
    /\ now < MaxTime
    /\ now' = now + 1
    /\ UNCHANGED <<Record, job, asked, overtaken>>

Letters(j) == SendLooks(j) \/ Mail(j) \/ LogMail(j) \/ ExternalLooks(j)
              \/ SetPending(j) \/ AwaitRead(j) \/ AwaitMove(j)
Uploads(j) == UploadLooks(j) \/ UploadStores(j) \/ UploadFiles(j)
Outcomes(j) == StampReads(j) \/ StampWrites(j) \/ AppealReads(j)
               \/ AppealOpens(j) \/ DecideReads(j) \/ DecideWrites(j)
Deletions(j) == PurgeLooks(j) \/ PurgeLists(j) \/ PurgeEmpties(j)
                \/ PurgeDeletes(j) \/ PurgeFiles(j) \/ PurgeAppeal(j)

Next ==
    \/ \E j \in Job : Letters(j) \/ Uploads(j) \/ Outcomes(j) \/ Deletions(j) \/ Dies(j)
    \/ Close
    \/ Tick

Spec == Init /\ [][Next]_vars

-----------------------------------------------------------------------------
(* Types; a letter or a stamp of a deleted case has nowhere to go.          *)
TypeOK ==
    /\ kase \in KaseType
    /\ appeals \in [Appeal -> AppealStatuses \cup {"absent", "deleted"}]
    /\ arrived \subseteq attached
    /\ attached \subseteq File
    /\ disk \subseteq File
    /\ job \in [Job -> JobType]
    /\ asked \subseteq Party
    /\ overtaken \in BOOLEAN
    /\ now \in 0 .. MaxTime

(* No appeal outlives the decision it appeals: deletion looks for appeals   *)
(* long before it deletes, and an appeal looks for its original before it   *)
(* is written.                                                              *)
NoAppealDangles == \A a \in Appeal : Live(a) => kase.exists

(* "The files go too": once the deletion of the case has ended, each file   *)
(* it had when that began is off the disk, or in the audit entry as not     *)
(* removed.                                                                 *)
FilesGoToo ==
    \A j \in Job : At(j, {"delete"}, "ended") /\ job[j].removed =>
        job[j].early \cap disk \subseteq job[j].lost

(* No row points at a file that is not there: uploads write the bytes       *)
(* first, and deletion removes them after the rows.                         *)
RowsHaveTheirBytes == attached \subseteq disk

(* The case waits only for somebody who was written to, whatever letters    *)
(* failed and whatever answers arrived in between.                          *)
AwaitedWasAsked == kase.waits # "nobody" => kase.waits \in asked

(* A report is read after it was published, and its first publication is    *)
(* the one on record, unless two publications overlapped.                   *)
ReadAfterPublished ==
    kase.accessed # Never =>
        /\ kase.published # Never
        /\ overtaken \/ kase.published <= kase.accessed

(* The original says how its only appeal stands, whichever of two decisions *)
(* came last.                                                               *)
VerdictsAgree ==
    \A a \in Appeal :
        Live(a) /\ (\A b \in Appeal \ {a} : appeals[b] = "absent") =>
            \/ kase.appealStatus = appeals[a]
            \/ kase.appealStatus = "under_review" /\ appeals[a] = "requested"

(* Rows and files of a case, its deletion included.                         *)
FilesAndRowsAgree == FilesGoToo /\ RowsHaveTheirBytes

(* What the case says of its correspondence and its outcome has happened.   *)
RecordInv == TypeOK /\ NoAppealDangles /\ AwaitedWasAsked /\ ReadAfterPublished

(* The tables are emptied in foreign-key-safe order: a deletion is stopped  *)
(* only by what arrived after it began.                                     *)
OrderIsSafe ==
    \A j \in Job : job[j].pc = "refused" => kase.rows # job[j].rows

=============================================================================
