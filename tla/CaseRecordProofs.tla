-------------------------- MODULE CaseRecordProofs --------------------------
(***************************************************************************)
(* What is kept about a case, proved for any number of requests, files and *)
(* appeals: what each request may still rely on when it goes on after      *)
(* others, and from it the properties of CaseRecord.  Then the page of a   *)
(* case, for any number of loads, replies and updates under way.           *)
(***************************************************************************)
EXTENDS CaseRecord, CasePage, TLAPS

Over == [Idle EXCEPT !.pc = "ended"]
Storing == {"upload", "receive"}
Looking(j) == job[j].op \in Storing /\ job[j].pc = "looked"
Deletes(j) == job[j].op = "delete"

(* Rows of a case that is gone are gone too.                                *)
RowsFit ==
    /\ RowsHaveTheirBytes
    /\ ~kase.exists => attached = {}
    /\ NoAppealDangles

(* As long as the case is there, nothing that a request has seen of its     *)
(* files has been taken away; a deletion knows at least the files the case  *)
(* had when it began.                                                       *)
JobFits(j) ==
    /\ job[j].op \in Storing /\ job[j].pc = "stored" /\ kase.exists => job[j].file \in disk
    /\ kase.exists => job[j].early \subseteq disk
    /\ Deletes(j) /\ job[j].pc = "looked" /\ kase.exists => job[j].early \subseteq attached
    /\ Deletes(j) /\ job[j].pc \in {"listed", "emptied"} /\ kase.exists =>
         job[j].early \subseteq job[j].keys
    /\ Deletes(j) /\ job[j].pc = "deleted" =>
         ~kase.exists /\ (job[j].removed => job[j].early \subseteq job[j].keys)
    /\ Deletes(j) /\ job[j].pc = "ended" /\ job[j].removed =>
         job[j].early \cap disk \subseteq job[j].lost
JobsFit == \A j \in Job : JobFits(j)

(* A file about to be stored is one upload's alone, and new.                *)
UploadsFit ==
    \A j \in Job : Looking(j) =>
        /\ job[j].file \notin disk
        /\ \A i \in Job : /\ job[j].file \notin job[i].early
                          /\ Looking(i) /\ job[i].file = job[j].file => i = j

(* Once a letter has left, its party counts as written to.                  *)
LettersFit ==
    /\ AwaitedWasAsked
    /\ \A j \in Job : job[j].op \in {"send", "external"} /\ job[j].pc \in {"mailed", "logged"} =>
          job[j].party \in asked

(* A receipt under way has read a published report; unless publications     *)
(* overlapped, it stays the published one.                                  *)
StampsFit ==
    /\ ReadAfterPublished
    /\ kase.published <= now /\ kase.accessed <= now
    /\ \A j \in Job : job[j].pc = "looked" /\ job[j].op \in {"publish", "receipt"} =>
          /\ job[j].at \in 0 .. now /\ job[j].seen <= now
          /\ job[j].op = "receipt" =>
               kase.published # Never /\ (overtaken \/ kase.published <= job[j].at)

IInv ==
    /\ TypeOK
    /\ RowsFit
    /\ JobsFit
    /\ UploadsFit
    /\ LettersFit
    /\ StampsFit
    /\ VerdictsAgree

-----------------------------------------------------------------------------
(* Beginning and going on *)

Pcs == {"ready", "looked", "stored", "mailed", "logged", "waiting", "moving", "listed",
        "emptied", "deleted", "refused", "blocked", "failed", "ended"}

LEMMA IdleFits ==
    /\ Idle \in JobType /\ Over \in JobType
    /\ Idle.pc = "ready" /\ Over.pc = "ended" /\ Idle.op = "publish" /\ Over.op = "publish"
    /\ Idle.early = {} /\ Over.early = {}
<1>1. SomeParty \in Party /\ SomeFile \in File /\ SomeAppeal \in Appeal
  BY CaseRecordAssumption DEF SomeParty, SomeFile, SomeAppeal, Party
<1>2. Never \in Times /\ {} \in SUBSET File
  BY DEF Times
<1> QED BY <1>1, <1>2 DEF Idle, Over, JobType, Ops, AppealStatuses

(* A request that begins is over at once, or is the record it begins with.  *)
LEMMA BeginsFits ==
    ASSUME TypeOK, NEW j \in Job, NEW r \in JobType, NEW pc \in Pcs, Begins(j, r, pc)
    PROVE  /\ job[j] = Idle /\ job' \in [Job -> JobType]
           /\ \A i \in Job : i # j => job'[i] = job[i]
           /\ pc = "ended" => job'[j] = Over
           /\ pc # "ended" =>
                /\ job'[j].pc = pc /\ job'[j].op = r.op /\ job'[j].party = r.party
                /\ job'[j].file = r.file /\ job'[j].appeal = r.appeal
                /\ job'[j].at = r.at /\ job'[j].seen = r.seen /\ job'[j].early = r.early
<1>1. job[j] = Idle /\ job \in [Job -> JobType]
  BY DEF Begins, TypeOK
<1>2. CASE pc = "ended"
  <2>1. job' = [job EXCEPT ![j] = Over]
    BY <1>2 DEF Begins, Over
  <2> QED BY <1>1, <1>2, <2>1, IdleFits
<1>3. CASE pc # "ended"
  <2> DEFINE q == [r EXCEPT !.pc = pc]
  <2>1. job' = [job EXCEPT ![j] = q]
    BY <1>3 DEF Begins
  <2>2. /\ q \in JobType /\ q.pc = pc /\ q.op = r.op /\ q.party = r.party /\ q.file = r.file
        /\ q.appeal = r.appeal /\ q.at = r.at /\ q.seen = r.seen /\ q.early = r.early
    BY DEF JobType, Pcs
  <2> HIDE DEF q
  <2> QED BY <1>1, <1>3, <2>1, <2>2
<1> QED BY <1>2, <1>3

LEMMA GoesFits ==
    ASSUME TypeOK, NEW j \in Job, NEW pc \in Pcs, Goes(j, pc)
    PROVE  /\ job' \in [Job -> JobType]
           /\ \A i \in Job : i # j => job'[i] = job[i]
           /\ \/ job'[j] = Over
              \/ /\ job'[j].pc = pc /\ job'[j].op = job[j].op
                 /\ pc \in {"ended", "failed"} => job[j].op = "delete"
                 /\ job'[j].party = job[j].party /\ job'[j].file = job[j].file
                 /\ job'[j].appeal = job[j].appeal
                 /\ job'[j].at = job[j].at /\ job'[j].seen = job[j].seen
                 /\ job'[j].early = job[j].early /\ job'[j].keys = job[j].keys
                 /\ job'[j].removed = job[j].removed
<1>1. job[j] \in JobType /\ job \in [Job -> JobType]
  BY DEF TypeOK
<1>2. CASE pc \in {"ended", "failed"} /\ job[j].op # "delete"
  <2>1. job' = [job EXCEPT ![j] = Over]
    BY <1>2 DEF Goes, Over
  <2> QED BY <1>1, <2>1, IdleFits
<1>3. CASE ~(pc \in {"ended", "failed"} /\ job[j].op # "delete")
  <2> DEFINE q == [job[j] EXCEPT !.pc = pc]
  <2>1. job' = [job EXCEPT ![j] = q]
    BY <1>3 DEF Goes
  <2>2. /\ q \in JobType /\ q.pc = pc /\ q.op = job[j].op /\ q.party = job[j].party
        /\ q.file = job[j].file /\ q.appeal = job[j].appeal /\ q.at = job[j].at
        /\ q.seen = job[j].seen /\ q.early = job[j].early /\ q.keys = job[j].keys
        /\ q.removed = job[j].removed
    BY <1>1 DEF JobType, Pcs
  <2> HIDE DEF q
  <2> QED BY <1>1, <1>3, <2>1, <2>2
<1> QED BY <1>2, <1>3

-----------------------------------------------------------------------------
(* What each request does *)

LEMMA AddedFits ==
    ASSUME NEW k \in KaseType
    PROVE  /\ Added(k) \in KaseType
           /\ Added(k).exists = k.exists /\ Added(k).status = k.status
           /\ Added(k).until = k.until /\ Added(k).delegated = k.delegated
           /\ Added(k).waits = k.waits /\ Added(k).published = k.published
           /\ Added(k).accessed = k.accessed /\ Added(k).appealStatus = k.appealStatus
BY DEF Added, KaseType

(* Letters leave files, stamps and appeals alone, and name a party only     *)
(* after a letter to it has left.                                           *)
LEMMA LettersDo ==
    ASSUME TypeOK, LettersFit, NEW j \in Job, Letters(j)
    PROVE  /\ job' \in [Job -> JobType] /\ \A i \in Job : i # j => job'[i] = job[i]
           /\ UNCHANGED <<appeals, attached, arrived, disk, overtaken, now>>
           /\ kase' \in KaseType /\ kase'.exists = kase.exists
           /\ kase'.published = kase.published /\ kase'.accessed = kase.accessed
           /\ kase'.appealStatus = kase.appealStatus
           /\ kase'.waits = kase.waits \/ kase'.waits \in asked
           /\ asked \subseteq asked' /\ asked' \subseteq Party
           /\ \/ job'[j] = Over
              \/ /\ job'[j].op \in {"send", "external"}
                 /\ job'[j].pc \in {"looked", "mailed", "logged", "waiting", "moving"}
                 /\ job'[j].early = {} \/ job'[j].early = job[j].early
                 /\ job'[j].pc \in {"mailed", "logged"} => job'[j].party \in asked'
<1> DEFINE Goal ==
           /\ job' \in [Job -> JobType] /\ \A i \in Job : i # j => job'[i] = job[i]
           /\ UNCHANGED <<appeals, attached, arrived, disk, overtaken, now>>
           /\ kase' \in KaseType /\ kase'.exists = kase.exists
           /\ kase'.published = kase.published /\ kase'.accessed = kase.accessed
           /\ kase'.appealStatus = kase.appealStatus
           /\ kase'.waits = kase.waits \/ kase'.waits \in asked
           /\ asked \subseteq asked' /\ asked' \subseteq Party
           /\ \/ job'[j] = Over
              \/ /\ job'[j].op \in {"send", "external"}
                 /\ job'[j].pc \in {"looked", "mailed", "logged", "waiting", "moving"}
                 /\ job'[j].early = {} \/ job'[j].early = job[j].early
                 /\ job'[j].pc \in {"mailed", "logged"} => job'[j].party \in asked'
<1>0. /\ kase \in KaseType /\ job[j] \in JobType /\ asked \subseteq Party
      /\ job[j].party \in Party
  BY DEF TypeOK, JobType
<1>1. ASSUME NEW op \in Ops, NEW p \in Party
      PROVE  LET r == [Idle EXCEPT !.op = op, !.party = p] IN
             r \in JobType /\ r.op = op /\ r.party = p /\ r.early = {}
  BY IdleFits DEF Idle, JobType
<1>2. ASSUME SendLooks(j) PROVE Goal
  <2>1. PICK p \in Party : Begins(j, [Idle EXCEPT !.op = "send", !.party = p],
                                IF kase.exists THEN "looked" ELSE "ended")
    BY <1>2 DEF SendLooks
  <2>2. (IF kase.exists THEN "looked" ELSE "ended") \in Pcs \ {"mailed", "logged"}
    BY DEF Pcs
  <2>3. UNCHANGED <<kase, appeals, attached, arrived, disk, asked, overtaken, now>>
    BY <1>2 DEF SendLooks, Record, Aside
  <2> DEFINE r == [Idle EXCEPT !.op = "send", !.party = p]
             pc == IF kase.exists THEN "looked" ELSE "ended"
  <2>4. r \in JobType /\ r.op = "send" /\ r.party = p /\ r.early = {}
    BY <1>1 DEF Ops
  <2>5. Begins(j, r, pc) /\ pc \in Pcs /\ pc \in {"looked", "ended"}
    BY <2>1, <2>2
  <2> HIDE DEF r, pc
  <2>6. /\ job' \in [Job -> JobType] /\ \A i \in Job : i # j => job'[i] = job[i]
        /\ \/ job'[j] = Over
           \/ /\ job'[j].op = "send" /\ job'[j].pc = "looked"
              /\ job'[j].early = {} /\ job'[j].party = p
    BY <2>4, <2>5, BeginsFits
  <2> QED BY <1>0, <2>1, <2>3, <2>6
<1>3. ASSUME ExternalLooks(j) PROVE Goal
  <2>1. PICK p \in Party : /\ Begins(j, [Idle EXCEPT !.op = "external", !.party = p],
                                     IF kase.exists THEN "logged" ELSE "ended")
                           /\ asked' = asked \cup {p}
    BY <1>3 DEF ExternalLooks
  <2>2. (IF kase.exists THEN "logged" ELSE "ended") \in Pcs
    BY DEF Pcs
  <2>3. UNCHANGED <<kase, appeals, attached, arrived, disk, overtaken, now>>
    BY <1>3 DEF ExternalLooks, Record
  <2> DEFINE r == [Idle EXCEPT !.op = "external", !.party = p]
             pc == IF kase.exists THEN "logged" ELSE "ended"
  <2>4. r \in JobType /\ r.op = "external" /\ r.party = p /\ r.early = {}
    BY <1>1 DEF Ops
  <2>5. Begins(j, r, pc) /\ pc \in Pcs /\ pc \in {"logged", "ended"}
    BY <2>1, <2>2
  <2> HIDE DEF r, pc
  <2>6. /\ job' \in [Job -> JobType] /\ \A i \in Job : i # j => job'[i] = job[i]
        /\ \/ job'[j] = Over
           \/ /\ job'[j].op = "external" /\ job'[j].pc = "logged"
              /\ job'[j].early = {} /\ job'[j].party = p
    BY <2>4, <2>5, BeginsFits
  <2> QED BY <1>0, <2>1, <2>3, <2>6
<1>4. ASSUME Mail(j) PROVE Goal
  <2>1. /\ job[j].op = "send"
        /\ UNCHANGED <<kase, appeals, attached, arrived, disk, overtaken, now>>
        /\ \/ asked' = asked \cup {job[j].party} /\ Goes(j, "mailed")
           \/ asked' = asked /\ Goes(j, "ended")
    BY <1>4 DEF Mail, At, AfterFailure, Record
  <2>2. "mailed" \in Pcs /\ "ended" \in Pcs
    BY DEF Pcs
  <2>3. CASE asked' = asked \cup {job[j].party} /\ Goes(j, "mailed")
    BY <1>0, <2>1, <2>2, <2>3, GoesFits
  <2>4. CASE asked' = asked /\ Goes(j, "ended")
    BY <1>0, <2>1, <2>2, <2>4, GoesFits
  <2> QED BY <2>1, <2>3, <2>4
<1>5. ASSUME LogMail(j) PROVE Goal
  <2>1. /\ job[j].op = "send" /\ job[j].pc = "mailed"
        /\ UNCHANGED <<appeals, attached, arrived, disk, asked, overtaken, now>>
        /\ \/ kase' = Added(kase) /\ Goes(j, "logged")
           \/ kase' = kase /\ Goes(j, "ended")
    BY <1>5 DEF LogMail, At, Aside
  <2>2. "logged" \in Pcs /\ "ended" \in Pcs
    BY DEF Pcs
  <2>3. job[j].party \in asked
    BY <2>1 DEF LettersFit
  <2>4. CASE kase' = Added(kase) /\ Goes(j, "logged")
    BY <1>0, <2>1, <2>2, <2>3, <2>4, GoesFits, AddedFits
  <2>5. CASE kase' = kase /\ Goes(j, "ended")
    BY <1>0, <2>1, <2>2, <2>5, GoesFits
  <2> QED BY <2>1, <2>4, <2>5
<1>6. ASSUME SetPending(j) PROVE Goal
  <2>1. /\ job[j].op \in {"send", "external"} /\ job[j].pc = "logged"
        /\ UNCHANGED <<appeals, attached, arrived, disk, asked, overtaken, now>>
        /\ kase' = [kase EXCEPT !.waits = job[j].party] \/ kase' = kase
        /\ Goes(j, "waiting") \/ Goes(j, "ended")
    BY <1>6 DEF SetPending, At, Aside
  <2>2. "waiting" \in Pcs /\ "ended" \in Pcs
    BY DEF Pcs
  <2>3. job[j].party \in asked
    BY <2>1 DEF LettersFit
  <2>4. /\ kase' \in KaseType /\ kase'.exists = kase.exists
        /\ kase'.published = kase.published /\ kase'.accessed = kase.accessed
        /\ kase'.appealStatus = kase.appealStatus
        /\ kase'.waits = kase.waits \/ kase'.waits \in asked
    BY <1>0, <2>1, <2>3 DEF KaseType
  <2> QED BY <1>0, <2>1, <2>2, <2>4, GoesFits
<1>7. ASSUME AwaitRead(j) PROVE Goal
  <2>1. /\ job[j].op = "send"
        /\ UNCHANGED <<kase, appeals, attached, arrived, disk, asked, overtaken, now>>
        /\ Goes(j, "moving") \/ Goes(j, "ended")
    BY <1>7 DEF AwaitRead, At, Record, Aside
  <2>2. "moving" \in Pcs /\ "ended" \in Pcs
    BY DEF Pcs
  <2> QED BY <1>0, <2>1, <2>2, GoesFits
<1>8. ASSUME AwaitMove(j) PROVE Goal
  <2>1. /\ job[j].op = "send"
        /\ UNCHANGED <<appeals, attached, arrived, disk, asked, overtaken, now>>
        /\ kase' = Added([kase EXCEPT !.status = "pending"]) \/ kase' = kase
        /\ Goes(j, "ended")
    BY <1>8 DEF AwaitMove, At, Aside
  <2>2. "ended" \in Pcs
    BY DEF Pcs
  <2>3. [kase EXCEPT !.status = "pending"] \in KaseType
    BY <1>0 DEF KaseType
  <2>4. /\ kase' \in KaseType /\ kase'.exists = kase.exists
        /\ kase'.published = kase.published /\ kase'.accessed = kase.accessed
        /\ kase'.appealStatus = kase.appealStatus /\ kase'.waits = kase.waits
    <3>1. CASE kase' = Added([kase EXCEPT !.status = "pending"])
      BY <1>0, <2>3, <3>1, AddedFits DEF KaseType
    <3> QED BY <1>0, <2>1, <3>1
  <2> QED BY <1>0, <2>1, <2>2, <2>4, GoesFits
<1> HIDE DEF Goal
<1>9. Goal
  BY <1>2, <1>3, <1>4, <1>5, <1>6, <1>7, <1>8 DEF Letters
<1> QED BY <1>9 DEF Goal

(* Nobody else's request changes with j's.                                  *)
Alone(j) == job' \in [Job -> JobType] /\ \A i \in Job : i # j => job'[i] = job[i]

LEMMA LooksDo ==
    ASSUME TypeOK, NEW j \in Job, UploadLooks(j)
    PROVE  /\ Alone(j) /\ UNCHANGED <<Record, Aside>>
           /\ \/ job'[j] = Over
              \/ /\ job'[j].op \in Storing /\ job'[j].pc = "looked" /\ job'[j].early = {}
                 /\ kase.exists /\ job'[j].file \notin disk
                 /\ \A i \in Job : Looking(i) => job[i].file # job'[j].file
<1>1. PICK op \in Storing, f \in File \ disk :
         /\ \A i \in Job : At(i, {"upload", "receive"}, "looked") => job[i].file # f
         /\ Begins(j, [Idle EXCEPT !.op = op, !.file = f],
                   IF kase.exists /\ (op = "receive" => kase.delegated)
                   THEN "looked" ELSE "ended")
  BY DEF UploadLooks, Storing
<1> DEFINE r == [Idle EXCEPT !.op = op, !.file = f]
           pc == IF kase.exists /\ (op = "receive" => kase.delegated)
                 THEN "looked" ELSE "ended"
<1>2. r \in JobType /\ r.op = op /\ r.file = f /\ r.early = {}
  BY IdleFits DEF Idle, JobType, Ops, Storing
<1>3. Begins(j, r, pc) /\ pc \in Pcs /\ pc \in {"looked", "ended"}
      /\ (pc = "looked" => kase.exists)
  BY <1>1 DEF Pcs
<1> HIDE DEF r, pc
<1>4. /\ Alone(j)
      /\ \/ job'[j] = Over
         \/ /\ job'[j].op = op /\ job'[j].pc = "looked" /\ kase.exists
            /\ job'[j].early = {} /\ job'[j].file = f
  BY <1>2, <1>3, BeginsFits DEF Alone
<1>5. UNCHANGED <<Record, Aside>>
  BY DEF UploadLooks
<1> QED BY <1>1, <1>4, <1>5 DEF Looking, At, Storing

LEMMA StoresDo ==
    ASSUME TypeOK, NEW j \in Job, UploadStores(j)
    PROVE  /\ Alone(j) /\ UNCHANGED <<kase, appeals, attached, arrived, Aside>>
           /\ Looking(j) /\ job[j].file \in File /\ disk' = disk \cup {job[j].file}
           /\ \/ job'[j] = Over
              \/ /\ job'[j].op \in Storing /\ job'[j].pc = "stored"
                 /\ job'[j].file = job[j].file /\ job'[j].early = job[j].early
<1>1. Looking(j) /\ Goes(j, "stored") /\ "stored" \in Pcs
  BY DEF UploadStores, At, Looking, Storing, Pcs
<1>2. job[j].file \in File
  BY DEF TypeOK, JobType
<1> QED BY <1>1, <1>2, GoesFits DEF UploadStores, Alone, Looking, Storing

LEMMA FilesDo ==
    ASSUME TypeOK, NEW j \in Job, UploadFiles(j)
    PROVE  /\ Alone(j) /\ job'[j] = Over /\ UNCHANGED <<appeals, disk, Aside>>
           /\ job[j].op \in Storing /\ job[j].pc = "stored"
           /\ \/ UNCHANGED <<kase, attached, arrived>>
              \/ /\ kase.exists /\ kase' \in KaseType /\ kase'.exists = kase.exists
                 /\ kase'.published = kase.published /\ kase'.accessed = kase.accessed
                 /\ kase'.appealStatus = kase.appealStatus
                 /\ kase'.waits = kase.waits \/ kase'.waits = "nobody"
                 /\ attached' = attached \cup {job[j].file}
                 /\ arrived' \subseteq attached' /\ attached' \subseteq File
<1>1. /\ job[j].op \in Storing /\ job[j].pc = "stored" /\ Goes(j, "ended")
      /\ "ended" \in Pcs
  BY DEF UploadFiles, At, Storing, Pcs
<1>2. Alone(j) /\ job'[j] = Over
  BY <1>1, GoesFits DEF Alone, Storing
<1>3. kase \in KaseType /\ job[j].file \in File /\ arrived \subseteq attached
      /\ attached \subseteq File
  BY DEF TypeOK, JobType
<1>4. [kase EXCEPT !.waits = "nobody"] \in KaseType
  BY <1>3 DEF KaseType
<1>5. ASSUME kase.exists
      PROVE  /\ kase' \in KaseType /\ kase'.exists = kase.exists
             /\ kase'.published = kase.published /\ kase'.accessed = kase.accessed
             /\ kase'.appealStatus = kase.appealStatus
             /\ kase'.waits = kase.waits \/ kase'.waits = "nobody"
  <2>1. kase' = Added([kase EXCEPT !.waits = "nobody"]) \/ kase' = Added(kase)
    BY <1>5 DEF UploadFiles
  <2>2. CASE kase' = Added(kase)
    BY <1>3, <2>2, AddedFits
  <2>3. CASE kase' = Added([kase EXCEPT !.waits = "nobody"])
    BY <1>3, <1>4, <2>3, AddedFits DEF KaseType
  <2> QED BY <2>1, <2>2, <2>3
<1>6. ASSUME kase.exists
      PROVE  /\ attached' = attached \cup {job[j].file}
             /\ arrived' \subseteq attached' /\ attached' \subseteq File
  BY <1>3, <1>6 DEF UploadFiles
<1>7. kase.exists \/ UNCHANGED <<kase, attached, arrived>>
  BY DEF UploadFiles
<1> QED BY <1>1, <1>2, <1>5, <1>6, <1>7 DEF UploadFiles

(* A stamp is read with the moment it was read at, and written later.       *)
LEMMA ReadsDo ==
    ASSUME TypeOK, StampsFit, NEW j \in Job, StampReads(j)
    PROVE  /\ Alone(j) /\ UNCHANGED <<Record, Aside>>
           /\ \/ job'[j] = Over
              \/ /\ job'[j].op \in {"publish", "receipt"} /\ job'[j].pc = "looked"
                 /\ job'[j].early = {} /\ job'[j].at = now /\ job'[j].seen <= now
                 /\ job'[j].seen = StampOf(job'[j].op) /\ MayStamp(job'[j].op)
<1>1. PICK op \in {"publish", "receipt"} :
         Begins(j, [Idle EXCEPT !.op = op, !.at = now, !.seen = StampOf(op)],
                IF MayStamp(op) THEN "looked" ELSE "ended")
  BY DEF StampReads
<1> DEFINE r == [Idle EXCEPT !.op = op, !.at = now, !.seen = StampOf(op)]
           pc == IF MayStamp(op) THEN "looked" ELSE "ended"
<1>2. now \in Times /\ StampOf(op) \in Times
  BY DEF TypeOK, Times, StampOf, KaseType
<1>3. /\ r \in JobType /\ r.op = op /\ r.at = now /\ r.seen = StampOf(op) /\ r.early = {}
  BY <1>2, IdleFits DEF Idle, JobType, Ops
<1>4. Begins(j, r, pc) /\ pc \in Pcs /\ pc \in {"looked", "ended"}
      /\ (pc = "looked" => MayStamp(op))
  BY <1>1 DEF Pcs
<1>5. StampOf(op) <= now
  <2>1. /\ kase.published \in Times /\ kase.accessed \in Times /\ now \in 0 .. MaxTime
        /\ MaxTime \in Nat
    BY CaseRecordAssumption DEF TypeOK, KaseType
  <2>2. kase.published <= now /\ kase.accessed <= now
    BY DEF StampsFit
  <2> QED BY <2>2 DEF StampOf
<1> HIDE DEF r, pc
<1>6. UNCHANGED <<Record, Aside>>
  BY DEF StampReads
<1>7. /\ Alone(j)
      /\ \/ job'[j] = Over
         \/ /\ job'[j].op = op /\ job'[j].pc = "looked" /\ MayStamp(op)
            /\ job'[j].early = {} /\ job'[j].at = now /\ job'[j].seen = StampOf(op)
  BY <1>3, <1>4, BeginsFits DEF Alone
<1> QED BY <1>5, <1>6, <1>7

LEMMA WritesDo ==
    ASSUME TypeOK, StampsFit, NEW j \in Job, StampWrites(j)
    PROVE  /\ Alone(j) /\ job'[j] = Over
           /\ UNCHANGED <<appeals, attached, arrived, disk, asked, now>>
           /\ kase' \in KaseType /\ kase'.exists = kase.exists
           /\ kase'.waits = kase.waits /\ kase'.appealStatus = kase.appealStatus
           /\ overtaken' \in BOOLEAN /\ (overtaken => overtaken')
           /\ \E t \in job[j].at .. now :
                \/ kase'.published = kase.published /\ kase'.accessed = kase.accessed
                \/ /\ job[j].op = "publish" /\ kase'.accessed = kase.accessed
                   /\ kase'.published = Stamp(j, t)
                   /\ (~overtaken' => kase.published = job[j].seen)
                \/ /\ job[j].op = "receipt" /\ kase'.published = kase.published
                   /\ kase'.accessed = Stamp(j, t)
                   /\ (~overtaken' => kase.accessed = job[j].seen)
           /\ job[j].op \in {"publish", "receipt"} /\ job[j].pc = "looked"
<1>1. /\ job[j].op \in {"publish", "receipt"} /\ job[j].pc = "looked" /\ Goes(j, "ended")
      /\ "ended" \in Pcs
  BY DEF StampWrites, At, Pcs
<1>2. Alone(j) /\ job'[j] = Over
  BY <1>1, GoesFits DEF Alone
<1>3. /\ UNCHANGED <<appeals, attached, arrived, disk, asked, now>>
      /\ overtaken' = (overtaken \/ (kase.exists /\ StampOf(job[j].op) # job[j].seen))
  BY DEF StampWrites
<1>4. PICK t \in job[j].at .. now :
         kase' = IF ~kase.exists THEN kase
                 ELSE IF job[j].op = "publish"
                      THEN Added([kase EXCEPT !.published = Stamp(j, t)])
                      ELSE Added([kase EXCEPT !.accessed = Stamp(j, t)])
  BY DEF StampWrites
<1>5. kase \in KaseType /\ Stamp(j, t) \in Times
  <2>1. job[j].seen \in Times /\ job[j].at \in 0 .. now /\ now \in 0 .. MaxTime
    BY <1>1 DEF TypeOK, JobType, StampsFit
  <2>2. t \in Times
    BY <2>1, CaseRecordAssumption DEF Times
  <2> QED BY <2>1, <2>2 DEF TypeOK, Stamp
<1>6. /\ [kase EXCEPT !.published = Stamp(j, t)] \in KaseType
      /\ [kase EXCEPT !.accessed = Stamp(j, t)] \in KaseType
  BY <1>5 DEF KaseType
<1>7. CASE ~kase.exists
  BY <1>1, <1>2, <1>3, <1>4, <1>5, <1>7 DEF TypeOK
<1>8. CASE kase.exists /\ job[j].op = "publish"
  <2>1. kase' = Added([kase EXCEPT !.published = Stamp(j, t)])
    BY <1>4, <1>8
  <2>2. /\ kase' \in KaseType /\ kase'.exists = kase.exists /\ kase'.waits = kase.waits
        /\ kase'.appealStatus = kase.appealStatus /\ kase'.accessed = kase.accessed
        /\ kase'.published = Stamp(j, t)
    BY <1>5, <1>6, <2>1, AddedFits DEF KaseType
  <2> QED BY <1>1, <1>2, <1>3, <1>4, <1>8, <2>2 DEF StampOf, TypeOK
<1>9. CASE kase.exists /\ job[j].op = "receipt"
  <2>1. kase' = Added([kase EXCEPT !.accessed = Stamp(j, t)])
    BY <1>4, <1>9
  <2>2. /\ kase' \in KaseType /\ kase'.exists = kase.exists /\ kase'.waits = kase.waits
        /\ kase'.appealStatus = kase.appealStatus /\ kase'.published = kase.published
        /\ kase'.accessed = Stamp(j, t)
    BY <1>5, <1>6, <2>1, AddedFits DEF KaseType
  <2> QED BY <1>1, <1>2, <1>3, <1>4, <1>9, <2>2 DEF StampOf, TypeOK
<1> QED BY <1>1, <1>7, <1>8, <1>9

(* An appeal opens only while its original is there; a verdict is written   *)
(* to both.                                                                 *)
LEMMA AppealsDo ==
    ASSUME TypeOK, NEW j \in Job,
           AppealReads(j) \/ AppealOpens(j) \/ DecideReads(j) \/ DecideWrites(j)
    PROVE  /\ Alone(j) /\ UNCHANGED <<attached, arrived, disk, Aside>>
           /\ \/ job'[j] = Over
              \/ /\ job'[j].op \in {"appeal", "decide"} /\ job'[j].pc = "looked"
                 /\ job'[j].early = {}
           /\ kase' \in KaseType /\ kase'.exists = kase.exists /\ kase'.waits = kase.waits
           /\ kase'.published = kase.published /\ kase'.accessed = kase.accessed
           /\ \/ appeals' = appeals /\ kase'.appealStatus = kase.appealStatus
              \/ \E a \in Appeal, v \in AppealStatuses :
                   /\ kase.exists \/ Live(a)
                   /\ appeals' = [appeals EXCEPT ![a] = v]
                   /\ \/ kase'.appealStatus = v
                      \/ kase'.appealStatus = "under_review" /\ v = "requested"
<1> DEFINE Goal ==
           /\ Alone(j) /\ UNCHANGED <<attached, arrived, disk, Aside>>
           /\ \/ job'[j] = Over
              \/ /\ job'[j].op \in {"appeal", "decide"} /\ job'[j].pc = "looked"
                 /\ job'[j].early = {}
           /\ kase' \in KaseType /\ kase'.exists = kase.exists /\ kase'.waits = kase.waits
           /\ kase'.published = kase.published /\ kase'.accessed = kase.accessed
           /\ \/ appeals' = appeals /\ kase'.appealStatus = kase.appealStatus
              \/ \E a \in Appeal, v \in AppealStatuses :
                   /\ kase.exists \/ Live(a)
                   /\ appeals' = [appeals EXCEPT ![a] = v]
                   /\ \/ kase'.appealStatus = v
                      \/ kase'.appealStatus = "under_review" /\ v = "requested"
<1>0. kase \in KaseType /\ job[j].appeal \in Appeal /\ job[j].verdict \in AppealStatuses
  BY DEF TypeOK, JobType
<1>1. ASSUME NEW op \in {"appeal", "decide"}, NEW r \in JobType, r.op = op, r.early = {},
             NEW pc \in {"looked", "ended"}, Begins(j, r, pc), UNCHANGED <<Record, Aside>>
      PROVE  Goal
  <2>1. pc \in Pcs
    BY DEF Pcs
  <2> QED BY <1>0, <1>1, <2>1, BeginsFits DEF Alone, Record, Aside
<1>2. ASSUME AppealReads(j) PROVE Goal
  <2>1. PICK a \in Appeal :
          Begins(j, [Idle EXCEPT !.op = "appeal", !.appeal = a],
                 IF CanBeAppealed THEN "looked" ELSE "ended")
    BY <1>2 DEF AppealReads
  <2> DEFINE r == [Idle EXCEPT !.op = "appeal", !.appeal = a]
             pc == IF CanBeAppealed THEN "looked" ELSE "ended"
  <2>2. r \in JobType /\ r.op = "appeal" /\ r.early = {}
    BY IdleFits DEF Idle, JobType, Ops
  <2>3. pc \in {"looked", "ended"} /\ Begins(j, r, pc) /\ UNCHANGED <<Record, Aside>>
    BY <1>2, <2>1 DEF AppealReads
  <2> HIDE DEF Goal, r, pc
  <2> QED BY <1>1, <2>2, <2>3
<1>3. ASSUME DecideReads(j) PROVE Goal
  <2>1. PICK a \in Appeal, v \in AppealStatuses :
          Begins(j, [Idle EXCEPT !.op = "decide", !.appeal = a, !.verdict = v],
                 IF Live(a) THEN "looked" ELSE "ended")
    BY <1>3 DEF DecideReads
  <2> DEFINE r == [Idle EXCEPT !.op = "decide", !.appeal = a, !.verdict = v]
             pc == IF Live(a) THEN "looked" ELSE "ended"
  <2>2. r \in JobType /\ r.op = "decide" /\ r.early = {}
    BY IdleFits DEF Idle, JobType, Ops
  <2>3. pc \in {"looked", "ended"} /\ Begins(j, r, pc) /\ UNCHANGED <<Record, Aside>>
    BY <1>3, <2>1 DEF DecideReads
  <2> HIDE DEF Goal, r, pc
  <2> QED BY <1>1, <2>2, <2>3
<1>4. ASSUME AppealOpens(j) PROVE Goal
  <2>1. /\ job[j].op = "appeal" /\ Goes(j, "ended") /\ "ended" \in Pcs
        /\ UNCHANGED <<attached, arrived, disk, Aside>>
    BY <1>4 DEF AppealOpens, At, Pcs
  <2>2. Alone(j) /\ job'[j] = Over
    BY <2>1, GoesFits DEF Alone
  <2>3. CASE kase.exists
    <3>1. /\ appeals' = [appeals EXCEPT ![job[j].appeal] = "requested"]
          /\ kase' = Added([kase EXCEPT !.appealStatus = "under_review"])
      BY <1>4, <2>3 DEF AppealOpens, OriginalThere
    <3>2. [kase EXCEPT !.appealStatus = "under_review"] \in KaseType
      BY <1>0 DEF KaseType, AppealStatuses
    <3>3. /\ kase' \in KaseType /\ kase'.exists = kase.exists /\ kase'.waits = kase.waits
          /\ kase'.published = kase.published /\ kase'.accessed = kase.accessed
          /\ kase'.appealStatus = "under_review"
      BY <1>0, <3>1, <3>2, AddedFits DEF KaseType
    <3>4. "requested" \in AppealStatuses
      BY DEF AppealStatuses
    <3> QED BY <1>0, <2>1, <2>2, <2>3, <3>1, <3>3, <3>4
  <2>4. CASE ~kase.exists
    <3>1. UNCHANGED <<appeals, kase>>
      BY <1>4, <2>4 DEF AppealOpens, OriginalThere
    <3> QED BY <1>0, <2>1, <2>2, <3>1
  <2> QED BY <2>3, <2>4
<1>5. ASSUME DecideWrites(j) PROVE Goal
  <2>1. /\ job[j].op = "decide" /\ Goes(j, "ended") /\ "ended" \in Pcs
        /\ UNCHANGED <<attached, arrived, disk, Aside>>
    BY <1>5 DEF DecideWrites, At, Pcs
  <2>2. Alone(j) /\ job'[j] = Over
    BY <2>1, GoesFits DEF Alone
  <2>3. CASE Live(job[j].appeal)
    <3>1. /\ appeals' = [appeals EXCEPT ![job[j].appeal] = job[j].verdict]
          /\ kase' = [kase EXCEPT !.appealStatus = job[j].verdict]
      BY <1>5, <2>3 DEF DecideWrites, OnOriginal
    <3>2. /\ kase' \in KaseType /\ kase'.exists = kase.exists /\ kase'.waits = kase.waits
          /\ kase'.published = kase.published /\ kase'.accessed = kase.accessed
          /\ kase'.appealStatus = job[j].verdict
      BY <1>0, <3>1 DEF KaseType
    <3> QED BY <1>0, <2>1, <2>2, <2>3, <3>1, <3>2
  <2>4. CASE ~Live(job[j].appeal)
    <3>1. UNCHANGED <<appeals, kase>>
      BY <1>5, <2>4 DEF DecideWrites
    <3> QED BY <1>0, <2>1, <2>2, <3>1
  <2> QED BY <2>3, <2>4
<1> QED BY <1>2, <1>3, <1>4, <1>5

(* A deletion looks, lists, empties and deletes; only then the files go.    *)
LEMMA PurgeLooksDo ==
    ASSUME TypeOK, NEW j \in Job, PurgeLooks(j)
    PROVE  /\ Alone(j) /\ UNCHANGED <<Record, Aside>>
           /\ \/ job'[j] = Over
              \/ job'[j].op = "delete" /\ job'[j].pc = "looked" /\ job'[j].early = attached
<1> DEFINE r == [Idle EXCEPT !.op = "delete", !.early = attached, !.rows = kase.rows]
           pc == IF kase.exists /\ NotAppealed THEN "looked" ELSE "ended"
<1>1. r \in JobType /\ r.op = "delete" /\ r.early = attached
  BY IdleFits DEF Idle, JobType, Ops, TypeOK, KaseType
<1>2. Begins(j, r, pc) /\ pc \in Pcs /\ pc \in {"looked", "ended"}
  BY DEF PurgeLooks, Pcs
<1> HIDE DEF r, pc
<1>3. UNCHANGED <<Record, Aside>>
  BY DEF PurgeLooks
<1> QED BY <1>1, <1>2, <1>3, BeginsFits DEF Alone

LEMMA PurgeListsDo ==
    ASSUME TypeOK, NEW j \in Job, PurgeLists(j)
    PROVE  /\ Alone(j) /\ UNCHANGED <<Record, Aside>>
           /\ job[j].op = "delete" /\ job[j].pc = "looked"
           /\ job'[j].op = "delete" /\ job'[j].pc = "listed"
           /\ job'[j].early = job[j].early /\ job'[j].keys = attached
<1>1. /\ job[j].op = "delete" /\ job[j].pc = "looked" /\ UNCHANGED <<Record, Aside>>
      /\ job' = [job EXCEPT ![j].pc = "listed", ![j].keys = attached]
  BY DEF PurgeLists, At, KeysIn
<1>2. job \in [Job -> JobType] /\ job[j] \in JobType /\ attached \subseteq File
  BY DEF TypeOK
<1>3. job'[j] = [job[j] EXCEPT !.pc = "listed", !.keys = attached]
      /\ \A i \in Job : i # j => job'[i] = job[i]
      /\ job' = [job EXCEPT ![j] = job'[j]]
  BY <1>1, <1>2 DEF JobType
<1>4. /\ job'[j] \in JobType /\ job'[j].op = "delete" /\ job'[j].pc = "listed"
      /\ job'[j].early = job[j].early /\ job'[j].keys = attached
  BY <1>1, <1>2, <1>3 DEF JobType
<1> QED BY <1>1, <1>2, <1>3, <1>4 DEF Alone

LEMMA PurgeEmptiesDo ==
    ASSUME TypeOK, NEW j \in Job, PurgeEmpties(j)
    PROVE  /\ Alone(j) /\ UNCHANGED <<Record, Aside>>
           /\ job[j].op = "delete" /\ job[j].pc = "listed"
           /\ job'[j].op = "delete" /\ job'[j].pc \in {"emptied", "refused"}
           /\ job'[j].early = job[j].early /\ job'[j].keys = job[j].keys
<1> DEFINE pc == IF OrderHolds THEN "emptied" ELSE "refused"
<1>1. /\ job[j].op = "delete" /\ job[j].pc = "listed" /\ UNCHANGED <<Record, Aside>>
      /\ job' = [job EXCEPT ![j].pc = pc, ![j].mark = kase.rows]
      /\ pc \in {"emptied", "refused"}
  BY DEF PurgeEmpties, At
<1> HIDE DEF pc
<1>2. job \in [Job -> JobType] /\ job[j] \in JobType /\ kase.rows \in Nat
  BY DEF TypeOK, KaseType
<1>3. job'[j] = [job[j] EXCEPT !.pc = pc, !.mark = kase.rows]
      /\ \A i \in Job : i # j => job'[i] = job[i]
      /\ job' = [job EXCEPT ![j] = job'[j]]
  BY <1>1, <1>2 DEF JobType
<1>4. /\ job'[j] \in JobType /\ job'[j].op = "delete" /\ job'[j].pc = pc
      /\ job'[j].early = job[j].early /\ job'[j].keys = job[j].keys
  BY <1>1, <1>2, <1>3 DEF JobType
<1> QED BY <1>1, <1>2, <1>3, <1>4 DEF Alone

LEMMA PurgeDeletesDo ==
    ASSUME TypeOK, NEW j \in Job, PurgeDeletes(j)
    PROVE  /\ Alone(j) /\ UNCHANGED <<appeals, disk, Aside>>
           /\ job[j].op = "delete" /\ job[j].pc = "emptied"
           /\ job'[j].op = "delete" /\ job'[j].early = job[j].early
           /\ job'[j].keys = job[j].keys
           /\ \/ job'[j].pc = "blocked" /\ UNCHANGED <<kase, attached, arrived>>
              \/ /\ job'[j].pc = "deleted" /\ job'[j].removed = kase.exists
                 /\ kase.exists => NotAppealed
                 /\ kase' \in KaseType /\ ~kase'.exists /\ attached' = {} /\ arrived' = {}
                 /\ kase'.waits = kase.waits /\ kase'.appealStatus = kase.appealStatus
                 /\ kase'.published = kase.published /\ kase'.accessed = kase.accessed
<1>1. job[j].op = "delete" /\ job[j].pc = "emptied" /\ UNCHANGED <<appeals, disk, Aside>>
  BY DEF PurgeDeletes, At
<1>2. /\ job \in [Job -> JobType] /\ job[j] \in JobType /\ kase \in KaseType
      /\ kase.exists \in BOOLEAN
  BY DEF TypeOK, KaseType
<1>3. CASE kase.exists /\ ~Unreferenced(j)
  <2>1. Goes(j, "blocked") /\ UNCHANGED <<kase, attached, arrived>> /\ "blocked" \in Pcs
    BY <1>3 DEF PurgeDeletes, Pcs
  <2>2. Over.op = "publish" /\ "blocked" \notin {"ended", "failed"}
    BY IdleFits
  <2>3. /\ job' = [job EXCEPT ![j] = [job[j] EXCEPT !.pc = "blocked"]]
    BY <2>1 DEF Goes
  <2>4. job'[j] = [job[j] EXCEPT !.pc = "blocked"]
    BY <1>2, <2>3
  <2>5. job'[j].op = "delete" /\ job'[j].pc = "blocked" /\ job'[j].early = job[j].early
        /\ job'[j].keys = job[j].keys
    BY <1>1, <1>2, <2>4 DEF JobType
  <2> QED BY <1>1, <2>1, <2>5, GoesFits DEF Alone
<1>4. CASE ~(kase.exists /\ ~Unreferenced(j))
  <2>1. /\ kase' = [kase EXCEPT !.exists = FALSE, !.delegated = FALSE]
        /\ attached' = {} /\ arrived' = {}
        /\ job' = [job EXCEPT ![j].pc = "deleted", ![j].removed = kase.exists]
    BY <1>4 DEF PurgeDeletes
  <2>2. job'[j] = [job[j] EXCEPT !.pc = "deleted", !.removed = kase.exists]
        /\ \A i \in Job : i # j => job'[i] = job[i]
        /\ job' = [job EXCEPT ![j] = job'[j]]
    BY <1>2, <2>1 DEF JobType
  <2>3. /\ job'[j] \in JobType /\ job'[j].op = "delete" /\ job'[j].pc = "deleted"
        /\ job'[j].early = job[j].early /\ job'[j].keys = job[j].keys
        /\ job'[j].removed = kase.exists
    BY <1>1, <1>2, <2>2 DEF JobType
  <2>4. /\ kase' \in KaseType /\ ~kase'.exists
        /\ kase'.waits = kase.waits /\ kase'.appealStatus = kase.appealStatus
        /\ kase'.published = kase.published /\ kase'.accessed = kase.accessed
    BY <1>2, <2>1 DEF KaseType
  <2>5. kase.exists => NotAppealed
    BY <1>4 DEF Unreferenced
  <2> QED BY <1>1, <1>2, <2>1, <2>2, <2>3, <2>4, <2>5 DEF Alone
<1> QED BY <1>3, <1>4

LEMMA PurgeFilesDo ==
    ASSUME TypeOK, NEW j \in Job, PurgeFiles(j)
    PROVE  /\ Alone(j) /\ UNCHANGED <<kase, appeals, attached, arrived, Aside>>
           /\ job[j].op = "delete" /\ job[j].pc = "deleted"
           /\ job'[j].op = "delete" /\ job'[j].pc = "ended"
           /\ job'[j].early = job[j].early /\ job'[j].removed = job[j].removed
           /\ disk' \subseteq disk /\ job[j].keys \cap disk' \subseteq job'[j].lost
<1>1. PICK stuck \in SUBSET (job[j].keys \cap disk) :
         /\ disk' = disk \ (job[j].keys \ stuck)
         /\ job' = [job EXCEPT ![j].pc = "ended", ![j].lost = stuck]
  BY DEF PurgeFiles, Counted
<1>2. /\ job[j].op = "delete" /\ job[j].pc = "deleted"
      /\ UNCHANGED <<kase, appeals, attached, arrived, Aside>>
  BY DEF PurgeFiles, At, FilesAfter
<1>3. job \in [Job -> JobType] /\ job[j] \in JobType /\ disk \subseteq File
  BY DEF TypeOK
<1>4. job'[j] = [job[j] EXCEPT !.pc = "ended", !.lost = stuck]
      /\ \A i \in Job : i # j => job'[i] = job[i]
      /\ job' = [job EXCEPT ![j] = job'[j]]
  BY <1>1, <1>3 DEF JobType
<1>5. /\ job'[j] \in JobType /\ job'[j].op = "delete" /\ job'[j].pc = "ended"
      /\ job'[j].early = job[j].early /\ job'[j].removed = job[j].removed
      /\ job'[j].lost = stuck
  BY <1>1, <1>2, <1>3, <1>4 DEF JobType
<1> QED BY <1>1, <1>2, <1>3, <1>4, <1>5 DEF Alone

LEMMA PurgeAppealDo ==
    ASSUME TypeOK, NEW j \in Job, PurgeAppeal(j)
    PROVE  /\ Alone(j) /\ job'[j] = Over
           /\ UNCHANGED <<kase, attached, arrived, disk, Aside>>
           /\ \E a \in Appeal : Live(a) /\ appeals' = [appeals EXCEPT ![a] = "deleted"]
<1>1. /\ Begins(j, Idle, "ended") /\ "ended" \in Pcs
      /\ UNCHANGED <<kase, attached, arrived, disk, Aside>>
      /\ \E a \in Appeal : Live(a) /\ appeals' = [appeals EXCEPT ![a] = "deleted"]
  BY DEF PurgeAppeal, Pcs
<1> QED BY <1>1, IdleFits, BeginsFits DEF Alone

(* A request that dies is over; only a deletion is remembered.              *)
LEMMA DiesDo ==
    ASSUME TypeOK, NEW j \in Job, Dies(j)
    PROVE  /\ Alone(j) /\ UNCHANGED <<Record, Aside>>
           /\ \/ job'[j] = Over
              \/ /\ job'[j].op = "delete" /\ job'[j].pc = "failed"
                 /\ job'[j].early = job[j].early
<1>1. Goes(j, "failed") /\ "failed" \in Pcs /\ UNCHANGED <<Record, Aside>>
  BY DEF Dies, Pcs
<1> QED BY <1>1, GoesFits DEF Alone

LEMMA CloseDoes ==
    ASSUME TypeOK, Close
    PROVE  /\ UNCHANGED <<appeals, attached, arrived, disk, job, Aside>>
           /\ kase' \in KaseType /\ kase'.exists = kase.exists /\ kase'.waits = kase.waits
           /\ kase'.published = kase.published /\ kase'.accessed = kase.accessed
           /\ kase'.appealStatus = kase.appealStatus
<1>1. /\ kase \in KaseType /\ now \in 0 .. MaxTime /\ Window \in Nat /\ MaxTime \in Nat
      /\ kase' = Added([kase EXCEPT !.status = "closed", !.until = now + Window])
      /\ UNCHANGED <<appeals, attached, arrived, disk, job, Aside>>
  BY CaseRecordAssumption DEF TypeOK, Close
<1>2. now + Window \in Never .. (MaxTime + Window)
  BY <1>1 DEF Never
<1>3. [kase EXCEPT !.status = "closed", !.until = now + Window] \in KaseType
  BY <1>1, <1>2 DEF KaseType
<1> QED BY <1>1, <1>3, AddedFits DEF KaseType

-----------------------------------------------------------------------------
(* What a step keeps *)

LEMMA NextCases ==
    ASSUME [Next]_vars
    PROVE  \/ \E j \in Job :
                \/ Letters(j) \/ UploadLooks(j) \/ UploadStores(j) \/ UploadFiles(j)
                \/ StampReads(j) \/ StampWrites(j)
                \/ AppealReads(j) \/ AppealOpens(j) \/ DecideReads(j) \/ DecideWrites(j)
                \/ PurgeLooks(j) \/ PurgeLists(j) \/ PurgeEmpties(j) \/ PurgeDeletes(j)
                \/ PurgeFiles(j) \/ PurgeAppeal(j) \/ Dies(j)
           \/ Close \/ Tick \/ UNCHANGED vars
BY DEF Next, Uploads, Outcomes, Deletions

LEMMA StepIsTyped == ASSUME TypeOK, LettersFit, StampsFit, [Next]_vars PROVE TypeOK'
<1>1. ASSUME NEW j \in Job, Letters(j) PROVE TypeOK'
  BY <1>1, LettersDo DEF TypeOK
<1>2. ASSUME NEW j \in Job, UploadLooks(j) PROVE TypeOK'
  BY <1>2, LooksDo DEF TypeOK, Alone, Record, Aside
<1>3. ASSUME NEW j \in Job, UploadStores(j) PROVE TypeOK'
  BY <1>3, StoresDo DEF TypeOK, Alone, Aside
<1>4. ASSUME NEW j \in Job, UploadFiles(j) PROVE TypeOK'
  BY <1>4, FilesDo DEF TypeOK, Alone, Aside
<1>5. ASSUME NEW j \in Job, StampReads(j) PROVE TypeOK'
  BY <1>5, ReadsDo DEF TypeOK, Alone, Record, Aside
<1>6. ASSUME NEW j \in Job, StampWrites(j) PROVE TypeOK'
  BY <1>6, WritesDo DEF TypeOK, Alone
<1>7. ASSUME NEW j \in Job,
             AppealReads(j) \/ AppealOpens(j) \/ DecideReads(j) \/ DecideWrites(j)
      PROVE  TypeOK'
  <2>1. appeals' \in [Appeal -> AppealStatuses \cup {"absent", "deleted"}]
    BY <1>7, AppealsDo DEF TypeOK
  <2> QED BY <1>7, <2>1, AppealsDo DEF TypeOK, Alone, Aside
<1>8. ASSUME NEW j \in Job, PurgeLooks(j) \/ PurgeLists(j) \/ PurgeEmpties(j) \/ Dies(j)
      PROVE  TypeOK'
  BY <1>8, PurgeLooksDo, PurgeListsDo, PurgeEmptiesDo, DiesDo
     DEF TypeOK, Alone, Record, Aside
<1>9. ASSUME NEW j \in Job, PurgeDeletes(j) PROVE TypeOK'
  BY <1>9, PurgeDeletesDo DEF TypeOK, Alone, Aside
<1>10. ASSUME NEW j \in Job, PurgeFiles(j) PROVE TypeOK'
  BY <1>10, PurgeFilesDo DEF TypeOK, Alone, Aside
<1>11. ASSUME NEW j \in Job, PurgeAppeal(j) PROVE TypeOK'
  BY <1>11, PurgeAppealDo DEF TypeOK, Alone, Aside
<1>12. CASE Close
  BY <1>12, CloseDoes DEF TypeOK, Aside
<1>13. CASE Tick
  BY <1>13, CaseRecordAssumption DEF TypeOK, Tick, Record
<1>14. CASE UNCHANGED vars
  BY <1>14 DEF TypeOK, vars
<1> QED BY <1>1, <1>2, <1>3, <1>4, <1>5, <1>6, <1>7, <1>8, <1>9, <1>10, <1>11, <1>12,
           <1>13, <1>14, NextCases

LEMMA StepKeepsRows ==
    ASSUME TypeOK, RowsFit, JobsFit, LettersFit, StampsFit, [Next]_vars PROVE RowsFit'
<1>0. /\ attached \subseteq disk /\ (~kase.exists => attached = {})
      /\ \A a \in Appeal : Live(a) => kase.exists
  BY DEF RowsFit, RowsHaveTheirBytes, NoAppealDangles
<1>1. ASSUME kase'.exists = kase.exists, UNCHANGED <<appeals, attached, disk>> PROVE RowsFit'
  BY <1>0, <1>1 DEF RowsFit, RowsHaveTheirBytes, NoAppealDangles, Live
<1>2. ASSUME NEW j \in Job, Letters(j) PROVE RowsFit'
  BY <1>1, <1>2, LettersDo
<1>3. ASSUME NEW j \in Job,
             \/ UploadLooks(j) \/ StampReads(j) \/ PurgeLooks(j) \/ PurgeLists(j)
             \/ PurgeEmpties(j) \/ Dies(j)
      PROVE  RowsFit'
  BY <1>1, <1>3, LooksDo, ReadsDo, PurgeLooksDo, PurgeListsDo, PurgeEmptiesDo, DiesDo
     DEF Record
<1>4. ASSUME NEW j \in Job, UploadStores(j) PROVE RowsFit'
  BY <1>0, <1>4, StoresDo DEF RowsFit, RowsHaveTheirBytes, NoAppealDangles, Live
<1>5. ASSUME NEW j \in Job, UploadFiles(j) PROVE RowsFit'
  <2>1. kase.exists => job[j].file \in disk
    BY <1>5, FilesDo DEF JobsFit, JobFits
  <2> QED BY <1>0, <1>5, <2>1, FilesDo DEF RowsFit, RowsHaveTheirBytes, NoAppealDangles, Live
<1>6. ASSUME NEW j \in Job, StampWrites(j) PROVE RowsFit'
  BY <1>1, <1>6, WritesDo
<1>7. ASSUME NEW j \in Job,
             AppealReads(j) \/ AppealOpens(j) \/ DecideReads(j) \/ DecideWrites(j)
      PROVE  RowsFit'
  <2>1. UNCHANGED <<attached, disk>> /\ kase'.exists = kase.exists
    BY <1>7, AppealsDo
  <2>2. CASE appeals' = appeals
    BY <1>1, <2>1, <2>2
  <2>3. CASE appeals' # appeals
    <3>1. PICK a \in Appeal, v \in AppealStatuses :
            (kase.exists \/ Live(a)) /\ appeals' = [appeals EXCEPT ![a] = v]
      BY <1>7, <2>3, AppealsDo
    <3>2. kase.exists
      BY <1>0, <3>1
    <3> QED BY <1>0, <2>1, <3>2 DEF RowsFit, RowsHaveTheirBytes, NoAppealDangles
  <2> QED BY <2>2, <2>3
<1>8. ASSUME NEW j \in Job, PurgeDeletes(j) PROVE RowsFit'
  <2>1. CASE UNCHANGED <<kase, attached, arrived>>
    BY <1>1, <1>8, <2>1, PurgeDeletesDo
  <2>2. CASE ~UNCHANGED <<kase, attached, arrived>>
    <3>1. /\ kase.exists => NotAppealed
          /\ ~kase'.exists /\ attached' = {} /\ appeals' = appeals /\ disk' = disk
      BY <1>8, <2>2, PurgeDeletesDo
    <3>2. \A a \in Appeal : ~Live(a)
      BY <1>0, <3>1 DEF NotAppealed
    <3> QED BY <3>1, <3>2 DEF RowsFit, RowsHaveTheirBytes, NoAppealDangles, Live
  <2> QED BY <2>1, <2>2
<1>9. ASSUME NEW j \in Job, PurgeFiles(j) PROVE RowsFit'
  <2>1. /\ UNCHANGED <<kase, appeals, attached>> /\ job[j].op = "delete"
        /\ job[j].pc = "deleted"
    BY <1>9, PurgeFilesDo
  <2>2. ~kase.exists
    BY <2>1 DEF JobsFit, JobFits, Deletes
  <2> QED BY <1>0, <2>1, <2>2 DEF RowsFit, RowsHaveTheirBytes, NoAppealDangles, Live
<1>10. ASSUME NEW j \in Job, PurgeAppeal(j) PROVE RowsFit'
  <2>1. UNCHANGED <<kase, attached, disk>>
    BY <1>10, PurgeAppealDo
  <2>2. PICK a \in Appeal : Live(a) /\ appeals' = [appeals EXCEPT ![a] = "deleted"]
    BY <1>10, PurgeAppealDo
  <2>3. \A b \in Appeal : Live(b)' => Live(b)
    BY <2>2 DEF Live, TypeOK
  <2> QED BY <1>0, <2>1, <2>3 DEF RowsFit, RowsHaveTheirBytes, NoAppealDangles
<1>11. CASE Close
  BY <1>1, <1>11, CloseDoes
<1>12. CASE Tick \/ UNCHANGED vars
  BY <1>1, <1>12 DEF Tick, Record, vars
<1> QED BY <1>2, <1>3, <1>4, <1>5, <1>6, <1>7, <1>8, <1>9, <1>10, <1>11, <1>12, NextCases

(* A request that has finished, or never had anything to do with files.     *)
LEMMA Aloof ==
    ASSUME NEW i \in Job,
           \/ job'[i] = Over
           \/ /\ job'[i].op \notin Storing \cup {"delete"}
              /\ job'[i].early = {} \/ (kase'.exists => job'[i].early \subseteq disk')
    PROVE  JobFits(i)'
BY IdleFits DEF JobFits, Deletes, Storing

(* A request that rests, while others add files or take them away.          *)
LEMMA AtRest ==
    ASSUME TypeOK, JobsFit, NEW i \in Job, job'[i] = job[i], kase'.exists => kase.exists,
           kase'.exists => disk \subseteq disk' /\ attached \subseteq attached',
           disk' \cap job[i].early \subseteq disk
    PROVE  JobFits(i)'
<1>1. JobFits(i) /\ kase.exists \in BOOLEAN
  BY DEF JobsFit, TypeOK, KaseType
<1> QED BY <1>1 DEF JobFits, Deletes

LEMMA StepKeepsJobs ==
    ASSUME TypeOK, RowsFit, JobsFit, UploadsFit, LettersFit, StampsFit, [Next]_vars
    PROVE  JobsFit'
<1> SUFFICES ASSUME NEW i \in Job PROVE JobFits(i)'
  BY DEF JobsFit
<1>0. JobFits(i) /\ attached \subseteq disk /\ kase.exists \in BOOLEAN
      /\ (kase.exists => job[i].early \subseteq disk)
  BY DEF JobsFit, JobFits, RowsFit, RowsHaveTheirBytes, TypeOK, KaseType
<1>1. ASSUME UNCHANGED <<attached, disk>>, kase'.exists = kase.exists, job'[i] = job[i]
      PROVE  JobFits(i)'
  BY <1>1, AtRest
<1>2. ASSUME NEW j \in Job, Letters(j) PROVE JobFits(i)'
  <2>1. UNCHANGED <<attached, disk>> /\ kase'.exists = kase.exists
    BY <1>2, LettersDo
  <2>2. i # j => job'[i] = job[i]
    BY <1>2, LettersDo
  <2>3. \/ job'[j] = Over
        \/ /\ job'[j].op \in {"send", "external"}
           /\ job'[j].early = {} \/ job'[j].early = job[j].early
    BY <1>2, LettersDo
  <2> QED BY <1>0, <1>1, <2>1, <2>2, <2>3, Aloof DEF Storing
<1>3. ASSUME NEW j \in Job, UploadLooks(j) PROVE JobFits(i)'
  <2>1. UNCHANGED <<attached, disk, kase>> /\ (i # j => job'[i] = job[i])
    BY <1>3, LooksDo DEF Alone, Record
  <2>2. CASE i # j
    BY <1>1, <2>1, <2>2
  <2>3. CASE i = j
    <3>1. \/ job'[i] = Over
          \/ job'[i].op \in Storing /\ job'[i].pc = "looked" /\ job'[i].early = {}
      BY <1>3, <2>3, LooksDo
    <3> QED BY <3>1, Aloof DEF JobFits, Deletes, Storing
  <2> QED BY <2>2, <2>3
<1>4. ASSUME NEW j \in Job, UploadStores(j) PROVE JobFits(i)'
  <2>1. /\ UNCHANGED <<attached, kase>> /\ (i # j => job'[i] = job[i])
        /\ disk' = disk \cup {job[j].file} /\ Looking(j)
    BY <1>4, StoresDo DEF Alone
  <2>2. job[j].file \notin job[i].early
    BY <2>1 DEF UploadsFit
  <2>3. CASE i # j
    BY <2>1, <2>2, <2>3, AtRest
  <2>4. CASE i = j
    <3>1. \/ job'[i] = Over
          \/ /\ job'[i].op \in Storing /\ job'[i].pc = "stored"
             /\ job'[i].file = job[i].file /\ job'[i].early = job[i].early
      BY <1>4, <2>4, StoresDo
    <3> QED BY <1>0, <2>1, <2>4, <3>1, Aloof DEF JobFits, Deletes, Storing
  <2> QED BY <2>3, <2>4
<1>5. ASSUME NEW j \in Job, UploadFiles(j) PROVE JobFits(i)'
  <2>1. /\ disk' = disk /\ (i # j => job'[i] = job[i]) /\ job'[j] = Over
        /\ kase'.exists = kase.exists /\ attached \subseteq attached'
    BY <1>5, FilesDo DEF Alone
  <2> QED BY <2>1, AtRest, Aloof
<1>6. ASSUME NEW j \in Job, StampReads(j) PROVE JobFits(i)'
  <2>1. UNCHANGED <<attached, disk, kase>> /\ (i # j => job'[i] = job[i])
    BY <1>6, ReadsDo DEF Alone, Record
  <2>2. \/ job'[j] = Over
        \/ job'[j].op \in {"publish", "receipt"} /\ job'[j].early = {}
    BY <1>6, ReadsDo
  <2> QED BY <1>1, <2>1, <2>2, Aloof DEF Storing
<1>7. ASSUME NEW j \in Job, StampWrites(j) PROVE JobFits(i)'
  <2>1. /\ UNCHANGED <<attached, disk>> /\ kase'.exists = kase.exists
        /\ (i # j => job'[i] = job[i]) /\ job'[j] = Over
    BY <1>7, WritesDo DEF Alone
  <2> QED BY <1>1, <2>1, Aloof
<1>8. ASSUME NEW j \in Job,
             AppealReads(j) \/ AppealOpens(j) \/ DecideReads(j) \/ DecideWrites(j)
      PROVE  JobFits(i)'
  <2>1. /\ UNCHANGED <<attached, disk>> /\ kase'.exists = kase.exists
        /\ (i # j => job'[i] = job[i])
        /\ \/ job'[j] = Over
           \/ job'[j].op \in {"appeal", "decide"} /\ job'[j].early = {}
    BY <1>8, AppealsDo DEF Alone
  <2> QED BY <1>1, <2>1, Aloof DEF Storing
<1>9. ASSUME NEW j \in Job, PurgeLooks(j) PROVE JobFits(i)'
  <2>1. /\ UNCHANGED <<attached, disk, kase>> /\ (i # j => job'[i] = job[i])
        /\ \/ job'[j] = Over
           \/ job'[j].op = "delete" /\ job'[j].pc = "looked" /\ job'[j].early = attached
    BY <1>9, PurgeLooksDo DEF Alone, Record
  <2>2. CASE i = j /\ job'[j] # Over
    BY <1>0, <2>1, <2>2 DEF JobFits, Deletes, Storing
  <2> QED BY <1>1, <2>1, <2>2, Aloof
<1>10. ASSUME NEW j \in Job, PurgeLists(j) PROVE JobFits(i)'
  <2>1. /\ UNCHANGED <<attached, disk, kase>> /\ (i # j => job'[i] = job[i])
        /\ job[j].op = "delete" /\ job[j].pc = "looked"
        /\ job'[j].op = "delete" /\ job'[j].pc = "listed"
        /\ job'[j].early = job[j].early /\ job'[j].keys = attached
    BY <1>10, PurgeListsDo DEF Alone, Record
  <2>2. CASE i = j
    BY <1>0, <2>1, <2>2 DEF JobFits, Deletes, Storing
  <2> QED BY <1>1, <2>1, <2>2
<1>11. ASSUME NEW j \in Job, PurgeEmpties(j) PROVE JobFits(i)'
  <2>1. /\ UNCHANGED <<attached, disk, kase>> /\ (i # j => job'[i] = job[i])
        /\ job[j].op = "delete" /\ job[j].pc = "listed"
        /\ job'[j].op = "delete" /\ job'[j].pc \in {"emptied", "refused"}
        /\ job'[j].early = job[j].early /\ job'[j].keys = job[j].keys
    BY <1>11, PurgeEmptiesDo DEF Alone, Record
  <2>2. CASE i = j
    BY <1>0, <2>1, <2>2 DEF JobFits, Deletes, Storing
  <2> QED BY <1>1, <2>1, <2>2
<1>12. ASSUME NEW j \in Job, PurgeDeletes(j) PROVE JobFits(i)'
  <2>1. /\ disk' = disk /\ (i # j => job'[i] = job[i])
        /\ job[j].op = "delete" /\ job[j].pc = "emptied"
        /\ job'[j].op = "delete"
        /\ job'[j].early = job[j].early /\ job'[j].keys = job[j].keys
        /\ \/ job'[j].pc = "blocked" /\ UNCHANGED <<kase, attached>>
           \/ /\ job'[j].pc = "deleted" /\ job'[j].removed = kase.exists /\ ~kase'.exists
    BY <1>12, PurgeDeletesDo DEF Alone
  <2>2. CASE i = j
    BY <1>0, <2>1, <2>2 DEF JobFits, Deletes, Storing
  <2>3. CASE i # j
    BY <2>1, <2>3, AtRest
  <2> QED BY <2>2, <2>3
<1>13. ASSUME NEW j \in Job, PurgeFiles(j) PROVE JobFits(i)'
  <2>1. /\ UNCHANGED <<kase, attached>> /\ (i # j => job'[i] = job[i])
        /\ job[j].op = "delete" /\ job[j].pc = "deleted"
        /\ job'[j].op = "delete" /\ job'[j].pc = "ended"
        /\ job'[j].early = job[j].early /\ job'[j].removed = job[j].removed
        /\ disk' \subseteq disk /\ job[j].keys \cap disk' \subseteq job'[j].lost
    BY <1>13, PurgeFilesDo DEF Alone
  <2>2. ~kase.exists /\ (job[j].removed => job[j].early \subseteq job[j].keys)
    BY <2>1 DEF JobsFit, JobFits, Deletes
  <2>3. CASE i = j
    BY <2>1, <2>2, <2>3 DEF JobFits, Deletes, Storing
  <2>4. CASE i # j
    BY <2>1, <2>2, <2>4, AtRest
  <2> QED BY <2>3, <2>4
<1>14. ASSUME NEW j \in Job, PurgeAppeal(j) PROVE JobFits(i)'
  <2>1. /\ UNCHANGED <<attached, disk, kase>> /\ (i # j => job'[i] = job[i])
        /\ job'[j] = Over
    BY <1>14, PurgeAppealDo DEF Alone
  <2> QED BY <1>1, <2>1, Aloof
<1>15. ASSUME NEW j \in Job, Dies(j) PROVE JobFits(i)'
  <2>1. /\ UNCHANGED <<attached, disk, kase>> /\ (i # j => job'[i] = job[i])
        /\ \/ job'[j] = Over
           \/ /\ job'[j].op = "delete" /\ job'[j].pc = "failed"
              /\ job'[j].early = job[j].early
    BY <1>15, DiesDo DEF Alone, Record
  <2>2. CASE i = j /\ job'[j] # Over
    BY <1>0, <2>1, <2>2 DEF JobFits, Deletes, Storing
  <2> QED BY <1>1, <2>1, <2>2, Aloof
<1>16. CASE Close
  BY <1>1, <1>16, CloseDoes
<1>17. CASE Tick \/ UNCHANGED vars
  BY <1>1, <1>17 DEF Tick, Record, vars
<1> QED BY <1>2, <1>3, <1>4, <1>5, <1>6, <1>7, <1>8, <1>9, <1>10, <1>11, <1>12, <1>13,
           <1>14, <1>15, <1>16, <1>17, NextCases

(* Nobody begins to look, nor remembers files, and nothing is stored.       *)
LEMMA NobodyLooks ==
    ASSUME TypeOK, UploadsFit, disk' \subseteq disk,
           \A i \in Job : /\ job'[i].early \subseteq job[i].early
                          /\ \/ job'[i] = job[i]
                             \/ ~(job'[i].op \in Storing /\ job'[i].pc = "looked")
    PROVE  UploadsFit'
<1>1. \A i \in Job : job'[i].op \in Storing /\ job'[i].pc = "looked"
                       => Looking(i) /\ job'[i].file = job[i].file
  BY DEF Looking
<1>2. \A i \in Job : job'[i].early \subseteq job[i].early
  OBVIOUS
<1> QED BY <1>1, <1>2 DEF UploadsFit, Looking

LEMMA StepKeepsUploads ==
    ASSUME TypeOK, RowsFit, JobsFit, UploadsFit, LettersFit, StampsFit, [Next]_vars
    PROVE  UploadsFit'
<1>0. attached \subseteq disk
  BY DEF RowsFit, RowsHaveTheirBytes
<1>1. ASSUME disk' \subseteq disk, NEW j \in Job, \A i \in Job : i # j => job'[i] = job[i],
             \/ job'[j] = Over
             \/ /\ job'[j].op \notin Storing
                /\ job'[j].early = {} \/ job'[j].early = job[j].early
      PROVE  UploadsFit'
  <2>1. Over.op \notin Storing /\ Over.early = {}
    BY IdleFits DEF Storing
  <2> QED BY <1>1, <2>1, NobodyLooks
<1>2. ASSUME UNCHANGED <<disk, job>> PROVE UploadsFit'
  BY <1>2 DEF UploadsFit, Looking
<1>3. ASSUME NEW j \in Job, Letters(j) PROVE UploadsFit'
  <2>1. /\ disk' = disk /\ \A i \in Job : i # j => job'[i] = job[i]
        /\ \/ job'[j] = Over
           \/ /\ job'[j].op \in {"send", "external"}
              /\ job'[j].early = {} \/ job'[j].early = job[j].early
    BY <1>3, LettersDo
  <2> QED BY <1>1, <2>1 DEF Storing
<1>4. ASSUME NEW j \in Job, UploadLooks(j) PROVE UploadsFit'
  <2>1. /\ UNCHANGED <<disk, kase>> /\ \A i \in Job : i # j => job'[i] = job[i]
        /\ \/ job'[j] = Over
           \/ /\ job'[j].op \in Storing /\ job'[j].pc = "looked" /\ job'[j].early = {}
              /\ kase.exists /\ job'[j].file \notin disk
              /\ \A i \in Job : Looking(i) => job[i].file # job'[j].file
    BY <1>4, LooksDo DEF Alone, Record
  <2>2. CASE job'[j] = Over
    BY <1>1, <2>1, <2>2
  <2>3. CASE job'[j] # Over
    <3>1. /\ job'[j].op \in Storing /\ job'[j].pc = "looked" /\ job'[j].early = {}
          /\ kase.exists /\ job'[j].file \notin disk
          /\ \A i \in Job : Looking(i) => job[i].file # job'[j].file
      BY <2>1, <2>3
    <3>2. \A i \in Job : job[i].early \subseteq disk
      BY <3>1 DEF JobsFit, JobFits
    <3>3. \A i \in Job : /\ job'[i].early \subseteq job[i].early
                         /\ Looking(i)' => i = j \/ (Looking(i) /\ job'[i].file = job[i].file)
      BY <2>1, <3>1 DEF Looking
    <3> QED BY <2>1, <3>1, <3>2, <3>3 DEF UploadsFit
  <2> QED BY <2>2, <2>3
<1>5. ASSUME NEW j \in Job, UploadStores(j) PROVE UploadsFit'
  <2>1. /\ \A i \in Job : i # j => job'[i] = job[i]
        /\ Looking(j) /\ disk' = disk \cup {job[j].file}
        /\ \/ job'[j] = Over
           \/ /\ job'[j].op \in Storing /\ job'[j].pc = "stored"
              /\ job'[j].early = job[j].early
    BY <1>5, StoresDo DEF Alone
  <2>2. ~Looking(j)' /\ job'[j].early \subseteq job[j].early
    BY <2>1, IdleFits DEF Looking, Storing
  <2>3. \A i \in Job : /\ job'[i].early \subseteq job[i].early
                       /\ Looking(i)' => Looking(i) /\ i # j /\ job'[i].file = job[i].file
    BY <2>1, <2>2 DEF Looking
  <2> QED BY <2>1, <2>3 DEF UploadsFit
<1>6. ASSUME NEW j \in Job, UploadFiles(j) PROVE UploadsFit'
  BY <1>1, <1>6, FilesDo DEF Alone
<1>7. ASSUME NEW j \in Job, StampReads(j) PROVE UploadsFit'
  <2>1. /\ disk' = disk /\ \A i \in Job : i # j => job'[i] = job[i]
        /\ \/ job'[j] = Over
           \/ job'[j].op \in {"publish", "receipt"} /\ job'[j].early = {}
    BY <1>7, ReadsDo DEF Alone, Record
  <2> QED BY <1>1, <2>1 DEF Storing
<1>8. ASSUME NEW j \in Job, StampWrites(j) \/ PurgeAppeal(j) PROVE UploadsFit'
  <2>1. disk' = disk /\ (\A i \in Job : i # j => job'[i] = job[i]) /\ job'[j] = Over
    BY <1>8, WritesDo, PurgeAppealDo DEF Alone
  <2> QED BY <1>1, <2>1
<1>9. ASSUME NEW j \in Job,
             AppealReads(j) \/ AppealOpens(j) \/ DecideReads(j) \/ DecideWrites(j)
      PROVE  UploadsFit'
  <2>1. /\ disk' = disk /\ \A i \in Job : i # j => job'[i] = job[i]
        /\ \/ job'[j] = Over
           \/ job'[j].op \in {"appeal", "decide"} /\ job'[j].early = {}
    BY <1>9, AppealsDo DEF Alone
  <2> QED BY <1>1, <2>1 DEF Storing
<1>10. ASSUME NEW j \in Job, PurgeLooks(j) PROVE UploadsFit'
  <2>1. /\ disk' = disk /\ \A i \in Job : i # j => job'[i] = job[i]
        /\ \/ job'[j] = Over
           \/ job'[j].op = "delete" /\ job'[j].early = attached
    BY <1>10, PurgeLooksDo DEF Alone, Record
  <2>2. CASE job'[j] # Over
    <3>1. \A i \in Job : /\ i # j => job'[i].early = job[i].early
                         /\ Looking(i)' => Looking(i) /\ job'[i].file = job[i].file
      BY <2>1, <2>2 DEF Looking, Storing
    <3>2. \A i \in Job : Looking(i) => job[i].file \notin job'[j].early
      BY <1>0, <2>1, <2>2 DEF UploadsFit
    <3> QED BY <2>1, <3>1, <3>2 DEF UploadsFit
  <2> QED BY <1>1, <2>1, <2>2
<1>11. ASSUME NEW j \in Job,
              \/ PurgeLists(j) \/ PurgeEmpties(j) \/ PurgeDeletes(j) \/ PurgeFiles(j)
              \/ Dies(j)
       PROVE  UploadsFit'
  <2>1. /\ disk' \subseteq disk /\ \A i \in Job : i # j => job'[i] = job[i]
        /\ \/ job'[j] = Over
           \/ job'[j].op = "delete" /\ job'[j].early = job[j].early
    BY <1>11, PurgeListsDo, PurgeEmptiesDo, PurgeDeletesDo, PurgeFilesDo, DiesDo
       DEF Alone, Record
  <2> QED BY <1>1, <2>1 DEF Storing
<1>12. CASE Close
  BY <1>2, <1>12, CloseDoes
<1>13. CASE Tick \/ UNCHANGED vars
  BY <1>2, <1>13 DEF Tick, Record, vars
<1> QED BY <1>3, <1>4, <1>5, <1>6, <1>7, <1>8, <1>9, <1>10, <1>11, <1>12, <1>13, NextCases

LEMMA StepKeepsLetters ==
    ASSUME TypeOK, LettersFit, StampsFit, [Next]_vars PROVE LettersFit'
<1> DEFINE Told(i) == job[i].op \in {"send", "external"} /\ job[i].pc \in {"mailed", "logged"}
                        => job[i].party \in asked
<1>0. /\ \A i \in Job : Told(i)
      /\ kase.waits # "nobody" => kase.waits \in asked
  BY DEF LettersFit, AwaitedWasAsked
<1>1. ASSUME asked' = asked, kase'.waits = kase.waits \/ kase'.waits = "nobody",
             \A i \in Job : \/ job'[i] = job[i] \/ job'[i] = Over
                            \/ job'[i].op \notin {"send", "external"}
      PROVE  LettersFit'
  BY <1>0, <1>1, IdleFits DEF LettersFit, AwaitedWasAsked
<1>2. ASSUME NEW j \in Job, Letters(j) PROVE LettersFit'
  <2>1. /\ \A i \in Job : i # j => job'[i] = job[i]
        /\ kase'.waits = kase.waits \/ kase'.waits \in asked
        /\ asked \subseteq asked'
        /\ \/ job'[j] = Over
           \/ job'[j].pc \in {"mailed", "logged"} => job'[j].party \in asked'
    BY <1>2, LettersDo
  <2> QED BY <1>0, <2>1, IdleFits DEF LettersFit, AwaitedWasAsked
<1>3. ASSUME NEW j \in Job, UploadLooks(j) \/ UploadStores(j) \/ UploadFiles(j)
      PROVE  LettersFit'
  <2>1. /\ asked' = asked /\ \A i \in Job : i # j => job'[i] = job[i]
        /\ kase'.waits = kase.waits \/ kase'.waits = "nobody"
        /\ job'[j] = Over \/ job'[j].op \in Storing
    BY <1>3, LooksDo, StoresDo, FilesDo DEF Alone, Record, Aside
  <2> QED BY <1>1, <2>1 DEF Storing
<1>4. ASSUME NEW j \in Job, StampReads(j) \/ StampWrites(j) PROVE LettersFit'
  <2>1. /\ asked' = asked /\ \A i \in Job : i # j => job'[i] = job[i]
        /\ kase'.waits = kase.waits
        /\ job'[j] = Over \/ job'[j].op \in {"publish", "receipt"}
    BY <1>4, ReadsDo, WritesDo DEF Alone, Record, Aside
  <2> QED BY <1>1, <2>1
<1>5. ASSUME NEW j \in Job,
             AppealReads(j) \/ AppealOpens(j) \/ DecideReads(j) \/ DecideWrites(j)
      PROVE  LettersFit'
  <2>1. /\ asked' = asked /\ \A i \in Job : i # j => job'[i] = job[i]
        /\ kase'.waits = kase.waits
        /\ job'[j] = Over \/ job'[j].op \in {"appeal", "decide"}
    BY <1>5, AppealsDo DEF Alone, Aside
  <2> QED BY <1>1, <2>1
<1>6. ASSUME NEW j \in Job, PurgeLooks(j) \/ PurgeLists(j) \/ PurgeEmpties(j) \/ Dies(j)
      PROVE  LettersFit'
  <2>1. /\ asked' = asked /\ \A i \in Job : i # j => job'[i] = job[i]
        /\ kase'.waits = kase.waits
        /\ job'[j] = Over \/ job'[j].op = "delete"
    BY <1>6, PurgeLooksDo, PurgeListsDo, PurgeEmptiesDo, DiesDo DEF Alone, Record, Aside
  <2> QED BY <1>1, <2>1
<1>7. ASSUME NEW j \in Job, PurgeDeletes(j) \/ PurgeFiles(j) \/ PurgeAppeal(j)
      PROVE  LettersFit'
  <2>1. /\ asked' = asked /\ \A i \in Job : i # j => job'[i] = job[i]
        /\ kase'.waits = kase.waits
        /\ job'[j] = Over \/ job'[j].op = "delete"
    BY <1>7, PurgeDeletesDo, PurgeFilesDo, PurgeAppealDo DEF Alone, Aside
  <2> QED BY <1>1, <2>1
<1>8. CASE Close
  BY <1>1, <1>8, CloseDoes DEF Aside
<1>9. CASE Tick \/ UNCHANGED vars
  BY <1>1, <1>9 DEF Tick, Record, vars
<1> QED BY <1>2, <1>3, <1>4, <1>5, <1>6, <1>7, <1>8, <1>9, NextCases

LEMMA StepKeepsStamps ==
    ASSUME TypeOK, LettersFit, StampsFit, [Next]_vars PROVE StampsFit'
<1> DEFINE Reads(i) == job[i].pc = "looked" /\ job[i].op \in {"publish", "receipt"}
           Fresh(i) == /\ job[i].at \in 0 .. now /\ job[i].seen <= now
                       /\ job[i].op = "receipt" =>
                            kase.published # Never
                              /\ (overtaken \/ kase.published <= job[i].at)
<1>0. /\ ReadAfterPublished /\ kase.published <= now /\ kase.accessed <= now
      /\ \A i \in Job : Reads(i) => Fresh(i)
      /\ now \in Nat /\ kase.published \in Int /\ kase.accessed \in Int
      /\ \A i \in Job : job[i].at \in Int /\ job[i].seen \in Int
  BY CaseRecordAssumption DEF StampsFit, TypeOK, KaseType, JobType, Times, Never
<1>1. ASSUME kase'.published = kase.published, kase'.accessed = kase.accessed,
             overtaken' = overtaken, now' = now,
             \A i \in Job : \/ job'[i] = job[i] \/ job'[i] = Over
                            \/ job'[i].op \notin {"publish", "receipt"}
      PROVE  StampsFit'
  BY <1>0, <1>1, IdleFits DEF StampsFit, ReadAfterPublished
<1>2. ASSUME NEW j \in Job, Letters(j) PROVE StampsFit'
  <2>1. /\ UNCHANGED <<overtaken, now>> /\ \A i \in Job : i # j => job'[i] = job[i]
        /\ kase'.published = kase.published /\ kase'.accessed = kase.accessed
        /\ job'[j] = Over \/ job'[j].op \in {"send", "external"}
    BY <1>2, LettersDo
  <2> QED BY <1>1, <2>1
<1>3. ASSUME NEW j \in Job, UploadLooks(j) \/ UploadStores(j) \/ UploadFiles(j)
      PROVE  StampsFit'
  <2>1. /\ UNCHANGED <<overtaken, now>> /\ \A i \in Job : i # j => job'[i] = job[i]
        /\ kase'.published = kase.published /\ kase'.accessed = kase.accessed
        /\ job'[j] = Over \/ job'[j].op \in Storing
    BY <1>3, LooksDo, StoresDo, FilesDo DEF Alone, Record, Aside
  <2> QED BY <1>1, <2>1 DEF Storing
<1>4. ASSUME NEW j \in Job, StampReads(j) PROVE StampsFit'
  <2>1. /\ UNCHANGED <<kase, overtaken, now>> /\ \A i \in Job : i # j => job'[i] = job[i]
        /\ \/ job'[j] = Over
           \/ /\ job'[j].at = now /\ job'[j].seen <= now
              /\ job'[j].op = "receipt" => kase.published # Never
    BY <1>4, ReadsDo DEF Alone, Record, Aside, MayStamp
  <2>2. ASSUME NEW i \in Job, Reads(i)' PROVE Fresh(i)'
    <3>1. CASE i # j
      BY <1>0, <2>1, <2>2, <3>1
    <3>2. CASE i = j
      BY <1>0, <2>1, <2>2, <3>2, IdleFits
    <3> QED BY <3>1, <3>2
  <2> QED BY <1>0, <2>1, <2>2 DEF StampsFit, ReadAfterPublished
<1>5. ASSUME NEW j \in Job, StampWrites(j) PROVE StampsFit'
  <2>1. /\ now' = now /\ (\A i \in Job : i # j => job'[i] = job[i]) /\ job'[j] = Over
        /\ (overtaken => overtaken') /\ Reads(j) /\ Fresh(j)
    BY <1>0, <1>5, WritesDo DEF Alone
  <2>2. PICK t \in job[j].at .. now :
          \/ kase'.published = kase.published /\ kase'.accessed = kase.accessed
          \/ /\ job[j].op = "publish" /\ kase'.accessed = kase.accessed
             /\ kase'.published = Stamp(j, t)
             /\ (~overtaken' => kase.published = job[j].seen)
          \/ /\ job[j].op = "receipt" /\ kase'.published = kase.published
             /\ kase'.accessed = Stamp(j, t)
             /\ (~overtaken' => kase.accessed = job[j].seen)
    BY <1>5, WritesDo
  <2>3. t \in Nat /\ job[j].at <= t /\ t <= now /\ Stamp(j, t) \in {job[j].seen, t}
        /\ Stamp(j, t) # Never /\ (job[j].seen # Never => Stamp(j, t) = job[j].seen)
    BY <1>0, <2>1 DEF Stamp, Never
  <2>4. CASE kase'.published = kase.published /\ kase'.accessed = kase.accessed
    BY <1>0, <2>1, <2>4, IdleFits DEF StampsFit, ReadAfterPublished
  <2>5. CASE /\ job[j].op = "publish" /\ kase'.accessed = kase.accessed
             /\ kase'.published = Stamp(j, t)
             /\ (~overtaken' => kase.published = job[j].seen)
    <3>1. kase'.published # Never /\ kase'.published <= now
      BY <1>0, <2>1, <2>3, <2>5
    <3>2. kase.published # Never => overtaken' \/ kase'.published = kase.published
      BY <2>3, <2>5
    <3>3. kase'.accessed # Never => overtaken' \/ kase'.published <= kase'.accessed
      BY <1>0, <2>1, <2>5, <3>2 DEF ReadAfterPublished
    <3>4. ASSUME NEW i \in Job, Reads(i)' PROVE Fresh(i)'
      <4>1. i # j /\ job'[i] = job[i] /\ Fresh(i)
        BY <1>0, <2>1, <3>4, IdleFits
      <4> QED BY <2>1, <3>1, <3>2, <4>1
    <3> QED BY <1>0, <2>1, <2>5, <3>1, <3>3, <3>4 DEF StampsFit, ReadAfterPublished
  <2>6. CASE /\ job[j].op = "receipt" /\ kase'.published = kase.published
             /\ kase'.accessed = Stamp(j, t)
             /\ (~overtaken' => kase.accessed = job[j].seen)
    <3>1. kase'.accessed <= now /\ kase.published # Never
      BY <1>0, <2>1, <2>3, <2>6
    <3>2. overtaken' \/ kase'.published <= kase'.accessed
      <4>1. CASE job[j].seen = Never
        <5>1. kase'.accessed = t /\ (overtaken \/ kase.published <= job[j].at)
          BY <2>1, <2>3, <2>6, <4>1
        <5> QED BY <1>0, <2>1, <2>3, <2>6, <5>1
      <4>2. CASE job[j].seen # Never
        BY <1>0, <2>1, <2>3, <2>6, <4>2 DEF ReadAfterPublished
      <4> QED BY <4>1, <4>2
    <3>3. ASSUME NEW i \in Job, Reads(i)' PROVE Fresh(i)'
      <4>1. i # j /\ job'[i] = job[i] /\ Fresh(i)
        BY <1>0, <2>1, <3>3, IdleFits
      <4> QED BY <2>1, <2>6, <4>1
    <3> QED BY <1>0, <2>1, <2>6, <3>1, <3>2, <3>3 DEF StampsFit, ReadAfterPublished
  <2> QED BY <2>2, <2>4, <2>5, <2>6
<1>6. ASSUME NEW j \in Job,
             AppealReads(j) \/ AppealOpens(j) \/ DecideReads(j) \/ DecideWrites(j)
      PROVE  StampsFit'
  <2>1. /\ UNCHANGED <<overtaken, now>> /\ \A i \in Job : i # j => job'[i] = job[i]
        /\ kase'.published = kase.published /\ kase'.accessed = kase.accessed
        /\ job'[j] = Over \/ job'[j].op \in {"appeal", "decide"}
    BY <1>6, AppealsDo DEF Alone, Aside
  <2> QED BY <1>1, <2>1
<1>7. ASSUME NEW j \in Job, PurgeLooks(j) \/ PurgeLists(j) \/ PurgeEmpties(j) \/ Dies(j)
      PROVE  StampsFit'
  <2>1. /\ UNCHANGED <<kase, overtaken, now>> /\ \A i \in Job : i # j => job'[i] = job[i]
        /\ job'[j] = Over \/ job'[j].op = "delete"
    BY <1>7, PurgeLooksDo, PurgeListsDo, PurgeEmptiesDo, DiesDo DEF Alone, Record, Aside
  <2> QED BY <1>1, <2>1
<1>8. ASSUME NEW j \in Job, PurgeDeletes(j) \/ PurgeFiles(j) \/ PurgeAppeal(j)
      PROVE  StampsFit'
  <2>1. /\ UNCHANGED <<overtaken, now>> /\ \A i \in Job : i # j => job'[i] = job[i]
        /\ kase'.published = kase.published /\ kase'.accessed = kase.accessed
        /\ job'[j] = Over \/ job'[j].op = "delete"
    BY <1>8, PurgeDeletesDo, PurgeFilesDo, PurgeAppealDo DEF Alone, Aside
  <2> QED BY <1>1, <2>1
<1>9. CASE Close
  BY <1>1, <1>9, CloseDoes DEF Aside
<1>10. CASE Tick
  <2>1. now' = now + 1 /\ UNCHANGED <<kase, job, overtaken>>
    BY <1>10 DEF Tick, Record
  <2>2. ASSUME NEW i \in Job, Reads(i)' PROVE Fresh(i)'
    BY <1>0, <2>1, <2>2
  <2> QED BY <1>0, <2>1, <2>2 DEF StampsFit, ReadAfterPublished
<1>11. CASE UNCHANGED vars
  BY <1>1, <1>11 DEF vars
<1> QED BY <1>2, <1>3, <1>4, <1>5, <1>6, <1>7, <1>8, <1>9, <1>10, <1>11, NextCases

LEMMA StepKeepsVerdicts ==
    ASSUME TypeOK, LettersFit, StampsFit, VerdictsAgree, [Next]_vars PROVE VerdictsAgree'
<1>1. ASSUME appeals' = appeals, kase'.appealStatus = kase.appealStatus PROVE VerdictsAgree'
  BY <1>1 DEF VerdictsAgree, Live
<1>2. ASSUME NEW j \in Job, Letters(j) PROVE VerdictsAgree'
  BY <1>1, <1>2, LettersDo
<1>3. ASSUME NEW j \in Job, UploadLooks(j) \/ UploadStores(j) \/ UploadFiles(j)
      PROVE  VerdictsAgree'
  BY <1>1, <1>3, LooksDo, StoresDo, FilesDo DEF Record
<1>4. ASSUME NEW j \in Job, StampReads(j) \/ StampWrites(j) PROVE VerdictsAgree'
  BY <1>1, <1>4, ReadsDo, WritesDo DEF Record
<1>5. ASSUME NEW j \in Job,
             AppealReads(j) \/ AppealOpens(j) \/ DecideReads(j) \/ DecideWrites(j)
      PROVE  VerdictsAgree'
  <2>1. CASE appeals' = appeals /\ kase'.appealStatus = kase.appealStatus
    BY <1>1, <2>1
  <2>2. CASE ~(appeals' = appeals /\ kase'.appealStatus = kase.appealStatus)
    <3>1. PICK a \in Appeal, v \in AppealStatuses :
             /\ appeals' = [appeals EXCEPT ![a] = v]
             /\ \/ kase'.appealStatus = v
                \/ kase'.appealStatus = "under_review" /\ v = "requested"
      BY <1>5, <2>2, AppealsDo
    <3>2. appeals'[a] = v /\ v # "absent"
      BY <3>1 DEF TypeOK, AppealStatuses
    <3>3. SUFFICES ASSUME NEW b \in Appeal, \A c \in Appeal \ {b} : appeals'[c] = "absent"
                   PROVE  \/ kase'.appealStatus = appeals'[b]
                          \/ kase'.appealStatus = "under_review" /\ appeals'[b] = "requested"
      BY DEF VerdictsAgree
    <3>4. a = b
      BY <3>2, <3>3
    <3> QED BY <3>1, <3>2, <3>4
  <2> QED BY <2>1, <2>2
<1>6. ASSUME NEW j \in Job,
             \/ PurgeLooks(j) \/ PurgeLists(j) \/ PurgeEmpties(j) \/ PurgeDeletes(j)
             \/ PurgeFiles(j) \/ Dies(j)
      PROVE  VerdictsAgree'
  BY <1>1, <1>6, PurgeLooksDo, PurgeListsDo, PurgeEmptiesDo, PurgeDeletesDo, PurgeFilesDo,
     DiesDo DEF Record
<1>7. ASSUME NEW j \in Job, PurgeAppeal(j) PROVE VerdictsAgree'
  <2>1. kase' = kase
    BY <1>7, PurgeAppealDo
  <2>2. PICK a \in Appeal : Live(a) /\ appeals' = [appeals EXCEPT ![a] = "deleted"]
    BY <1>7, PurgeAppealDo
  <2>3. appeals'[a] = "deleted" /\ \A b \in Appeal : b # a => appeals'[b] = appeals[b]
    BY <2>2 DEF TypeOK
  <2> QED BY <2>1, <2>2, <2>3 DEF VerdictsAgree, Live
<1>8. CASE Close
  BY <1>1, <1>8, CloseDoes
<1>9. CASE Tick \/ UNCHANGED vars
  BY <1>1, <1>9 DEF Tick, Record, vars
<1> QED BY <1>2, <1>3, <1>4, <1>5, <1>6, <1>7, <1>8, <1>9, NextCases

-----------------------------------------------------------------------------
(* The theorems *)

LEMMA InitFits == ASSUME Init PROVE IInv
<1>1. PICK files \in SUBSET File, s \in {"open", "closed"}, d \in BOOLEAN :
         /\ kase = [exists |-> TRUE, status |-> s,
                    until |-> IF s = "closed" THEN Window ELSE Never,
                    delegated |-> d, waits |-> "nobody", published |-> Never,
                    accessed |-> Never, appealStatus |-> "none", rows |-> 0]
         /\ attached = files /\ disk = files
  BY DEF Init
<1>2. (IF s = "closed" THEN Window ELSE Never) \in Never .. (MaxTime + Window)
  BY CaseRecordAssumption DEF Never
<1>3. /\ kase \in KaseType /\ kase.exists /\ kase.waits = "nobody"
      /\ kase.published = Never /\ kase.accessed = Never /\ kase.appealStatus = "none"
  <2> DEFINE until == IF s = "closed" THEN Window ELSE Never
  <2>1. until \in Never .. (MaxTime + Window)
    BY <1>2
  <2>2. kase = [exists |-> TRUE, status |-> s, until |-> until, delegated |-> d,
                waits |-> "nobody", published |-> Never, accessed |-> Never,
                appealStatus |-> "none", rows |-> 0]
    BY <1>1
  <2> HIDE DEF until
  <2> QED BY <2>1, <2>2 DEF KaseType, Times, Party
<1>4. /\ arrived = {} /\ asked = {} /\ overtaken = FALSE /\ now = 0
      /\ \A a \in Appeal : appeals[a] = "absent"
      /\ appeals \in [Appeal -> AppealStatuses \cup {"absent", "deleted"}]
      /\ job = [j \in Job |-> Idle]
  BY DEF Init
<1>5. job \in [Job -> JobType] /\ \A j \in Job : job[j] = Idle
  BY <1>4, IdleFits
<1>6. TypeOK
  <2>1. now \in 0 .. MaxTime
    BY <1>4, CaseRecordAssumption
  <2>2. arrived \subseteq attached /\ attached \subseteq File /\ disk \subseteq File
        /\ asked \subseteq Party /\ overtaken \in BOOLEAN
    BY <1>1, <1>4
  <2> QED BY <1>3, <1>4, <1>5, <2>1, <2>2 DEF TypeOK
<1>7. RowsFit /\ VerdictsAgree /\ LettersFit
  BY <1>1, <1>3, <1>4, <1>5, IdleFits
     DEF RowsFit, RowsHaveTheirBytes, NoAppealDangles, Live, VerdictsAgree, LettersFit,
         AwaitedWasAsked
<1>8. JobsFit /\ UploadsFit /\ StampsFit
  BY <1>3, <1>4, <1>5, IdleFits
     DEF JobsFit, JobFits, UploadsFit, Looking, Deletes, Storing, StampsFit,
         ReadAfterPublished, Never
<1> QED BY <1>6, <1>7, <1>8 DEF IInv

(* Every step of every request keeps what the others rely on.               *)
THEOREM RecordFits == Spec => []IInv
<1>1. Init => IInv
  BY InitFits
<1>2. IInv /\ [Next]_vars => IInv'
  <2> SUFFICES ASSUME TypeOK, RowsFit, JobsFit, UploadsFit, LettersFit, StampsFit,
                      VerdictsAgree, [Next]_vars
               PROVE  IInv'
    BY DEF IInv
  <2>1. TypeOK' BY StepIsTyped
  <2>2. RowsFit' BY StepKeepsRows
  <2>3. JobsFit' BY StepKeepsJobs
  <2>4. UploadsFit' BY StepKeepsUploads
  <2>5. LettersFit' BY StepKeepsLetters
  <2>6. StampsFit' BY StepKeepsStamps
  <2>7. VerdictsAgree' BY StepKeepsVerdicts
  <2> QED BY <2>1, <2>2, <2>3, <2>4, <2>5, <2>6, <2>7 DEF IInv
<1> QED BY <1>1, <1>2, PTL DEF Spec

(* A deletion takes the case's files off the disk or names those it could   *)
(* not, whatever is uploaded meanwhile, and no row is left without bytes.   *)
THEOREM FilesFollowRows == Spec => []FilesAndRowsAgree
<1>1. IInv => FilesAndRowsAgree
  BY DEF IInv, RowsFit, JobsFit, JobFits, Deletes, FilesAndRowsAgree, FilesGoToo, At
<1> QED BY <1>1, RecordFits, PTL

(* The original says how its only appeal stands, whichever of any number of *)
(* decisions came last.                                                     *)
THEOREM VerdictsStayTogether == Spec => []VerdictsAgree
<1>1. IInv => VerdictsAgree
  BY DEF IInv
<1> QED BY <1>1, RecordFits, PTL

(* No appeal outlives its original, the case waits only for parties written *)
(* to, and a report is read after the publication on record.                *)
THEOREM RecordIsTrue == Spec => []RecordInv
<1>1. IInv => RecordInv
  BY DEF IInv, RowsFit, LettersFit, StampsFit, RecordInv
<1> QED BY <1>1, RecordFits, PTL

-----------------------------------------------------------------------------
(* The page: what a visit has on the screen, in the composer and under way. *)
Owners == Owner \cup {Nobody}
Row == [rev : Nat, owner : Owners, status : {"none", "new", "working", "closed"}]

View == [shown : Row, failed : BOOLEAN, mounted : BOOLEAN, replyOpen : BOOLEAN,
         body : Nat, timer : Seq(Nat), template : BOOLEAN]

Noted == [turns : Nat, texts : Nat, acts : Nat, confirmed : SUBSET Nat,
          blind : BOOLEAN, left : BOOLEAN]

PageTyped ==
    /\ record \in Row /\ record.rev >= 1
    /\ view \in View
    /\ rail \in [owner : Owners, status : {NoChoice, "working", "closed"}]
    /\ draft \in Nat
    /\ noted \in Noted

(* A row that was read is the case as it was, and as it is unless the case  *)
(* has another revision since.                                              *)
Stood(row) ==
    /\ row.rev <= record.rev
    /\ row.rev = record.rev => row = record
    /\ row # NotShown => row.rev >= 1

RowsStood ==
    /\ Stood(view.shown)
    /\ \A g \in gets : /\ g = [n |-> g.n, row |-> g.row]
                       /\ g.row \in Row /\ Stood(g.row)

(* An update that compares knows what to compare with, and one that has     *)
(* compared has read what its screen showed.                                *)
SaveFits(s) ==
    /\ s = [n |-> s.n, at |-> s.at, owner |-> s.owner, status |-> s.status,
            saw |-> s.saw, seen |-> s.seen, read |-> s.read, for |-> s.for]
    /\ s.owner \in Owners /\ s.status \in {NoChoice, "working", "closed"}
    /\ s.at \in {"assign", "assigning", "move"} =>
         s.saw \in Row /\ Stood(s.saw) /\ s.seen = s.saw.rev /\ s.seen # 0
    /\ s.at = "assigning" \/ (s.at = "moving" /\ s.owner = Nobody) => s.read = s.saw
    /\ s.at \in {"move", "moving"} => s.status # NoChoice
SavesFit == ~noted.blind /\ \A s \in saves : SaveFits(s)

(* Texts are numbered as they come.                                         *)
TextsKnown ==
    /\ view.body <= noted.texts /\ draft <= noted.texts
    /\ noted.confirmed \subseteq 1 .. noted.texts

(* A reply not awaited by the composer that sent it was left on its way.    *)
SendsFit ==
    \A r \in sends :
        /\ r = [n |-> r.n, body |-> r.body, for |-> r.for, at |-> r.at]
        /\ r.body \in 1 .. noted.texts
        /\ r.for # "composer" => noted.left

TimerFits == view.timer # <<>> => view.timer = <<view.body>>

PInv ==
    /\ PageTyped
    /\ RowsStood
    /\ SavesFit
    /\ TextsKnown
    /\ SendsFit
    /\ TimerFits
    /\ RestedDraftIsStored
    /\ SentIsGone

LEMMA SaveAdvances ==
    ASSUME NEW s, NEW step, NEW row,
           s = [n |-> s.n, at |-> s.at, owner |-> s.owner, status |-> s.status,
                saw |-> s.saw, seen |-> s.seen, read |-> s.read, for |-> s.for]
    PROVE  /\ [s EXCEPT !.at = step, !.read = row]
                = [n |-> s.n, at |-> step, owner |-> s.owner, status |-> s.status,
                   saw |-> s.saw, seen |-> s.seen, read |-> row, for |-> s.for]
           /\ [s EXCEPT !.at = step] = [s EXCEPT !.at = step, !.read = s.read]
<1>1. PICK q : q = [n |-> s.n, at |-> step, owner |-> s.owner, status |-> s.status,
                   saw |-> s.saw, seen |-> s.seen, read |-> s.read, for |-> s.for]
  OBVIOUS
<1>2. [s EXCEPT !.at = step] = q
  BY <1>1
<1>3. [q EXCEPT !.read = row]
        = [n |-> s.n, at |-> step, owner |-> s.owner, status |-> s.status,
           saw |-> s.saw, seen |-> s.seen, read |-> row, for |-> s.for]
  BY <1>1
<1>4. [q EXCEPT !.read = s.read] = q
  BY <1>1
<1> QED BY <1>2, <1>3, <1>4

LEMMA CommitsKeepRowsStood ==
    ASSUME NEW row \in Row, Stood(row), record' \in Row, record \in Row,
           record'.rev >= record.rev, record'.rev = record.rev => record' = record
    PROVE  /\ row.rev <= record'.rev
           /\ row.rev = record'.rev => row = record'
           /\ row # NotShown => row.rev >= 1
BY DEF Stood, Row

LEMMA TimedKeepsView ==
    ASSUME NEW p \in View
    PROVE  /\ Timed(p) \in View
           /\ Timed(p).shown = p.shown /\ Timed(p).mounted = p.mounted
           /\ Timed(p).replyOpen = p.replyOpen /\ Timed(p).body = p.body
           /\ Timed(p).timer = IF p.mounted /\ p.replyOpen THEN <<p.body>> ELSE <<>>
<1> DEFINE t == IF p.mounted /\ p.replyOpen THEN <<p.body>> ELSE <<>>
<1>1. t \in Seq(Nat)
  BY DEF View
<1>2. Timed(p) = [p EXCEPT !.timer = t]
  BY DEF Timed
<1> HIDE DEF t
<1>3. /\ Timed(p) \in View
      /\ Timed(p).shown = p.shown /\ Timed(p).mounted = p.mounted
      /\ Timed(p).replyOpen = p.replyOpen /\ Timed(p).body = p.body
      /\ Timed(p).timer = t
  BY <1>1, <1>2 DEF View
<1> QED BY <1>3 DEF t

LEMMA MountsFresh ==
    ASSUME NEW p \in View, draft \in Nat
    PROVE  /\ Mounts(p) \in View
           /\ Mounts(p).shown = p.shown /\ Mounts(p).body = draft
           /\ Mounts(p).timer = IF Mounts(p).replyOpen THEN <<draft>> ELSE <<>>
<1> DEFINE q == [p EXCEPT !.mounted = TRUE, !.body = draft,
                          !.replyOpen = IF draft = NoText THEN @ ELSE TRUE]
<1>1. q \in View /\ q.shown = p.shown /\ q.mounted /\ q.body = draft
  BY DEF View
<1>2. Mounts(p) = Timed(q)
  BY DEF Mounts
<1> HIDE DEF q
<1> QED BY <1>1, <1>2, TimedKeepsView

LEMMA UnmountsAll ==
    ASSUME NEW p \in View
    PROVE  /\ Unmounts(p) \in View
           /\ Unmounts(p).shown = p.shown /\ ~Unmounts(p).mounted
           /\ Unmounts(p).body = NoText /\ Unmounts(p).timer = <<>>
<1>1. <<>> \in Seq(Nat) /\ NoText \in Nat
  BY DEF NoText
<1> QED BY <1>1 DEF Unmounts, View

(* A page that is rendered keeps its reply, or takes it up from the draft,  *)
(* or loses it with the composer.                                           *)
LEMMA RendersFit ==
    ASSUME PInv, NEW p \in View, Stood(p.shown), p.body = view.body, p.timer = view.timer,
           p.mounted = view.mounted, p.replyOpen = view.replyOpen,
           Renders(p), UNCHANGED <<record, draft, saves>>, gets' \subseteq gets
    PROVE  PInv'
<1> DEFINE goes == view.mounted /\ ~Rendered(p).mounted
<1> USE DEF PInv
<1>1. /\ view' = Rendered(p)
      /\ sends' = IF goes THEN {Demoted(r) : r \in sends} ELSE sends
      /\ rail' = IF view.shown = NotShown THEN [FreshRail EXCEPT !.owner = p.shown.owner] ELSE rail
      /\ noted' = [noted EXCEPT !.left = @ \/ (goes /\ sends # {})]
  BY DEF Renders
<1> HIDE DEF goes
<1>2. /\ noted'.texts = noted.texts /\ noted'.confirmed = noted.confirmed
      /\ noted'.blind = noted.blind
      /\ noted'.left = (noted.left \/ (goes /\ sends # {}))
      /\ noted' \in Noted
  BY <1>1 DEF PageTyped, Noted
<1>3. /\ view' \in View /\ view'.shown = p.shown
      /\ \/ /\ view'.body = draft
            /\ view'.timer = IF view'.replyOpen THEN <<draft>> ELSE <<>>
         \/ view'.body = NoText /\ view'.timer = <<>> /\ ~view'.mounted
         \/ /\ view'.body = view.body /\ view'.timer = view.timer
            /\ view'.mounted = view.mounted /\ view'.replyOpen = view.replyOpen
  <2>1. CASE CanAct(p) /\ ~p.mounted
    BY <1>1, <2>1, MountsFresh DEF Rendered, PageTyped
  <2>2. CASE ~CanAct(p) /\ p.mounted
    BY <1>1, <2>2, UnmountsAll DEF Rendered
  <2>3. CASE ~(CanAct(p) /\ ~p.mounted) /\ ~(~CanAct(p) /\ p.mounted)
    <3>1. view' = p
      BY <1>1, <2>3 DEF Rendered
    <3> QED BY <3>1
  <2> QED BY <2>1, <2>2, <2>3
<1>4. PageTyped'
  <2>1. rail' \in [owner : Owners, status : {NoChoice, "working", "closed"}]
    BY <1>1 DEF PageTyped, FreshRail, Row, View, Owners
  <2> QED BY <1>2, <1>3, <2>1 DEF PageTyped
<1>5. RowsStood'
  BY <1>3 DEF RowsStood, Stood
<1>6. SavesFit'
  BY <1>2 DEF SavesFit, SaveFits, Stood
<1>7. TextsKnown'
  BY <1>2, <1>3 DEF TextsKnown, PageTyped, Noted, NoText
<1>8. SendsFit'
  <2> SUFFICES ASSUME NEW r \in sends'
               PROVE  /\ r = [n |-> r.n, body |-> r.body, for |-> r.for, at |-> r.at]
                      /\ r.body \in 1 .. noted.texts
                      /\ r.for # "composer" => noted'.left
    BY <1>2 DEF SendsFit
  <2>1. CASE ~goes
    BY <1>1, <1>2, <2>1 DEF SendsFit
  <2>2. CASE goes
    <3>1. PICK q \in sends : r = Demoted(q)
      BY <1>1, <2>2
    <3>2. /\ q = [n |-> q.n, body |-> q.body, for |-> q.for, at |-> q.at]
          /\ q.body \in 1 .. noted.texts
      BY DEF SendsFit
    <3>3. /\ r = [n |-> r.n, body |-> r.body, for |-> r.for, at |-> r.at]
          /\ r.body = q.body
      BY <3>1, <3>2 DEF Demoted
    <3> QED BY <1>2, <2>2, <3>2, <3>3
  <2> QED BY <2>1, <2>2
<1>9. TimerFits'
  BY <1>3 DEF TimerFits
<1>10. RestedDraftIsStored'
  BY <1>2, <1>3 DEF RestedDraftIsStored, Writing, PageTyped
<1>11. SentIsGone'
  <2>1. NoText \notin noted.confirmed
    BY DEF TextsKnown, NoText, PageTyped, Noted
  <2> SUFFICES ASSUME ~noted.left
               PROVE  /\ view'.body \notin noted.confirmed /\ draft \notin noted.confirmed
                      /\ view'.timer # <<>> => view'.timer[1] \notin noted.confirmed
    BY <1>2 DEF SentIsGone, PageTyped
  <2> QED BY <1>3, <2>1 DEF SentIsGone
<1> QED BY <1>4, <1>5, <1>6, <1>7, <1>8, <1>9, <1>10, <1>11

(* What the steps of a reply leave alone.                                   *)
LEMMA ReplyStepFits ==
    ASSUME PInv, UNCHANGED <<record, rail, saves>>,
           view' \in View, view'.shown = view.shown, draft' \in Nat,
           noted' \in Noted, noted'.texts >= noted.texts, noted'.blind = noted.blind,
           noted'.left = noted.left,
           \A g \in gets' : g \in gets \/ g = [n |-> g.n, row |-> NotShown],
           \A r \in sends' :
               \/ \E q \in sends : r = [n |-> q.n, body |-> q.body, for |-> q.for, at |-> r.at]
               \/ r = [n |-> r.n, body |-> view.body, for |-> "composer", at |-> r.at]
                  /\ view.body # NoText
    PROVE  PageTyped' /\ RowsStood' /\ SavesFit' /\ SendsFit'
<1> USE DEF PInv
<1>1. PageTyped'
  BY DEF PageTyped
<1>2. RowsStood'
  <2>1. NotShown \in Row /\ Stood(NotShown)
    BY DEF NotShown, Row, Owners, Stood, PageTyped
  <2> SUFFICES ASSUME NEW g \in gets'
               PROVE  g = [n |-> g.n, row |-> g.row] /\ g.row \in Row /\ Stood(g.row)
    BY DEF RowsStood, Stood
  <2>2. CASE g \in gets
    BY <2>2 DEF RowsStood
  <2>3. CASE g = [n |-> g.n, row |-> NotShown]
    <3>1. g.row = NotShown
      BY <2>3
    <3> QED BY <2>1, <2>3, <3>1
  <2> QED BY <2>2, <2>3
<1>3. SavesFit'
  BY DEF SavesFit, SaveFits, Stood
<1>4. SendsFit'
  <2> SUFFICES ASSUME NEW r \in sends'
               PROVE  /\ r = [n |-> r.n, body |-> r.body, for |-> r.for, at |-> r.at]
                      /\ r.body \in 1 .. noted'.texts
                      /\ r.for # "composer" => noted'.left
    BY DEF SendsFit
  <2>1. ASSUME NEW q \in sends, r = [n |-> q.n, body |-> q.body, for |-> q.for, at |-> r.at]
        PROVE  /\ r = [n |-> r.n, body |-> r.body, for |-> r.for, at |-> r.at]
               /\ r.body \in 1 .. noted'.texts
               /\ r.for # "composer" => noted'.left
    <3>1. r.body = q.body /\ r.for = q.for /\ r.n = q.n
      BY <2>1
    <3>2. q.body \in 1 .. noted.texts /\ (q.for # "composer" => noted.left)
      BY DEF SendsFit
    <3>3. q.body \in 1 .. noted'.texts
      BY <3>2 DEF PageTyped, Noted
    <3> QED BY <2>1, <3>1, <3>2, <3>3
  <2>2. ASSUME r = [n |-> r.n, body |-> view.body, for |-> "composer", at |-> r.at],
               view.body # NoText
        PROVE  /\ r = [n |-> r.n, body |-> r.body, for |-> r.for, at |-> r.at]
               /\ r.body \in 1 .. noted'.texts
               /\ r.for # "composer" => noted'.left
    <3>1. r.body = view.body /\ r.for = "composer"
      BY <2>2
    <3>2. view.body \in 1 .. noted'.texts
      BY <2>2 DEF PageTyped, View, Noted, NoText, TextsKnown
    <3> QED BY <2>2, <3>1, <3>2
  <2> QED BY <2>1, <2>2
<1> QED BY <1>1, <1>2, <1>3, <1>4

(* A change of the composer, or none, that takes a text never sent before   *)
(* or empties it.                                                           *)
LEMMA WritingFits ==
    ASSUME PInv, UNCHANGED <<record, rail, gets, draft, sends, saves>>,
           NEW p \in View, view' = Timed(p), p.shown = view.shown,
           \/ noted' = noted /\ p.body \in {view.body, NoText}
           \/ noted' = [noted EXCEPT !.texts = @ + 1] /\ p.body = FreshText
    PROVE  PInv'
<1> USE DEF PInv
<1>1. /\ view' \in View /\ view'.shown = view.shown
      /\ view'.mounted = p.mounted /\ view'.replyOpen = p.replyOpen /\ view'.body = p.body
      /\ view'.timer = IF p.mounted /\ p.replyOpen THEN <<p.body>> ELSE <<>>
  BY TimedKeepsView
<1>2. /\ noted' \in Noted /\ noted'.blind = noted.blind /\ noted'.left = noted.left
      /\ noted'.confirmed = noted.confirmed
      /\ noted'.texts >= noted.texts /\ p.body <= noted'.texts /\ p.body \in Nat
      /\ p.body = view.body \/ p.body \notin noted.confirmed
  <2>1. /\ noted \in Noted /\ noted.texts \in Nat /\ view.body \in Nat
        /\ view.body <= noted.texts /\ noted.confirmed \subseteq 1 .. noted.texts
    BY DEF PageTyped, TextsKnown, Noted, View
  <2>2. CASE noted' = noted /\ p.body \in {view.body, NoText}
    BY <2>1, <2>2 DEF NoText
  <2>3. CASE noted' = [noted EXCEPT !.texts = @ + 1] /\ p.body = FreshText
    <3>1. /\ noted' \in Noted /\ noted'.blind = noted.blind /\ noted'.left = noted.left
          /\ noted'.confirmed = noted.confirmed /\ noted'.texts = noted.texts + 1
      BY <2>1, <2>3 DEF Noted
    <3> QED BY <2>1, <2>3, <3>1 DEF FreshText
  <2> QED BY <2>2, <2>3
<1>3. PageTyped' /\ RowsStood' /\ SavesFit' /\ SendsFit'
  <2>1. \A g \in gets' : g \in gets \/ g = [n |-> g.n, row |-> NotShown]
    OBVIOUS
  <2>2. \A r \in sends' :
          \E q \in sends : r = [n |-> q.n, body |-> q.body, for |-> q.for, at |-> r.at]
    BY DEF SendsFit
  <2>3. draft' \in Nat
    BY DEF PageTyped
  <2> QED BY <1>1, <1>2, <2>1, <2>2, <2>3, ReplyStepFits
<1>4. TextsKnown'
  BY <1>1, <1>2 DEF TextsKnown, PageTyped, Noted
<1>5. TimerFits'
  BY <1>1 DEF TimerFits
<1>6. RestedDraftIsStored'
  <2>1. view'.mounted /\ view'.replyOpen => view'.timer = <<p.body>> /\ <<p.body>> # <<>>
    BY <1>1
  <2> QED BY <2>1 DEF RestedDraftIsStored, Writing
<1>7. SentIsGone'
  BY <1>1, <1>2 DEF SentIsGone
<1> QED BY <1>3, <1>4, <1>5, <1>6, <1>7

LEMMA ReplyIsWritten ==
    ASSUME PInv, OpensReply \/ TypesReply \/ PicksTemplate \/ TemplateArrives
    PROVE  PInv'
<1> USE DEF PInv
<1>1. /\ view \in View
      /\ FreshText \in Nat /\ NoText \in Nat
  BY DEF PageTyped, Noted, FreshText, NoText
<1>2. CASE OpensReply
  <2> DEFINE p == [view EXCEPT !.replyOpen = TRUE]
  <2>1. p \in View /\ p.shown = view.shown /\ p.body = view.body
    BY <1>1 DEF View
  <2>2. view' = Timed(p) /\ noted' = noted
    BY <1>2 DEF OpensReply
  <2> HIDE DEF p
  <2> QED BY <1>2, <2>1, <2>2, WritingFits DEF OpensReply
<1>3. ASSUME noted' = [noted EXCEPT !.texts = @ + 1],
             view' = Timed([view EXCEPT !.body = FreshText])
             \/ view' = Timed([view EXCEPT !.template = FALSE, !.body = FreshText]),
             UNCHANGED <<record, rail, gets, draft, sends, saves>>
      PROVE  PInv'
  <2>1. PICK p \in View : view' = Timed(p) /\ p.shown = view.shown /\ p.body = FreshText
    <3>1. /\ [view EXCEPT !.body = FreshText] \in View
          /\ [view EXCEPT !.body = FreshText].shown = view.shown
          /\ [view EXCEPT !.body = FreshText].body = FreshText
      BY <1>1 DEF View
    <3>2. /\ [view EXCEPT !.template = FALSE, !.body = FreshText] \in View
          /\ [view EXCEPT !.template = FALSE, !.body = FreshText].shown = view.shown
          /\ [view EXCEPT !.template = FALSE, !.body = FreshText].body = FreshText
      BY <1>1 DEF View
    <3> QED BY <1>3, <3>1, <3>2
  <2> QED BY <1>3, <2>1, WritingFits
<1>4. ASSUME view' = Timed([view EXCEPT !.body = NoText]), noted' = noted,
             UNCHANGED <<record, rail, gets, draft, sends, saves>>
      PROVE  PInv'
  <2> DEFINE p == [view EXCEPT !.body = NoText]
  <2>1. p \in View /\ p.shown = view.shown /\ p.body = NoText
    BY <1>1 DEF View
  <2>2. view' = Timed(p)
    BY <1>4
  <2> HIDE DEF p
  <2> QED BY <1>4, <2>1, <2>2, WritingFits
<1>5. ASSUME NEW t \in BOOLEAN, view' = [view EXCEPT !.template = t],
             UNCHANGED <<record, rail, gets, draft, sends, saves, noted>>
      PROVE  PInv'
  <2>1. /\ view' \in View /\ view'.shown = view.shown /\ view'.body = view.body
        /\ view'.mounted = view.mounted /\ view'.replyOpen = view.replyOpen
        /\ view'.timer = view.timer
    BY <1>1, <1>5 DEF View
  <2>2. PageTyped' /\ RowsStood' /\ SavesFit' /\ SendsFit'
    BY <1>5, <2>1 DEF PageTyped, RowsStood, Stood, SavesFit, SaveFits, SendsFit
  <2>3. TextsKnown' /\ TimerFits' /\ RestedDraftIsStored' /\ SentIsGone'
    BY <1>5, <2>1 DEF TextsKnown, TimerFits, RestedDraftIsStored, SentIsGone, Writing
  <2> QED BY <2>2, <2>3
<1>6. CASE TypesReply
  BY <1>3, <1>4, <1>6 DEF TypesReply
<1>7. CASE PicksTemplate
  BY <1>5, <1>7 DEF PicksTemplate
<1>8. CASE TemplateArrives
  BY <1>3, <1>5, <1>8 DEF TemplateArrives
<1> QED BY <1>2, <1>6, <1>7, <1>8

LEMMA EmptiedKeepsView ==
    ASSUME NEW p \in View
    PROVE  /\ Emptied(p) \in View
           /\ Emptied(p).shown = p.shown /\ Emptied(p).body = NoText
           /\ ~Emptied(p).replyOpen /\ Emptied(p).timer = <<>>
<1> DEFINE q == [p EXCEPT !.body = NoText, !.replyOpen = FALSE]
<1>1. q \in View /\ q.shown = p.shown /\ q.body = NoText /\ ~q.replyOpen
  BY DEF View, NoText
<1>2. Emptied(p) = Timed(q)
  BY DEF Emptied
<1> HIDE DEF q
<1>3. /\ Timed(q) \in View /\ Timed(q).shown = q.shown /\ Timed(q).body = q.body
      /\ Timed(q).replyOpen = q.replyOpen
      /\ Timed(q).timer = IF q.mounted /\ q.replyOpen THEN <<q.body>> ELSE <<>>
  BY <1>1, TimedKeepsView
<1>4. Timed(q).timer = <<>>
  BY <1>1, <1>3
<1>5. ~Timed(q).replyOpen
  BY <1>1, <1>3
<1> QED BY <1>1, <1>2, <1>3, <1>4, <1>5

LEMMA DraftsFit ==
    ASSUME PInv, TimerFires \/ Discards
    PROVE  PInv'
<1> USE DEF PInv
<1>1. view \in View
  BY DEF PageTyped
<1>2. /\ \A g \in gets' : g \in gets \/ g = [n |-> g.n, row |-> NotShown]
      /\ \A r \in sends' :
            \E q \in sends : r = [n |-> q.n, body |-> q.body, for |-> q.for, at |-> r.at]
  BY DEF SendsFit, TimerFires, Discards
<1>3. UNCHANGED <<record, rail, saves, noted>> /\ noted \in Noted /\ noted.texts \in Nat
  BY DEF TimerFires, Discards, PageTyped, Noted
<1>4. CASE TimerFires
  <2>1. view.timer = <<view.body>> /\ view.timer[1] = view.body
    BY <1>4 DEF TimerFires, TimerFits
  <2>2. /\ view' \in View /\ view'.shown = view.shown /\ view'.body = view.body
        /\ view'.mounted = view.mounted /\ view'.replyOpen = view.replyOpen
        /\ view'.timer = <<>>
    <3>1. <<>> \in Seq(Nat)
      OBVIOUS
    <3> QED BY <1>1, <1>4, <3>1 DEF TimerFires, View
  <2>3. draft' = view.body
    BY <1>4, <2>1 DEF TimerFires, KeptDraft
  <2>4. PageTyped' /\ RowsStood' /\ SavesFit' /\ SendsFit'
    <3>1. draft' \in Nat
      BY <2>3, <1>1 DEF View
    <3> QED BY <1>2, <1>3, <2>2, <3>1, ReplyStepFits
  <2>5. TextsKnown' /\ TimerFits' /\ RestedDraftIsStored' /\ SentIsGone'
    BY <1>3, <2>2, <2>3 DEF TextsKnown, TimerFits, RestedDraftIsStored, SentIsGone, Writing
  <2> QED BY <2>4, <2>5
<1>5. CASE Discards
  <2>1. /\ view' \in View /\ view'.shown = view.shown /\ view'.body = NoText
        /\ ~view'.replyOpen /\ view'.timer = <<>>
    BY <1>1, <1>5, EmptiedKeepsView DEF Discards
  <2>2. draft' = NoText
    BY <1>5 DEF Discards
  <2>3. PageTyped' /\ RowsStood' /\ SavesFit' /\ SendsFit'
    <3>1. draft' \in Nat
      BY <2>2 DEF NoText
    <3> QED BY <1>2, <1>3, <2>1, <3>1, ReplyStepFits
  <2>4. TextsKnown'
    BY <1>3, <2>1, <2>2 DEF TextsKnown, NoText
  <2>5. TimerFits' /\ RestedDraftIsStored'
    BY <2>1 DEF TimerFits, RestedDraftIsStored, Writing
  <2>6. SentIsGone'
    <3>1. NoText \notin noted.confirmed
      BY <1>3 DEF TextsKnown, NoText
    <3> QED BY <1>3, <2>1, <2>2, <3>1 DEF SentIsGone
  <2> QED BY <2>3, <2>4, <2>5, <2>6
<1> QED BY <1>4, <1>5

LEMMA SendingFits ==
    ASSUME PInv, PressesSend \/ \E r \in sends : SendIsTaken(r)
    PROVE  PInv'
<1> USE DEF PInv
<1>1. UNCHANGED <<record, view, rail, gets, draft, saves, noted>>
  BY DEF PressesSend, SendIsTaken
<1>2. \A r \in sends' :
         \/ \E q \in sends : r = [n |-> q.n, body |-> q.body, for |-> q.for, at |-> r.at]
         \/ r = [n |-> r.n, body |-> view.body, for |-> "composer", at |-> r.at]
            /\ view.body # NoText
  <2> SUFFICES ASSUME NEW r \in sends'
               PROVE  \/ \E q \in sends :
                             r = [n |-> q.n, body |-> q.body, for |-> q.for, at |-> r.at]
                      \/ r = [n |-> r.n, body |-> view.body, for |-> "composer", at |-> r.at]
                         /\ view.body # NoText
    OBVIOUS
  <2>1. CASE r \in sends
    BY <2>1 DEF SendsFit
  <2>2. CASE PressesSend /\ r \notin sends
    BY <2>2 DEF PressesSend
  <2>3. ASSUME NEW s \in sends, SendIsTaken(s), r \notin sends
        PROVE  \E q \in sends : r = [n |-> q.n, body |-> q.body, for |-> q.for, at |-> r.at]
    <3>1. r = [s EXCEPT !.at = "taken"]
      BY <2>3 DEF SendIsTaken
    <3>2. s = [n |-> s.n, body |-> s.body, for |-> s.for, at |-> s.at]
      BY DEF SendsFit
    <3> QED BY <3>1, <3>2
  <2> QED BY <2>1, <2>2, <2>3
<1>3. PageTyped' /\ RowsStood' /\ SavesFit' /\ SendsFit'
  <2>1. /\ view' \in View /\ view'.shown = view.shown /\ draft' \in Nat
        /\ noted' \in Noted /\ noted'.texts >= noted.texts
    BY <1>1 DEF PageTyped, Noted
  <2>2. \A g \in gets' : g \in gets \/ g = [n |-> g.n, row |-> NotShown]
    BY <1>1
  <2> QED BY <1>1, <1>2, <2>1, <2>2, ReplyStepFits
<1>4. TextsKnown' /\ TimerFits' /\ RestedDraftIsStored' /\ SentIsGone'
  BY <1>1 DEF TextsKnown, TimerFits, RestedDraftIsStored, SentIsGone, Writing
<1> QED BY <1>3, <1>4

(* A reply answered to the composer that sent it empties it; any other was  *)
(* left on its way.                                                         *)
LEMMA AnswersFit ==
    ASSUME PInv, NEW r \in sends, SendIsAnswered(r)
    PROVE  PInv'
<1> USE DEF PInv
<1>1. /\ UNCHANGED <<record, rail, saves>> /\ sends' = sends \ {r}
      /\ view \in View /\ noted \in Noted /\ noted.texts \in Nat /\ NoText \in Nat
      /\ r.body \in 1 .. noted.texts /\ (r.for # "composer" => noted.left)
  BY DEF SendIsAnswered, PageTyped, Noted, SendsFit, NoText
<1>2. \A q \in sends' :
         \E x \in sends : q = [n |-> x.n, body |-> x.body, for |-> x.for, at |-> q.at]
  BY <1>1 DEF SendsFit
<1>3. CASE UNCHANGED <<view, gets, draft, noted>>
  <2>1. PageTyped' /\ RowsStood' /\ SavesFit' /\ SendsFit'
    <3>1. \A g \in gets' : g \in gets \/ g = [n |-> g.n, row |-> NotShown]
      BY <1>3
    <3>2. draft' \in Nat
      BY <1>3 DEF PageTyped
    <3> QED BY <1>1, <1>2, <1>3, <3>1, <3>2, ReplyStepFits
  <2>2. TextsKnown' /\ TimerFits' /\ RestedDraftIsStored' /\ SentIsGone'
    BY <1>3 DEF TextsKnown, TimerFits, RestedDraftIsStored, SentIsGone, Writing
  <2> QED BY <2>1, <2>2
<1>4. CASE /\ draft' = NoText
           /\ view' = CASE r.for = "composer" -> Emptied(view)
                        [] r.for = "page" -> Timed([view EXCEPT !.replyOpen = FALSE])
                        [] OTHER -> view
           /\ IF r.for = "nobody" THEN UNCHANGED gets ELSE Asks
           /\ noted' = [noted EXCEPT !.confirmed = @ \cup {r.body}]
  <2>1. /\ noted' \in Noted /\ noted'.texts = noted.texts /\ noted'.blind = noted.blind
        /\ noted'.left = noted.left /\ noted'.confirmed = noted.confirmed \cup {r.body}
    <3>1. r.body \in Nat
      BY <1>1
    <3> QED BY <1>1, <1>4, <3>1 DEF Noted
  <2>2. /\ view' \in View /\ view'.shown = view.shown
        /\ view'.body \in {view.body, NoText}
        /\ view'.timer # <<>> => view'.timer = <<view'.body>>
        /\ r.for = "composer" =>
             view'.body = NoText /\ ~view'.replyOpen /\ view'.timer = <<>>
    <3>1. CASE r.for = "composer"
      <4>1. view' = Emptied(view)
        BY <1>4, <3>1
      <4> QED BY <1>1, <4>1, EmptiedKeepsView
    <3>2. CASE r.for = "page"
      <4> DEFINE q == [view EXCEPT !.replyOpen = FALSE]
      <4>1. q \in View /\ q.shown = view.shown /\ q.body = view.body /\ ~q.replyOpen
        BY <1>1 DEF View
      <4>2. view' = Timed(q)
        BY <1>4, <3>2
      <4> HIDE DEF q
      <4> QED BY <3>2, <4>1, <4>2, TimedKeepsView
    <3>3. CASE r.for # "composer" /\ r.for # "page"
      <4>1. view' = view
        BY <1>4, <3>3
      <4> QED BY <1>1, <3>3, <4>1 DEF TimerFits
    <3> QED BY <3>1, <3>2, <3>3
  <2>3. PageTyped' /\ RowsStood' /\ SavesFit' /\ SendsFit'
    <3>1. \A g \in gets' : g \in gets \/ g = [n |-> g.n, row |-> NotShown]
      BY <1>4 DEF Asks
    <3>2. draft' \in Nat /\ noted'.texts >= noted.texts
      BY <1>1, <1>4, <2>1
    <3> QED BY <1>1, <1>2, <2>1, <2>2, <3>1, <3>2, ReplyStepFits
  <2>4. TextsKnown'
    <3>1. view.body <= noted.texts /\ NoText <= noted.texts
      BY <1>1 DEF TextsKnown, NoText
    <3> QED BY <1>1, <1>4, <2>1, <2>2, <3>1 DEF TextsKnown
  <2>5. TimerFits'
    BY <2>2 DEF TimerFits
  <2>6. RestedDraftIsStored' /\ SentIsGone'
    <3>1. CASE noted.left
      BY <2>1, <3>1 DEF RestedDraftIsStored, SentIsGone
    <3>2. CASE ~noted.left
      <4>1. r.for = "composer" /\ NoText \notin noted'.confirmed
        BY <1>1, <2>1, <3>2 DEF TextsKnown, NoText
      <4> QED BY <1>4, <2>2, <4>1 DEF RestedDraftIsStored, SentIsGone, Writing
    <3> QED BY <3>1, <3>2
  <2> QED BY <2>3, <2>4, <2>5, <2>6
<1> QED BY <1>3, <1>4 DEF SendIsAnswered

LEMMA LoadsFit ==
    ASSUME PInv, NEW g \in gets, GetIsRead(g) \/ GetArrives(g) \/ GetFails(g)
    PROVE  PInv'
<1> USE DEF PInv
<1>1. /\ view \in View /\ record \in Row /\ record.rev >= 1 /\ record.rev \in Nat
      /\ g = [n |-> g.n, row |-> g.row] /\ g.row \in Row /\ Stood(g.row) /\ Stood(view.shown)
  BY DEF PageTyped, RowsStood, Row
<1>2. CASE GetIsRead(g)
  <2>1. UNCHANGED <<record, view, rail, draft, sends, saves, noted>>
    BY <1>2 DEF GetIsRead
  <2>2. RowsStood'
    <3>1. Stood(record)
      BY <1>1 DEF Stood
    <3>2. \A h \in gets' : h \in gets \/ h = [n |-> g.n, row |-> record]
      BY <1>1, <1>2 DEF GetIsRead
    <3> SUFFICES ASSUME NEW h \in gets'
                 PROVE  h = [n |-> h.n, row |-> h.row] /\ h.row \in Row /\ Stood(h.row)
      BY <2>1 DEF RowsStood, Stood
    <3>3. CASE h \in gets
      BY <3>3 DEF RowsStood
    <3>4. CASE h = [n |-> g.n, row |-> record]
      <4>1. h.row = record /\ h.n = g.n
        BY <3>4
      <4> QED BY <1>1, <3>1, <3>4, <4>1
    <3> QED BY <3>2, <3>3, <3>4
  <2>3. PageTyped' /\ SavesFit' /\ TextsKnown' /\ SendsFit'
    BY <2>1 DEF PageTyped, SavesFit, SaveFits, Stood, TextsKnown, SendsFit
  <2>4. TimerFits' /\ RestedDraftIsStored' /\ SentIsGone'
    BY <2>1 DEF TimerFits, RestedDraftIsStored, SentIsGone, Writing
  <2> QED BY <2>2, <2>3, <2>4
<1>3. CASE GetArrives(g)
  <2> DEFINE p == [view EXCEPT !.shown = g.row]
  <2>1. /\ p \in View /\ p.shown = g.row /\ p.body = view.body /\ p.timer = view.timer
        /\ p.mounted = view.mounted /\ p.replyOpen = view.replyOpen
    BY <1>1 DEF View
  <2>2. Renders(p) /\ UNCHANGED <<record, draft, saves>> /\ gets' \subseteq gets
    BY <1>3 DEF GetArrives
  <2> HIDE DEF p
  <2> QED BY <1>1, <2>1, <2>2, RendersFit
<1>4. CASE GetFails(g)
  <2> DEFINE p == [view EXCEPT !.failed = TRUE]
  <2>1. /\ p \in View /\ p.shown = view.shown /\ p.body = view.body /\ p.timer = view.timer
        /\ p.mounted = view.mounted /\ p.replyOpen = view.replyOpen
    BY <1>1 DEF View
  <2>2. Renders(p) /\ UNCHANGED <<record, draft, saves>> /\ gets' \subseteq gets
    BY <1>4 DEF GetFails
  <2> HIDE DEF p
  <2> QED BY <1>1, <2>1, <2>2, RendersFit
<1> QED BY <1>2, <1>3, <1>4

LEMMA FreshPageFits ==
    /\ FreshPage \in View /\ FreshPage.shown = NotShown /\ FreshPage.body = NoText
    /\ ~FreshPage.mounted /\ FreshPage.timer = <<>>
    /\ FreshRail \in [owner : Owners, status : {NoChoice, "working", "closed"}]
<1>1. NotShown \in Row /\ <<>> \in Seq(Nat) /\ NoText \in Nat
  BY DEF NotShown, Row, Owners, NoText
<1> HIDE DEF NotShown
<1>2. /\ FreshPage \in View /\ FreshPage.shown = NotShown /\ FreshPage.body = NoText
      /\ ~FreshPage.mounted /\ FreshPage.timer = <<>>
  BY <1>1 DEF FreshPage, View
<1>3. FreshRail \in [owner : Owners, status : {NoChoice, "working", "closed"}]
  BY DEF FreshRail, Owners
<1> QED BY <1>2, <1>3

LEMMA VisitsFit ==
    ASSUME PInv, Visits
    PROVE  PInv'
<1> USE DEF PInv
<1>1. /\ UNCHANGED <<record, draft>>
      /\ view' = FreshPage /\ rail' = FreshRail
      /\ noted' \in Noted /\ noted'.texts = noted.texts /\ noted'.confirmed = noted.confirmed
      /\ noted'.blind = noted.blind /\ noted'.left = (noted.left \/ sends # {})
  <2>1. noted \in Noted /\ UNCHANGED <<record, draft>> /\ view' = FreshPage /\ rail' = FreshRail
    BY DEF Visits, PageTyped
  <2> DEFINE l == noted.left \/ sends # {}
  <2>2. noted' = [noted EXCEPT !.turns = @ + 1, !.left = l]
    BY DEF Visits
  <2> DEFINE n == noted.turns + 1
  <2>3. l \in BOOLEAN /\ n \in Nat
    BY <2>1 DEF Noted
  <2>4. noted' = [noted EXCEPT !.turns = n, !.left = l]
    BY <2>2
  <2> HIDE DEF l, n
  <2>5. /\ noted' \in Noted /\ noted'.texts = noted.texts /\ noted'.confirmed = noted.confirmed
        /\ noted'.blind = noted.blind /\ noted'.left = l
    BY <2>1, <2>3, <2>4 DEF Noted
  <2> QED BY <2>1, <2>5 DEF l
<1>2. noted.texts \in Nat /\ draft \in Nat /\ record.rev \in Nat /\ record.rev >= 1
  BY DEF PageTyped, Noted, Row
<1>3. PageTyped'
  BY <1>1, FreshPageFits DEF PageTyped
<1>4. RowsStood'
  <2>1. NotShown \in Row /\ Stood(NotShown)
    BY <1>2 DEF NotShown, Row, Owners, Stood
  <2>2. gets' = {[n |-> 1, row |-> NotShown]}
    BY DEF Visits
  <2> QED BY <1>1, <2>1, <2>2, FreshPageFits DEF RowsStood, Stood
<1>5. SavesFit'
  <2> SUFFICES ASSUME NEW s \in saves'
               PROVE  SaveFits(s)'
    BY <1>1 DEF SavesFit
  <2>1. PICK t \in saves : s = [t EXCEPT !.for = "nobody"]
    BY DEF Visits
  <2>2. SaveFits(t)
    BY DEF SavesFit
  <2>3. /\ s = [n |-> t.n, at |-> t.at, owner |-> t.owner, status |-> t.status,
                saw |-> t.saw, seen |-> t.seen, read |-> t.read, for |-> "nobody"]
    BY <2>1, <2>2 DEF SaveFits
  <2> QED BY <1>1, <2>2, <2>3 DEF SaveFits, Stood
<1>6. SendsFit'
  <2> SUFFICES ASSUME NEW r \in sends'
               PROVE  /\ r = [n |-> r.n, body |-> r.body, for |-> r.for, at |-> r.at]
                      /\ r.body \in 1 .. noted.texts
                      /\ noted'.left
    BY <1>1 DEF SendsFit
  <2>1. PICK q \in sends : r = [q EXCEPT !.for = "nobody"]
    BY DEF Visits
  <2>2. q = [n |-> q.n, body |-> q.body, for |-> q.for, at |-> q.at] /\ q.body \in 1 .. noted.texts
    BY DEF SendsFit
  <2>3. r = [n |-> q.n, body |-> q.body, for |-> "nobody", at |-> q.at]
    BY <2>1, <2>2
  <2> QED BY <1>1, <2>2, <2>3
<1>7. TextsKnown'
  BY <1>1, <1>2, FreshPageFits DEF TextsKnown, NoText
<1>8. TimerFits' /\ RestedDraftIsStored'
  BY <1>1, FreshPageFits DEF TimerFits, RestedDraftIsStored, Writing
<1>9. SentIsGone'
  <2>1. NoText \notin noted.confirmed
    BY <1>2 DEF TextsKnown, NoText
  <2> QED BY <1>1, <2>1, FreshPageFits DEF SentIsGone
<1> QED BY <1>3, <1>4, <1>5, <1>6, <1>7, <1>8, <1>9

LEMMA PageBegins ==
    ASSUME CasePageInit
    PROVE  PInv
<1>1. /\ record \in Row /\ record.rev = 1
  <2>1. (CHOOSE o \in Owner : TRUE) \in Owner
    BY CasePageAssumption
  <2> QED BY <2>1 DEF CasePageInit, Row, Owners
<1>2. /\ view = FreshPage /\ rail = FreshRail /\ draft = NoText /\ sends = {} /\ saves = {}
      /\ gets = {[n |-> 1, row |-> NotShown]}
      /\ noted \in Noted /\ noted.texts = 0 /\ noted.confirmed = {}
      /\ ~noted.blind /\ ~noted.left
  BY DEF CasePageInit, Noted
<1>3. PageTyped
  BY <1>1, <1>2, FreshPageFits DEF PageTyped, NoText
<1>4. RowsStood
  <2>1. NotShown \in Row /\ Stood(NotShown)
    BY <1>1 DEF NotShown, Row, Owners, Stood
  <2> QED BY <1>2, <2>1, FreshPageFits DEF RowsStood
<1>5. SavesFit /\ SendsFit
  BY <1>2 DEF SavesFit, SendsFit
<1>6. TextsKnown /\ TimerFits /\ RestedDraftIsStored /\ SentIsGone
  BY <1>2, FreshPageFits DEF TextsKnown, TimerFits, RestedDraftIsStored, SentIsGone, Writing, NoText
<1> QED BY <1>3, <1>4, <1>5, <1>6 DEF PInv

(* What the steps of the rail, and the commits of others, leave alone.      *)
LEMMA RailStepFits ==
    ASSUME PInv, UNCHANGED <<view, draft, sends>>,
           rail' \in [owner : Owners, status : {NoChoice, "working", "closed"}],
           record' \in Row,
           record' = record \/ record'.rev = record.rev + 1,
           \A g \in gets' : g \in gets \/ g = [n |-> g.n, row |-> NotShown],
           noted' \in Noted, noted'.texts = noted.texts, noted'.left = noted.left,
           noted'.confirmed = noted.confirmed, ~noted'.blind,
           \A s \in saves' : s \in saves \/ SaveFits(s)'
    PROVE  PInv'
<1> USE DEF PInv
<1>1. record \in Row /\ record.rev \in Nat /\ record.rev >= 1 /\ record'.rev \in Nat
      /\ record'.rev >= record.rev
  BY DEF PageTyped, Row
<1>2. ASSUME NEW row \in Row, Stood(row)
      PROVE  Stood(row)'
  <2>1. row.rev \in Nat
    BY DEF Row
  <2> QED BY <1>1, <1>2, <2>1 DEF Stood
<1>3. PageTyped'
  BY <1>1 DEF PageTyped
<1>4. RowsStood'
  <2>1. Stood(view.shown)'
    BY <1>2 DEF RowsStood, PageTyped, View, Stood
  <2>2. NotShown \in Row /\ Stood(NotShown)
    BY <1>1 DEF NotShown, Row, Owners, Stood
  <2>3. ASSUME NEW g \in gets'
        PROVE  g = [n |-> g.n, row |-> g.row] /\ g.row \in Row /\ Stood(g.row)'
    <3>1. CASE g \in gets
      BY <1>2, <3>1 DEF RowsStood
    <3>2. CASE g = [n |-> g.n, row |-> NotShown]
      <4>1. g.row = NotShown
        BY <3>2
      <4> QED BY <1>2, <2>2, <3>2, <4>1
    <3> QED BY <3>1, <3>2
  <2> QED BY <2>1, <2>3 DEF RowsStood, Stood
<1>5. SavesFit'
  <2> SUFFICES ASSUME NEW s \in saves
               PROVE  SaveFits(s)'
    BY DEF SavesFit
  <2>1. SaveFits(s)
    BY DEF SavesFit
  <2>2. CASE s.at \in {"assign", "assigning", "move"}
    <3>1. s.saw \in Row /\ Stood(s.saw)'
      BY <1>2, <2>1, <2>2 DEF SaveFits
    <3> QED BY <2>1, <3>1 DEF SaveFits, Stood
  <2>3. CASE s.at \notin {"assign", "assigning", "move"}
    BY <2>1, <2>3 DEF SaveFits
  <2> QED BY <2>2, <2>3
<1>6. TextsKnown' /\ SendsFit' /\ TimerFits'
  BY DEF TextsKnown, SendsFit, TimerFits
<1>7. RestedDraftIsStored' /\ SentIsGone'
  BY DEF RestedDraftIsStored, SentIsGone, Writing
<1> QED BY <1>3, <1>4, <1>5, <1>6, <1>7

LEMMA ColleaguesFit ==
    ASSUME PInv, NEW owners, NEW statuses, owners \subseteq Owners,
           statuses \subseteq {record.status, "working", "closed"},
           ColleagueActs(owners, statuses)
    PROVE  PInv'
<1> USE DEF PInv
<1>1. PICK o \in owners, s \in statuses :
         record' = [rev |-> record.rev + 1, owner |-> o, status |-> s]
  BY DEF ColleagueActs
<1>2. record' \in Row /\ record'.rev = record.rev + 1
  BY <1>1 DEF PageTyped, Row
<1>3. /\ noted' \in Noted /\ noted'.texts = noted.texts /\ noted'.left = noted.left
      /\ noted'.confirmed = noted.confirmed /\ ~noted'.blind
  BY DEF ColleagueActs, CountsAct, PageTyped, Noted, SavesFit
<1>4. UNCHANGED <<view, rail, gets, draft, sends, saves>>
  BY DEF ColleagueActs
<1>5. rail' \in [owner : Owners, status : {NoChoice, "working", "closed"}]
  BY <1>4 DEF PageTyped
<1> QED BY <1>2, <1>3, <1>4, <1>5, RailStepFits

LEMMA ChoosingFits ==
    ASSUME PInv, Chooses
    PROVE  PInv'
<1> USE DEF PInv
<1>1. UNCHANGED <<record, view, gets, draft, sends, saves, noted>>
  BY DEF Chooses
<1>2. rail' \in [owner : Owners, status : {NoChoice, "working", "closed"}]
  BY DEF Chooses, PageTyped, Owners
<1>3. record' \in Row /\ noted' \in Noted /\ ~noted'.blind
  BY <1>1 DEF PageTyped, SavesFit
<1> QED BY <1>1, <1>2, <1>3, RailStepFits

(* An update is pressed on a row that is shown, and says its revision.      *)
LEMMA PressingFits ==
    ASSUME PInv, PressesUpdate \/ PressesCard
    PROVE  PInv'
<1> USE DEF PInv
<1>1. /\ rail \in [owner : Owners, status : {NoChoice, "working", "closed"}]
      /\ view.shown \in Row /\ record \in Row /\ noted \in Noted /\ ~noted.blind
  BY DEF PageTyped, View, SavesFit
<1>2. ASSUME NEW save, Sent(save), SaveFits(save)
      PROVE  PInv'
  <2>1. UNCHANGED <<record, view, rail, gets, draft, sends>> /\ saves' = saves \cup {save}
    BY <1>2 DEF Sent
  <2>2. /\ noted' \in Noted /\ noted'.texts = noted.texts /\ noted'.left = noted.left
        /\ noted'.confirmed = noted.confirmed /\ ~noted'.blind
    BY <1>1, <1>2 DEF Sent, CountsAct, Noted
  <2>3. SaveFits(save)'
    BY <1>2, <2>1 DEF SaveFits, Stood
  <2> QED BY <1>1, <2>1, <2>2, <2>3, RailStepFits
<1>3. CASE PressesUpdate
  <2> DEFINE at == IF OwnerChanged THEN "assign" ELSE "move"
             owner == IF OwnerChanged THEN rail.owner ELSE Nobody
             status == IF StatusChanged THEN rail.status ELSE NoChoice
             save == [n |-> Unused(saves), at |-> at, owner |-> owner, status |-> status,
                      saw |-> view.shown, seen |-> SaysWhatItSaw, read |-> NotShown,
                      for |-> "page"]
  <2>1. Sent(save)
    BY <1>3 DEF PressesUpdate
  <2>2. CanAct(view)
    BY <2>1 DEF Sent
  <2>3. /\ Stood(view.shown) /\ view.shown # NotShown /\ view.shown.rev \in Nat
        /\ view.shown.rev # 0 /\ SaysWhatItSaw = view.shown.rev
    BY <1>1, <2>2 DEF CanAct, RowsStood, Stood, Row, SaysWhatItSaw
  <2>4. owner \in Owners /\ status \in {NoChoice, "working", "closed"}
    BY <1>1 DEF Owners
  <2>5. at = "move" => status # NoChoice
    BY <1>3 DEF PressesUpdate, StatusChanged
  <2>6. SaveFits(save)
    <3>1. /\ save.n = Unused(saves) /\ save.at = at /\ save.owner = owner
          /\ save.status = status /\ save.saw = view.shown /\ save.seen = SaysWhatItSaw
          /\ save.read = NotShown /\ save.for = "page"
      OBVIOUS
    <3>2. at = "assign" \/ at = "move"
      OBVIOUS
    <3> HIDE DEF at, owner, status
    <3> QED BY <1>1, <2>3, <2>4, <2>5, <3>1, <3>2 DEF SaveFits
  <2> HIDE DEF save
  <2> QED BY <1>2, <2>1, <2>6
<1>4. CASE PressesCard
  <2>1. PICK o \in Owner \cup {Nobody} :
           Sent([n |-> Unused(saves), at |-> "card", owner |-> o, status |-> NoChoice,
                 saw |-> view.shown, seen |-> 0, read |-> NotShown, for |-> "page"])
    BY <1>4 DEF PressesCard
  <2> DEFINE save == [n |-> Unused(saves), at |-> "card", owner |-> o, status |-> NoChoice,
                      saw |-> view.shown, seen |-> 0, read |-> NotShown, for |-> "page"]
  <2>2. SaveFits(save)
    BY DEF SaveFits, Owners
  <2>3. Sent(save)
    BY <2>1
  <2> HIDE DEF save
  <2> QED BY <1>2, <2>2, <2>3
<1> QED BY <1>3, <1>4

(* A row of the next revision.                                              *)
LEMMA RowsAdvance ==
    ASSUME NEW row \in Row, NEW o \in Owners, NEW x \in {"working", "closed"}
    PROVE  /\ [row EXCEPT !.owner = o, !.rev = @ + 1] \in Row
           /\ [row EXCEPT !.owner = o, !.rev = @ + 1].rev = row.rev + 1
           /\ [row EXCEPT !.status = x, !.rev = @ + 1] \in Row
           /\ [row EXCEPT !.status = x, !.rev = @ + 1].rev = row.rev + 1
<1> DEFINE n == row.rev + 1
<1>1. n \in Nat
  BY DEF Row
<1>2. /\ [row EXCEPT !.owner = o, !.rev = @ + 1] = [row EXCEPT !.owner = o, !.rev = n]
      /\ [row EXCEPT !.status = x, !.rev = @ + 1] = [row EXCEPT !.status = x, !.rev = n]
  OBVIOUS
<1> HIDE DEF n
<1>3. [row EXCEPT !.owner = o, !.rev = n] \in Row /\ [row EXCEPT !.owner = o, !.rev = n].rev = n
  BY <1>1 DEF Row
<1>4. [row EXCEPT !.status = x, !.rev = n] \in Row /\ [row EXCEPT !.status = x, !.rev = n].rev = n
  BY <1>1 DEF Row
<1> QED BY <1>2, <1>3, <1>4 DEF n

(* What an update that compares has read is what its screen showed: a row   *)
(* of the revision it compares with is the case.                            *)
LEMMA SavesProceed ==
    ASSUME PInv, NEW s \in saves,
           \/ SaveChecks(s) \/ SaveAssigns(s) \/ SaveMoves(s) \/ SaveIsRefused(s)
           \/ CardActs(s) \/ SaveIsAnswered(s)
    PROVE  PInv'
<1> USE DEF PInv
<1>1. /\ SaveFits(s) /\ record \in Row /\ record.rev \in Nat /\ noted \in Noted /\ ~noted.blind
      /\ rail \in [owner : Owners, status : {NoChoice, "working", "closed"}]
  BY DEF SavesFit, PageTyped, Row
<1>2. ASSUME NEW step, NEW row, saves' = (saves \ {s}) \cup {[s EXCEPT !.at = step, !.read = row]},
             step \in {"move", "moving"} => s.status # NoChoice,
             step # "assign",
             step \in {"assigning", "move"} => s.at \in {"assign", "assigning"},
             (step = "assigning" \/ (step = "moving" /\ s.owner = Nobody)) => row = s.saw,
             record' \in Row, record' = record \/ record'.rev = record.rev + 1,
             NEW b \in BOOLEAN, ~b, noted' = [noted EXCEPT !.blind = b],
             UNCHANGED <<view, rail, gets, draft, sends>>
      PROVE  PInv'
  <2>1. /\ noted' \in Noted /\ noted'.texts = noted.texts /\ noted'.left = noted.left
        /\ noted'.confirmed = noted.confirmed /\ ~noted'.blind
    BY <1>1, <1>2 DEF Noted
  <2>2. \A t \in saves' : t \in saves \/ t = [s EXCEPT !.at = step, !.read = row]
    BY <1>2
  <2>3. SaveFits([s EXCEPT !.at = step, !.read = row])'
    <3>0. /\ s = [n |-> s.n, at |-> s.at, owner |-> s.owner, status |-> s.status,
                  saw |-> s.saw, seen |-> s.seen, read |-> s.read, for |-> s.for]
          /\ step \in {"assigning", "move"} => s.saw \in Row /\ Stood(s.saw)'
      <4>1. s = [n |-> s.n, at |-> s.at, owner |-> s.owner, status |-> s.status,
                 saw |-> s.saw, seen |-> s.seen, read |-> s.read, for |-> s.for]
        BY <1>1 DEF SaveFits
      <4>2. ASSUME step \in {"assigning", "move"}
            PROVE  s.saw \in Row /\ Stood(s.saw)'
        <5>1. s.saw \in Row /\ Stood(s.saw) /\ s.saw.rev \in Nat
          BY <1>1, <1>2, <4>2 DEF SaveFits, Row
        <5> QED BY <1>1, <1>2, <5>1 DEF Stood
      <4> QED BY <4>1, <4>2
    <3> DEFINE t == [s EXCEPT !.at = step, !.read = row]
    <3>1. t = [n |-> s.n, at |-> step, owner |-> s.owner, status |-> s.status,
               saw |-> s.saw, seen |-> s.seen, read |-> row, for |-> s.for]
      BY <3>0, SaveAdvances
    <3>2. /\ t.n = s.n /\ t.at = step /\ t.owner = s.owner /\ t.status = s.status
          /\ t.saw = s.saw /\ t.seen = s.seen /\ t.read = row /\ t.for = s.for
      BY <3>1
    <3> HIDE DEF t
    <3>3. SaveFits(t)'
      BY <1>1, <1>2, <3>0, <3>1, <3>2 DEF SaveFits
    <3> QED BY <3>3 DEF t
  <2>4. \A t \in saves' : t \in saves \/ SaveFits(t)'
    BY <2>2, <2>3
  <2> QED BY <1>1, <1>2, <2>1, <2>4, RailStepFits
<1>3. ASSUME NEW step, Becomes(s, step)
      PROVE  saves' = (saves \ {s}) \cup {[s EXCEPT !.at = step, !.read = s.read]}
  <2>1. [s EXCEPT !.at = step] = [s EXCEPT !.at = step, !.read = s.read]
    BY <1>1, SaveAdvances DEF SaveFits
  <2> QED BY <1>3, <2>1 DEF Becomes
<1>4. ASSUME NEW step, Becomes(s, step), step \in {"refused", "saved", "move"},
             step = "move" => s.at = "assigning" /\ s.status # NoChoice,
             record' \in Row, record' = record \/ record'.rev = record.rev + 1,
             NEW b \in BOOLEAN, ~b, noted' = [noted EXCEPT !.blind = b],
             UNCHANGED <<view, rail, gets, draft, sends>>
      PROVE  PInv'
  <2>1. saves' = (saves \ {s}) \cup {[s EXCEPT !.at = step, !.read = s.read]}
    BY <1>3, <1>4
  <2> QED BY <1>2, <1>4, <2>1
<1>5. noted = [noted EXCEPT !.blind = FALSE]
  BY <1>1 DEF Noted
<1>6. CASE SaveChecks(s)
  <2> DEFINE step == IF s.at = "assign" THEN "assigning" ELSE "moving"
  <2>1. /\ s.at \in {"assign", "move"}
        /\ NamesRevision(s) => UpToDate(s)
        /\ saves' = (saves \ {s}) \cup {[s EXCEPT !.at = step, !.read = record]}
        /\ UNCHANGED <<record, view, rail, gets, draft, sends, noted>>
    BY <1>6 DEF SaveChecks
  <2>2. NamesRevision(s) => s.saw = record
    BY <1>1, <2>1 DEF SaveFits, Stood, UpToDate, NamesRevision
  <2>3. /\ step = "assigning" \/ (step = "moving" /\ s.owner = Nobody) => record = s.saw
        /\ step \in {"move", "moving"} => s.status # NoChoice
        /\ step # "assign" /\ step # "move"
        /\ step = "assigning" => s.at = "assign"
    BY <1>1, <2>1, <2>2 DEF SaveFits, NamesRevision
  <2>4. noted' = [noted EXCEPT !.blind = FALSE]
    BY <1>5, <2>1
  <2> HIDE DEF step
  <2> QED BY <1>1, <1>2, <2>1, <2>3, <2>4
<1>7. CASE SaveIsRefused(s)
  <2>1. Becomes(s, "refused") /\ UNCHANGED <<record, view, rail, gets, draft, sends, noted>>
    BY <1>7 DEF SaveIsRefused
  <2> QED BY <1>1, <1>4, <1>5, <2>1
<1>8. CASE SaveAssigns(s)
  <2> DEFINE b == noted.blind \/ Unseen(record.owner, s.read.owner, s.saw.owner)
             step == IF s.status = NoChoice THEN "saved" ELSE "move"
  <2>1. /\ record' = [record EXCEPT !.owner = s.owner, !.rev = @ + 1]
        /\ noted' = [noted EXCEPT !.blind = b] /\ Becomes(s, step)
        /\ UNCHANGED <<view, rail, gets, draft, sends>> /\ s.at = "assigning"
    BY <1>8 DEF SaveAssigns
  <2>2. b \in BOOLEAN /\ ~b
    BY <1>1, <2>1 DEF SaveFits, Unseen
  <2>3. record' \in Row /\ record'.rev = record.rev + 1
    BY <1>1, <2>1, RowsAdvance DEF SaveFits
  <2>4. step \in {"refused", "saved", "move"} /\ (step = "move" => s.status # NoChoice)
    OBVIOUS
  <2> HIDE DEF b, step
  <2> QED BY <1>4, <2>1, <2>2, <2>3, <2>4
<1>9. CASE SaveMoves(s)
  <2> DEFINE b == \/ noted.blind
                  \/ s.owner = Nobody /\ Unseen(record.status, s.read.status, s.saw.status)
  <2>1. /\ record' = [record EXCEPT !.status = s.status, !.rev = @ + 1]
        /\ noted' = [noted EXCEPT !.blind = b] /\ Becomes(s, "saved")
        /\ UNCHANGED <<view, rail, gets, draft, sends>> /\ s.at = "moving"
    BY <1>9 DEF SaveMoves
  <2>2. b \in BOOLEAN /\ ~b
    BY <1>1, <2>1 DEF SaveFits, Unseen
  <2>3. record' \in Row /\ record'.rev = record.rev + 1
    BY <1>1, <2>1, RowsAdvance DEF SaveFits
  <2> HIDE DEF b
  <2> QED BY <1>4, <2>1, <2>2, <2>3
<1>10. CASE CardActs(s)
  <2>1. record' \in Row /\ record'.rev = record.rev + 1
    <3> DEFINE n == record.rev + 1
               o == IF s.owner = Nobody THEN record.owner ELSE s.owner
    <3>1. n \in Nat /\ o \in Owners
      BY <1>1 DEF SaveFits, Row
    <3>2. record' = [record EXCEPT !.rev = n, !.owner = o]
      BY <1>10 DEF CardActs
    <3> HIDE DEF n, o
    <3>3. record' \in Row /\ record'.rev = n
      BY <1>1, <3>1, <3>2 DEF Row
    <3> QED BY <3>3 DEF n
  <2>2. Becomes(s, "saved") /\ noted' = [noted EXCEPT !.blind = FALSE]
    BY <1>10, <1>5 DEF CardActs
  <2>3. UNCHANGED <<view, rail, gets, draft, sends>>
    BY <1>10 DEF CardActs
  <2> QED BY <1>4, <2>1, <2>2, <2>3
<1>11. CASE SaveIsAnswered(s)
  <2>1. /\ UNCHANGED <<record, view, draft, sends, noted>>
        /\ \A t \in saves' : t \in saves
    BY <1>11 DEF SaveIsAnswered
  <2>2. rail' \in [owner : Owners, status : {NoChoice, "working", "closed"}]
    BY <1>1, <1>11 DEF SaveIsAnswered
  <2>3. \A g \in gets' : g \in gets \/ g = [n |-> g.n, row |-> NotShown]
    BY <1>11 DEF SaveIsAnswered, Asks
  <2> QED BY <1>1, <2>1, <2>2, <2>3, RailStepFits
<1> QED BY <1>6, <1>7, <1>8, <1>9, <1>10, <1>11

(* Whatever one operator has on the screen, loads and sends, and whatever   *)
(* colleagues do meanwhile, the page is as above.                           *)
THEOREM PageFits == CasePageSpec => []PInv
<1>1. CasePageInit => PInv
  BY PageBegins
<1>2. PInv /\ [ReplyNext \/ RailNext]_casePageVars => PInv'
  <2> SUFFICES ASSUME PInv, [ReplyNext \/ RailNext]_casePageVars
               PROVE  PInv'
    OBVIOUS
  <2>1. CASE PageMoves
    BY <2>1, VisitsFit, LoadsFit DEF PageMoves
  <2>2. CASE ColleagueActs({record.owner}, {"working", "closed"})
    <3>1. {record.owner} \subseteq Owners /\ {"working", "closed"} \subseteq
            {record.status, "working", "closed"}
      BY DEF PInv, PageTyped, Row
    <3> QED BY <2>2, <3>1, ColleaguesFit
  <2>3. CASE OpensReply \/ TypesReply \/ PicksTemplate \/ TemplateArrives
    BY <2>3, ReplyIsWritten
  <2>4. CASE TimerFires \/ Discards
    BY <2>4, DraftsFit
  <2>5. CASE PressesSend \/ \E r \in sends : SendIsTaken(r)
    BY <2>5, SendingFits
  <2>6. CASE \E r \in sends : SendIsAnswered(r)
    BY <2>6, AnswersFit
  <2>7. CASE ColleagueActs(Owner, {record.status, "working", "closed"})
    <3>1. Owner \subseteq Owners
      BY DEF Owners
    <3> QED BY <2>7, <3>1, ColleaguesFit
  <2>8. CASE Chooses
    BY <2>8, ChoosingFits
  <2>9. CASE PressesUpdate \/ PressesCard
    BY <2>9, PressingFits
  <2>10. CASE \E s \in saves :
                \/ SaveChecks(s) \/ SaveAssigns(s) \/ SaveMoves(s) \/ SaveIsRefused(s)
                \/ CardActs(s) \/ SaveIsAnswered(s)
    BY <2>10, SavesProceed
  <2>11. CASE UNCHANGED casePageVars
    BY <2>11 DEF casePageVars, PInv, PageTyped, RowsStood, Stood, SavesFit, SaveFits, TextsKnown,
                 SendsFit, TimerFits, RestedDraftIsStored, SentIsGone, Writing
  <2> QED BY <2>1, <2>2, <2>3, <2>4, <2>5, <2>6, <2>7, <2>8, <2>9, <2>10, <2>11
          DEF ReplyNext, RailNext
<1> QED BY <1>1, <1>2, PTL DEF CasePageSpec

(* A reply half written is stored and a reply sent is not offered again;    *)
(* no update takes a case from an owner, or out of a status, that its       *)
(* screen did not show, unless it came between the check of the update and  *)
(* its UPDATE.                                                              *)
THEOREM PageKeepsItsWord == CasePageSpec => []CasePageInv
<1>1. PInv => CasePageInv
  BY DEF PInv, SavesFit, CasePageInv, NobodyIsDispossessedUnseen
<1> QED BY <1>1, PageFits, PTL
=============================================================================
