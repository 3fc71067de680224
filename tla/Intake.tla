------------------------------- MODULE Intake -------------------------------
(***************************************************************************)
(* From an empty form to a case: the draft of a browser session, the links *)
(* that prove its e-mail address, the files uploaded to it, the submission *)
(* that makes it a case and takes its files along, and the nightly purge.  *)
(*                                                                         *)
(* Every `await' of a request ends a step; each step is one transaction or *)
(* one operation on a file.  A request may die between two steps (a        *)
(* failing call, a restart) and leaves what it has committed.  Nothing     *)
(* consumes a draft: the requester may submit it again, also while an      *)
(* earlier submission is under way.                                        *)
(***************************************************************************)
EXTENDS Integers, FiniteSets

CONSTANTS
    Draft,          \* form_drafts
    Email,          \* addresses
    Token,          \* sends of a verification link, each with the token it may get
    File,           \* uploads, each with its file
    Submission,     \* submit requests, each with the case it may make
    NoEmail,        \* a NULL verified_email
    NoDraft,        \* the draft of a token, file or submission not begun
    NoCase,         \* a NULL case_id; on disk, the drafts' holding directory
    Hour,           \* length of a rate window
    TokenTTL,       \* TOKEN_TTL_MINUTES
    DraftTTL,       \* DRAFT_TTL_HOURS
    Grace,          \* how long after expiry the purge waits
    EmailLimit,     \* VERIFY_EMAIL_RATE_LIMIT
    IpLimit,        \* VERIFY_IP_RATE_LIMIT
    MaxFiles,       \* files a draft may have
    MaxTime         \* bound: the last moment

ASSUME IntakeAssumption ==
    /\ NoEmail \notin Email /\ NoDraft \notin Draft /\ NoCase \notin Submission
    /\ "ip" \notin Email
    /\ Hour \in Nat \ {0}
    /\ {TokenTTL, DraftTTL, Grace, EmailLimit, IpLimit, MaxFiles, MaxTime} \subseteq Nat

VARIABLES
    now,        \* the clock on the wall
    draft,      \* form_drafts
    token,      \* each send and its row of verification_tokens
    counter,    \* rate_counters
    proved,     \* history: the addresses whose link was opened, per draft
    file,       \* each upload and its row of case_attachments
    disk,       \* the files that exist, with their directory
    sub,        \* each submission
    lastSeq     \* case_sequences

vars == <<now, draft, token, counter, proved, file, disk, sub, lastSeq>>
verifying == <<token, counter, proved>>
submitting == <<sub, lastSeq>>

DraftType == [state: {"none", "open", "purged"}, verified: Email \cup {NoEmail},
              expires: Nat]
NewDraft == [state |-> "none", verified |-> NoEmail, expires |-> 0]

(* "allowed": past the rate limits, its token not stored yet.               *)
TokenType == [state: {"idle", "allowed", "live", "used", "gone", "refused"},
              draft: Draft \cup {NoDraft}, email: Email \cup {NoEmail},
              window: 0..(MaxTime \div Hour), expires: Nat]
NewToken == [state |-> "idle", draft |-> NoDraft, email |-> NoEmail,
             window |-> 0, expires |-> 0]

(* "filed": the row exists; `of' is its case_id.                            *)
FileType == [pc: {"idle", "admitted", "stored", "filed", "dead"},
             draft: Draft \cup {NoDraft}, of: Submission \cup {NoCase}]
NewFile == [pc |-> "idle", draft |-> NoDraft, of |-> NoCase]

(* `before' remembers the files the draft had when the submission began.    *)
SubType == [pc: {"idle", "verified", "numbered", "committed",
                 "adopting", "copied", "moved", "done", "partly", "dead"},
            draft: Draft \cup {NoDraft}, email: Email \cup {NoEmail}, seq: Nat,
            todo: SUBSET File, moving: SUBSET File, before: SUBSET File]
NewSub == [pc |-> "idle", draft |-> NoDraft, email |-> NoEmail, seq |-> 0,
           todo |-> {}, moving |-> {}, before |-> {}]
Over == {"idle", "done", "partly", "dead"}

Keys == Email \cup {"ip"}

TypeOK ==
    /\ now \in Nat
    /\ draft \in [Draft -> DraftType]
    /\ token \in [Token -> TokenType]
    /\ counter \in [Keys -> [0..MaxTime -> Nat]]
    /\ proved \subseteq Draft \X Email
    /\ file \in [File -> FileType]
    /\ disk \subseteq File \X (Submission \cup {NoCase})
    /\ sub \in [Submission -> SubType]
    /\ lastSeq \in Nat

Init ==
    /\ now = 0
    /\ draft = [d \in Draft |-> NewDraft]
    /\ token = [t \in Token |-> NewToken]
    /\ counter = [k \in Keys |-> [w \in 0..MaxTime |-> 0]]
    /\ proved = {}
    /\ file = [f \in File |-> NewFile]
    /\ disk = {}
    /\ sub = [s \in Submission |-> NewSub]
    /\ lastSeq = 0

-----------------------------------------------------------------------------
(* The draft and its verification *)

(* createDraft: the row of a browser session that starts a form.            *)
CreateDraft(d) ==
    /\ draft[d].state = "none"
    /\ draft' = [draft EXCEPT ![d] = [NewDraft EXCEPT !.state = "open",
                                                      !.expires = now + DraftTTL]]
    /\ UNCHANGED <<now, verifying, file, disk, submitting>>

(* windowStart: the hour, its minutes cut off.                              *)
Window == now \div Hour

(* mutant: the row is read first and incremented after *)
WithinReadFirst(n, limit) == n <= limit + 1

(* RateLimitService.consume: the count the upsert returned.                 *)
Within(n, limit) == n <= limit

(***************************************************************************)
(* trySend up to the limits.  Both counters are raised whatever the other  *)
(* one says, and a refused attempt counts too.  The two upserts are        *)
(* separate transactions; no decision depends on what lies between them.   *)
(* The requester is answered "accepted" in every case.                     *)
(***************************************************************************)
SendLink(t, d, e) ==
    LET w == Window
        byEmail == counter[e][w] + 1
        byIp == counter["ip"][w] + 1
    IN
    /\ token[t].state = "idle"
    /\ draft[d].state # "none"
    /\ counter' = [counter EXCEPT ![e][w] = byEmail, !["ip"][w] = byIp]
    /\ token' = [token EXCEPT ![t] =
         IF Within(byEmail, EmailLimit) /\ Within(byIp, IpLimit)
         THEN [NewToken EXCEPT !.state = "allowed", !.draft = d, !.email = e,
                               !.window = w]
         ELSE [NewToken EXCEPT !.state = "refused"]]
    /\ UNCHANGED <<now, draft, proved, file, disk, submitting>>

(* trySend from the draft on: the token is stored, the mail leaves out of   *)
(* band and may never arrive.  A missing or expired draft gets neither.     *)
StoreToken(t) ==
    LET d == token[t].draft IN
    /\ token[t].state = "allowed"
    /\ token' = [token EXCEPT ![t] =
         IF draft[d].state = "open" /\ ~(draft[d].expires < now)
         THEN [@ EXCEPT !.state = "live", !.expires = now + TokenTTL]
         ELSE [NewToken EXCEPT !.state = "refused"]]
    /\ UNCHANGED <<now, draft, counter, proved, file, disk, submitting>>

(* consumeToken: one UPDATE claims the token; a second click finds none.    *)
OpenLink(t) ==
    LET d == token[t].draft IN
    /\ token[t].state = "live" /\ now < token[t].expires
    /\ token' = [token EXCEPT ![t].state = "used"]
    /\ draft' = [draft EXCEPT ![d].verified = token[t].email]
    /\ proved' = proved \cup {<<d, token[t].email>>}
    /\ UNCHANGED <<now, counter, file, disk, submitting>>

-----------------------------------------------------------------------------
(* Uploads to the draft *)

FilesOf(d) == {f \in File : file[f].pc = "filed" /\ file[f].draft = d
                                                 /\ file[f].of = NoCase}

(* upload: the session's draft is alive and has room.                       *)
AdmitUpload(f, d) ==
    /\ file[f].pc = "idle"
    /\ draft[d].state = "open" /\ now < draft[d].expires
    /\ Cardinality(FilesOf(d)) < MaxFiles
    /\ file' = [file EXCEPT ![f] = [NewFile EXCEPT !.pc = "admitted", !.draft = d]]
    /\ UNCHANGED <<now, draft, verifying, disk, submitting>>

(* StorageService.save, under a name of its own.                            *)
StoreUpload(f) ==
    /\ file[f].pc = "admitted"
    /\ disk' = disk \cup {<<f, NoCase>>}
    /\ file' = [file EXCEPT ![f].pc = "stored"]
    /\ UNCHANGED <<now, draft, verifying, submitting>>

(* The row.  Its draft_id is no foreign key: the draft may be gone.         *)
FileUpload(f) ==
    /\ file[f].pc = "stored"
    /\ file' = [file EXCEPT ![f].pc = "filed"]
    /\ UNCHANGED <<now, draft, verifying, disk, submitting>>

UploadDies(f) ==
    /\ file[f].pc \in {"admitted", "stored"}
    /\ file' = [file EXCEPT ![f] = [NewFile EXCEPT !.pc = "dead"]]
    /\ UNCHANGED <<now, draft, verifying, disk, submitting>>

-----------------------------------------------------------------------------
(* The submission *)

HasCase(s) == sub[s].seq # 0 /\ sub[s].pc # "numbered"

Goes(s, to) == sub' = [sub EXCEPT ![s].pc = to]

(* mutant: only that some address was verified is looked at *)
VerifiedAsSomebody(d, e) == draft[d].verified # NoEmail

(* requireVerified: the draft's address is the one on the form.  The        *)
(* draft's expiry is not looked at.                                         *)
Verified(d, e) == draft[d].verified = e

Begin(s, d, e) ==
    /\ sub[s].pc = "idle"
    /\ draft[d].state = "open" /\ Verified(d, e)
    /\ sub' = [sub EXCEPT ![s] = [NewSub EXCEPT !.pc = "verified", !.draft = d,
                                     !.email = e, !.before = FilesOf(d)]]
    /\ UNCHANGED <<now, draft, verifying, file, disk, lastSeq>>

(* mutant: the number is read without taking its row *)
NumberFreeUnlocked == TRUE

(* The upsert of case_sequences keeps the row until the transaction ends.   *)
NumberFree == \A s \in Submission : sub[s].pc # "numbered"

(* The transaction that makes the case begins with its number ...           *)
TakeNumber(s) ==
    /\ sub[s].pc = "verified" /\ NumberFree
    /\ sub' = [sub EXCEPT ![s].pc = "numbered", ![s].seq = lastSeq + 1]
    /\ UNCHANGED <<now, draft, verifying, file, disk, lastSeq>>

(* ... and inserts the case, its fields, its first timeline entry and, when *)
(* the zone has a policy, its clock.                                        *)
CommitCase(s) ==
    /\ sub[s].pc = "numbered"
    /\ Goes(s, "committed")
    /\ lastSeq' = sub[s].seq
    /\ UNCHANGED <<now, draft, verifying, file, disk>>

Rows(d) == FilesOf(d)

(* audit.record, awaited outside any catch (Dies is its failure), and the   *)
(* SELECT of adoptAttachments: the rows of the draft as they are by then.   *)
SelectFiles(s) ==
    /\ sub[s].pc = "committed"
    /\ sub' = [sub EXCEPT ![s].pc = "adopting", ![s].todo = Rows(sub[s].draft)]
    /\ UNCHANGED <<now, draft, verifying, file, disk, lastSeq>>

(* mutant: a failed copy goes unnoticed *)
CopyWorksAlways(f) == TRUE

Copied(f, s) == disk \cup {<<f, s>>}

CopyWorks(f) == <<f, NoCase>> \in disk

(* StorageService.relocate: copyFile from the place the row named ...       *)
CopyFile(s, f) ==
    /\ sub[s].pc = "adopting" /\ f \in sub[s].todo
    /\ CopyWorks(f)
    /\ disk' = IF <<f, NoCase>> \in disk THEN Copied(f, s) ELSE disk
    /\ sub' = [sub EXCEPT ![s].pc = "copied", ![s].moving = {f},
                          ![s].todo = @ \ {f}]
    /\ UNCHANGED <<now, draft, verifying, file, lastSeq>>

(* ... unlink, whose failure is ignored ...                                 *)
UnlinkFile(s) ==
    /\ sub[s].pc = "copied"
    /\ \/ disk' = disk \ (sub[s].moving \X {NoCase})
       \/ UNCHANGED disk
    /\ Goes(s, "moved")
    /\ UNCHANGED <<now, draft, verifying, file, lastSeq>>

(* ... and, back in adoptAttachments, the UPDATE of the row by its id.      *)
RepointRow(s) ==
    /\ sub[s].pc = "moved"
    /\ file' = [f \in File |-> IF f \in sub[s].moving
                               THEN [file[f] EXCEPT !.of = s] ELSE file[f]]
    /\ sub' = [sub EXCEPT ![s].pc = "adopting", ![s].moving = {}]
    /\ UNCHANGED <<now, draft, verifying, disk, lastSeq>>

(* A failure ends the adoption, and only it (the catch in submit): the      *)
(* requester gets the reference all the same.                               *)
AdoptionFails(s) ==
    /\ sub[s].pc \in {"committed", "adopting", "copied", "moved"}
    /\ sub[s].pc = "adopting" => sub[s].todo # {}
    /\ sub' = [sub EXCEPT ![s].pc = "partly", ![s].todo = {}, ![s].moving = {},
                          ![s].before = {}]
    /\ UNCHANGED <<now, draft, verifying, file, disk, lastSeq>>

(* The acknowledgement, the notice to the zone and autoAssign, each with a  *)
(* catch of its own: whatever they do, the requester gets the reference.    *)
Answer(s) ==
    /\ sub[s].pc = "adopting" /\ sub[s].todo = {}
    /\ Goes(s, "done")
    /\ UNCHANGED <<now, draft, verifying, file, disk, lastSeq>>

(* Anything thrown outside a catch, or a restart; an open transaction rolls *)
(* back and gives its number back.                                          *)
Dies(s) ==
    /\ sub[s].pc \notin Over
    /\ sub' = [sub EXCEPT ![s] =
         IF HasCase(s) THEN [@ EXCEPT !.pc = "dead", !.todo = {}, !.moving = {},
                                      !.before = {}]
         ELSE [NewSub EXCEPT !.pc = "dead"]]
    /\ UNCHANGED <<now, draft, verifying, file, disk, lastSeq>>

-----------------------------------------------------------------------------
(* HousekeepingService.purge, for the tables of this module *)

HasRow(t) == token[t].state \in {"live", "used"}

OldTokens == {t \in Token : HasRow(t) /\ token[t].expires + Grace < now}

(* Expired drafts that no remaining token points at.                        *)
OldDrafts == {d \in Draft : /\ draft[d].state = "open"
                            /\ draft[d].expires + Grace < now
                            /\ \A t \in Token \ OldTokens :
                                   HasRow(t) => token[t].draft # d}

(* One transaction.  Windows a day old are not looked at again by anybody;  *)
(* the attachments of a purged draft are not touched.                       *)
Purge ==
    /\ OldTokens # {} \/ OldDrafts # {}
    /\ token' = [t \in Token |-> IF t \in OldTokens
                                 THEN [token[t] EXCEPT !.state = "gone", !.expires = 0] ELSE token[t]]
    /\ draft' = [d \in Draft |-> IF d \in OldDrafts
                   THEN [draft[d] EXCEPT !.state = "purged", !.verified = NoEmail]
                   ELSE draft[d]]
    /\ UNCHANGED <<now, counter, proved, file, disk, submitting>>

Tick ==
    /\ now < MaxTime
    /\ now' = now + 1
    /\ UNCHANGED <<draft, verifying, file, disk, submitting>>

-----------------------------------------------------------------------------
SubmissionStep(s) ==
    \/ \E d \in Draft, e \in Email : Begin(s, d, e)
    \/ TakeNumber(s) \/ CommitCase(s)
    \/ SelectFiles(s) \/ \E f \in File : CopyFile(s, f)
    \/ UnlinkFile(s) \/ RepointRow(s) \/ AdoptionFails(s)
    \/ Answer(s) \/ Dies(s)

Next ==
    \/ \E d \in Draft : CreateDraft(d)
    \/ \E t \in Token, d \in Draft, e \in Email : SendLink(t, d, e)
    \/ \E t \in Token : StoreToken(t) \/ OpenLink(t)
    \/ \E f \in File, d \in Draft : AdmitUpload(f, d)
    \/ \E f \in File : StoreUpload(f) \/ FileUpload(f) \/ UploadDies(f)
    \/ \E s \in Submission : SubmissionStep(s)
    \/ Purge \/ Tick

Spec == Init /\ [][Next]_vars

-----------------------------------------------------------------------------
(* What it must guarantee *)

Cases == {s \in Submission : HasCase(s)}

(* The reference numbers of the cases are 1, 2, 3, ... without a gap or a   *)
(* repetition, whichever submissions overlap or roll back (the upsert of    *)
(* case_sequences at the head of the submit transaction).                   *)
ReferencesAreDense ==
    /\ {sub[s].seq : s \in Cases} = 1..lastSeq
    /\ Cardinality(Cases) = lastSeq

(* Every case carries an address whose link was opened for that very draft, *)
(* although the draft's address may change between the check and the insert *)
(* (requireVerified in IntakeService.submit).                               *)
AddressWasProved == \A s \in Cases : <<sub[s].draft, sub[s].email>> \in proved

(* No address and no connection is sent more links in a window than its     *)
(* limit, however many requests overlap (RateLimitService.consume).         *)
SendsWithinLimit ==
    LET Sent(w) == {t \in Token : token[t].state \notin {"idle", "refused"}
                                  /\ token[t].window = w}
    IN \A w \in 0..MaxTime :
         /\ Cardinality(Sent(w)) <= IpLimit
         /\ \A e \in Email :
              Cardinality({t \in Sent(w) : token[t].email = e}) <= EmailLimit

(* A file that is listed on a case is in that case's directory, also when   *)
(* two submissions of one draft move it at once (relocate before UPDATE).   *)
CaseFilesExist == \A f \in File : file[f].of # NoCase => <<f, file[f].of>> \in disk

(* The bytes of a confirmed upload are somewhere on disk whichever step of  *)
(* an adoption dies (copy before unlink).                                   *)
BytesAreKept == \A f \in File : file[f].pc = "filed" => \E c \in Submission \cup {NoCase} :
                                                             <<f, c>> \in disk

(* A submission that answered without a logged failure leaves no file on    *)
(* the draft that was there when it began (adoptAttachments).               *)
AdoptionIsComplete ==
    \A s \in Submission : sub[s].pc = "done" =>
        \A f \in sub[s].before : file[f].of # NoCase

(* The next purge removes every draft whose expiry, with the lifetime of a  *)
(* link and the grace, has passed, whatever links were sent for it: no      *)
(* address is held back by a token that does not go away                    *)
(* (HousekeepingService.purge with its NOT EXISTS).                         *)
OldAddressesAreDue ==
    \A d \in Draft :
        (draft[d].state = "open" /\ draft[d].expires + TokenTTL + Grace < now)
            => d \in OldDrafts

(* The files of a case and of its draft, together.                          *)
FilesAreSafe == CaseFilesExist /\ BytesAreKept /\ AdoptionIsComplete

(* The limits hold, in time and in number.                                  *)
IntakeInv == TypeOK /\ SendsWithinLimit /\ OldAddressesAreDue
=============================================================================
