---------------------------- MODULE IntakeProofs ----------------------------
(***************************************************************************)
(* The promises of the intake, proved for any number of drafts, links,     *)
(* files and submissions: what each request under way may rely on, and     *)
(* from it the numbers, the proofs of address, the files and the limits.   *)
(* And of the form the intake asks them with: however it is edited, in any *)
(* number of browsers, it is published as its author left it (FormEditor). *)
(***************************************************************************)
EXTENDS Intake, FormEditor, SequenceTheorems, FiniteSetTheorems, TLAPS

(* The clock stops at its bound, so that every window has its counter.      *)
InTime == now <= MaxTime

(* The tokens sent in a window are no more than the counters say, and than  *)
(* the limits allow.                                                        *)
SentIn(w) == {t \in Token : token[t].state \notin {"idle", "refused"}
                            /\ token[t].window = w}
SentTo(w, e) == {t \in SentIn(w) : token[t].email = e}
Counted(S, n, limit) ==
    IsFiniteSet(S) /\ Cardinality(S) <= n /\ Cardinality(S) <= limit
SendsFit ==
    \A w \in 0..MaxTime :
        /\ Counted(SentIn(w), counter["ip"][w], IpLimit)
        /\ \A e \in Email : Counted(SentTo(w, e), counter[e][w], EmailLimit)

(* A token under way is about a draft there was, and one that is stored     *)
(* does not outlast its draft by more than its own lifetime.                *)
TokensFit ==
    \A t \in Token :
        /\ token[t].state \in {"allowed", "live", "used"} =>
             /\ token[t].draft \in Draft /\ token[t].email \in Email
             /\ draft[token[t].draft].state # "none"
        /\ HasRow(t) => token[t].expires <= draft[token[t].draft].expires + TokenTTL

(* The address of a draft, and the one a submission goes by, was proved.    *)
ProofsFit ==
    /\ \A d \in Draft : draft[d].verified # NoEmail => <<d, draft[d].verified>> \in proved
    /\ \A s \in Submission : sub[s].pc \in {"verified", "numbered"} \/ HasCase(s)
                                => <<sub[s].draft, sub[s].email>> \in proved

(* At most one transaction holds a number, the next one; the numbers given  *)
(* are those up to the last, each to one case.                              *)
NumbersFit ==
    /\ \A s \in Submission :
         /\ sub[s].pc \in {"idle", "verified"} => sub[s].seq = 0
         /\ sub[s].pc = "numbered" =>
              /\ sub[s].seq = lastSeq + 1
              /\ \A r \in Submission : sub[r].pc = "numbered" => r = s
    /\ IsFiniteSet(Cases)
    /\ ReferencesAreDense

Adopting == {"adopting", "copied", "moved"}

(* The files a submission is moving are confirmed uploads, and those copied *)
(* are in their new place; a file it found on its draft is moved, being     *)
(* moved, or still to move.                                                 *)
AdoptionsFit ==
    \A s \in Submission :
        /\ \A f \in sub[s].todo \cup sub[s].moving : file[f].pc = "filed"
        /\ \A f \in sub[s].moving : <<f, s>> \in disk
        /\ sub[s].pc \notin {"copied", "moved"} => sub[s].moving = {}
        /\ sub[s].pc \in {"verified", "numbered", "committed"} =>
             \A f \in sub[s].before : file[f].pc = "filed" /\ file[f].draft = sub[s].draft
        /\ sub[s].pc \in Adopting =>
             \A f \in sub[s].before :
                 file[f].of # NoCase \/ f \in sub[s].todo \cup sub[s].moving
        /\ sub[s].pc \in {"idle", "partly", "dead"} => sub[s].before = {}

(* A stored upload is in the holding directory, and belongs to no case yet. *)
UploadsFit ==
    \A f \in File :
        /\ file[f].pc = "stored" => <<f, NoCase>> \in disk
        /\ file[f].pc # "filed" => file[f].of = NoCase

FilesFit == AdoptionsFit /\ UploadsFit /\ FilesAreSafe

IInv ==
    /\ TypeOK
    /\ InTime
    /\ SendsFit
    /\ TokensFit
    /\ ProofsFit
    /\ NumbersFit
    /\ FilesFit

-----------------------------------------------------------------------------
(* Constants, windows and the shapes of the steps *)

LEMMA Constants ==
    /\ Hour \in Nat \ {0} /\ MaxTime \in Nat
    /\ TokenTTL \in Nat /\ DraftTTL \in Nat /\ Grace \in Nat
    /\ EmailLimit \in Nat /\ IpLimit \in Nat
BY IntakeAssumption

LEMMA WindowInRange ==
    ASSUME NEW a \in Nat, NEW b \in Nat, NEW h \in Nat \ {0}, a <= b
    PROVE  a \div h \in 0..(b \div h) /\ b \div h \in 0..b /\ a \div h \in 0..b
<1>1. a \div h \in Nat /\ b \div h \in Nat /\ a \div h <= b \div h /\ b \div h <= b
  OBVIOUS
<1> QED BY <1>1

LEMMA WindowOfNow ==
    ASSUME TypeOK, InTime
    PROVE  Window \in 0..(MaxTime \div Hour) /\ Window \in 0..MaxTime
BY Constants, WindowInRange DEF TypeOK, InTime, Window

LEMMA ZeroWindow == 0 \in 0..(MaxTime \div Hour)
BY Constants, WindowInRange

Verifies ==
    \/ \E d \in Draft : CreateDraft(d)
    \/ \E t \in Token, d \in Draft, e \in Email : SendLink(t, d, e)
    \/ \E t \in Token : StoreToken(t) \/ OpenLink(t)
    \/ Purge \/ Tick

Uploads ==
    \/ \E f \in File, d \in Draft : AdmitUpload(f, d)
    \/ \E f \in File : StoreUpload(f) \/ FileUpload(f) \/ UploadDies(f)

LEMMA Shape ==
    ASSUME [Next]_vars
    PROVE  \/ Verifies /\ UNCHANGED <<file, disk, sub, lastSeq>>
           \/ Uploads /\ UNCHANGED <<now, draft, token, counter, proved, sub, lastSeq>>
           \/ \E s \in Submission :
                 SubmissionStep(s) /\ UNCHANGED <<now, draft, token, counter, proved>>
           \/ UNCHANGED vars
<1>1. CASE Verifies
  BY <1>1 DEF Verifies, CreateDraft, SendLink, StoreToken, OpenLink, Purge, Tick,
              submitting, verifying
<1>2. CASE Uploads
  BY <1>2 DEF Uploads, AdmitUpload, StoreUpload, FileUpload, UploadDies,
              submitting, verifying
<1>3. ASSUME NEW s \in Submission, SubmissionStep(s)
      PROVE  UNCHANGED <<now, draft, token, counter, proved>>
  BY <1>3 DEF SubmissionStep, Begin, TakeNumber, CommitCase, SelectFiles, CopyFile,
              UnlinkFile, RepointRow, AdoptionFails, Answer, Dies, verifying
<1> QED BY <1>1, <1>2, <1>3 DEF Next, Verifies, Uploads

LEMMA OthersWait ==
    ASSUME TypeOK, NEW s \in Submission, SubmissionStep(s)
    PROVE  /\ \A r \in Submission : r # s => sub'[r] = sub[r]
           /\ CommitCase(s) \/ UNCHANGED lastSeq
           /\ RepointRow(s) \/ UNCHANGED file
           /\ (\E f \in File : CopyFile(s, f)) \/ UnlinkFile(s) \/ UNCHANGED disk
BY DEF TypeOK, SubmissionStep, Begin, TakeNumber, CommitCase, SelectFiles, CopyFile,
       UnlinkFile, RepointRow, AdoptionFails, Answer, Dies, Goes

(* The purge, row by row.                                                   *)
LEMMA PurgeOfRows ==
    ASSUME TypeOK, Purge
    PROVE  /\ \A t \in Token :
                IF t \in OldTokens
                THEN /\ token'[t] = [token[t] EXCEPT !.state = "gone", !.expires = 0]
                     /\ token[t].state \in {"live", "used"} /\ token'[t].state = "gone"
                     /\ token'[t].window = token[t].window /\ token'[t].email = token[t].email
                ELSE token'[t] = token[t]
           /\ \A d \in Draft :
                IF d \in OldDrafts
                THEN /\ draft'[d] = [draft[d] EXCEPT !.state = "purged", !.verified = NoEmail]
                     /\ draft'[d].state = "purged" /\ draft'[d].verified = NoEmail
                     /\ draft'[d].expires = draft[d].expires
                ELSE draft'[d] = draft[d]
<1>1. ASSUME NEW t \in OldTokens
      PROVE  /\ token'[t] = [token[t] EXCEPT !.state = "gone", !.expires = 0]
             /\ token[t].state \in {"live", "used"}
  BY <1>1 DEF Purge, OldTokens, HasRow
<1>2. ASSUME NEW t \in OldTokens
      PROVE  /\ token'[t].state = "gone" /\ token'[t].window = token[t].window
             /\ token'[t].email = token[t].email
  <2>1. token[t] \in TokenType
    BY DEF TypeOK, OldTokens
  <2> QED BY <1>1, <2>1 DEF TokenType
<1>3. ASSUME NEW d \in OldDrafts
      PROVE  draft'[d] = [draft[d] EXCEPT !.state = "purged", !.verified = NoEmail]
  BY <1>3 DEF Purge, OldDrafts
<1>4. ASSUME NEW d \in OldDrafts
      PROVE  /\ draft'[d].state = "purged" /\ draft'[d].verified = NoEmail
             /\ draft'[d].expires = draft[d].expires
  <2>1. draft[d] \in DraftType
    BY DEF TypeOK, OldDrafts
  <2> QED BY <1>3, <2>1 DEF DraftType
<1>5. ASSUME NEW t \in Token, t \notin OldTokens PROVE token'[t] = token[t]
  BY <1>5 DEF Purge
<1>6. ASSUME NEW d \in Draft, d \notin OldDrafts PROVE draft'[d] = draft[d]
  BY <1>6 DEF Purge
<1> QED BY <1>1, <1>2, <1>3, <1>4, <1>5, <1>6

-----------------------------------------------------------------------------
(* Types *)

LEMMA VerifyingIsTyped ==
    ASSUME TypeOK, InTime, TokensFit, Verifies, UNCHANGED <<file, disk, sub, lastSeq>>
    PROVE  TypeOK' /\ InTime'
<1> USE DEF TypeOK, InTime
<1> USE Constants
<1>2. ASSUME NEW d \in Draft, CreateDraft(d) PROVE TypeOK' /\ InTime'
  <2>1. [NewDraft EXCEPT !.state = "open", !.expires = now + DraftTTL] \in DraftType
    <3>1. now + DraftTTL \in Nat
      OBVIOUS
    <3> QED BY <3>1 DEF NewDraft, DraftType
  <2>2. draft' \in [Draft -> DraftType]
    BY <1>2, <2>1 DEF CreateDraft
  <2> QED BY <1>2, <2>2 DEF CreateDraft, verifying
<1>3. ASSUME NEW t \in Token, NEW d \in Draft, NEW e \in Email, SendLink(t, d, e)
      PROVE TypeOK' /\ InTime'
  <2>1. Window \in 0..(MaxTime \div Hour) /\ Window \in 0..MaxTime
    BY WindowOfNow
  <2>2. counter' \in [Keys -> [0..MaxTime -> Nat]]
    <3>1. counter[e][Window] + 1 \in Nat /\ counter["ip"][Window] + 1 \in Nat
      BY <2>1 DEF Keys
    <3>2. [counter EXCEPT ![e][Window] = counter[e][Window] + 1]
             \in [Keys -> [0..MaxTime -> Nat]]
      BY <3>1
    <3>3. counter' = [[counter EXCEPT ![e][Window] = counter[e][Window] + 1]
                         EXCEPT !["ip"][Window] = counter["ip"][Window] + 1]
      BY <1>3 DEF SendLink
    <3> QED BY <3>1, <3>2, <3>3
  <2>3. token' \in [Token -> TokenType]
    <3>1. /\ [NewToken EXCEPT !.state = "allowed", !.draft = d, !.email = e,
                              !.window = Window] \in TokenType
          /\ [NewToken EXCEPT !.state = "refused"] \in TokenType
      BY <2>1, ZeroWindow DEF TokenType, NewToken
    <3> QED BY <1>3, <3>1 DEF SendLink
  <2> QED BY <1>3, <2>2, <2>3 DEF SendLink
<1>4. ASSUME NEW t \in Token, StoreToken(t) PROVE TypeOK' /\ InTime'
  <2>1. [NewToken EXCEPT !.state = "refused"] \in TokenType
    BY ZeroWindow DEF TokenType, NewToken
  <2>2. [token[t] EXCEPT !.state = "live", !.expires = now + TokenTTL] \in TokenType
    <3>1. now + TokenTTL \in Nat
      OBVIOUS
    <3> QED BY <3>1 DEF TokenType
  <2>3. token' \in [Token -> TokenType]
    BY <1>4, <2>1, <2>2 DEF StoreToken
  <2> QED BY <1>4, <2>3 DEF StoreToken
<1>5. ASSUME NEW t \in Token, OpenLink(t) PROVE TypeOK' /\ InTime'
  <2>1. token[t].draft \in Draft /\ token[t].email \in Email
    BY <1>5 DEF OpenLink, TokensFit
  <2>2. token' \in [Token -> TokenType]
    BY <1>5 DEF OpenLink, TokenType
  <2>3. draft' \in [Draft -> DraftType]
    BY <1>5, <2>1 DEF OpenLink, DraftType
  <2> QED BY <1>5, <2>1, <2>2, <2>3 DEF OpenLink
<1>6. CASE Purge
  <2>1. token' \in [Token -> TokenType]
    <3>1. \A t \in Token : [token[t] EXCEPT !.state = "gone", !.expires = 0] \in TokenType
      BY DEF TokenType
    <3> QED BY <1>6, <3>1 DEF Purge
  <2>2. draft' \in [Draft -> DraftType]
    <3>1. \A d \in Draft :
             [draft[d] EXCEPT !.state = "purged", !.verified = NoEmail] \in DraftType
      BY DEF DraftType
    <3> QED BY <1>6, <3>1 DEF Purge
  <2> QED BY <1>6, <2>1, <2>2 DEF Purge
<1>7. CASE Tick
  BY <1>7 DEF Tick, verifying
<1> QED BY <1>2, <1>3, <1>4, <1>5, <1>6, <1>7 DEF Verifies

LEMMA UploadingIsTyped ==
    ASSUME TypeOK, Uploads, UNCHANGED <<now, draft, token, counter, proved, sub, lastSeq>>
    PROVE  TypeOK'
<1> USE DEF TypeOK
<1>1. ASSUME NEW f \in File, NEW d \in Draft, AdmitUpload(f, d) PROVE TypeOK'
  BY <1>1 DEF AdmitUpload, FileType, NewFile
<1>2. ASSUME NEW f \in File, StoreUpload(f) PROVE TypeOK'
  <2>1. file' \in [File -> FileType]
    BY <1>2 DEF StoreUpload, FileType
  <2>2. disk' \subseteq File \X (Submission \cup {NoCase})
    BY <1>2 DEF StoreUpload
  <2> QED BY <2>1, <2>2
<1>3. ASSUME NEW f \in File, FileUpload(f) PROVE TypeOK'
  BY <1>3 DEF FileUpload, FileType
<1>4. ASSUME NEW f \in File, UploadDies(f) PROVE TypeOK'
  BY <1>4 DEF UploadDies, FileType, NewFile
<1> QED BY <1>1, <1>2, <1>3, <1>4 DEF Uploads

LEMMA SubmittingIsTyped ==
    ASSUME TypeOK, NEW s \in Submission, SubmissionStep(s),
           UNCHANGED <<now, draft, token, counter, proved>>
    PROVE  TypeOK'
<1> USE DEF TypeOK
<1>1. sub[s] \in SubType
  OBVIOUS
<1>2. sub' = [sub EXCEPT ![s] = sub'[s]]
  BY OthersWait DEF SubmissionStep, Begin, TakeNumber, CommitCase, SelectFiles, CopyFile,
       UnlinkFile, RepointRow, AdoptionFails, Answer, Dies, Goes
<1>3. sub'[s] \in SubType
  <2>1. ASSUME NEW d \in Draft, NEW e \in Email, Begin(s, d, e) PROVE sub'[s] \in SubType
    BY <2>1 DEF Begin, SubType, NewSub, FilesOf
  <2>2. CASE TakeNumber(s)
    <3>1. sub'[s] = [sub[s] EXCEPT !.pc = "numbered", !.seq = lastSeq + 1]
      BY <2>2 DEF TakeNumber
    <3>2. lastSeq + 1 \in Nat
      OBVIOUS
    <3> QED BY <1>1, <3>1, <3>2 DEF SubType
  <2>3. CASE SelectFiles(s)
    BY <1>1, <2>3 DEF SelectFiles, Rows, FilesOf, SubType
  <2>4. ASSUME NEW f \in File, CopyFile(s, f) PROVE sub'[s] \in SubType
    BY <1>1, <2>4 DEF CopyFile, SubType
  <2>5. CASE CommitCase(s) \/ UnlinkFile(s) \/ Answer(s)
    <3>1. \E to \in {"committed", "moved", "done"} : sub'[s] = [sub[s] EXCEPT !.pc = to]
      BY <2>5 DEF CommitCase, UnlinkFile, Answer, Goes
    <3> QED BY <1>1, <3>1 DEF SubType
  <2>6. CASE RepointRow(s)
    BY <1>1, <2>6 DEF RepointRow, SubType
  <2>7. CASE AdoptionFails(s)
    BY <1>1, <2>7 DEF AdoptionFails, SubType
  <2>8. CASE Dies(s)
    BY <1>1, <2>8 DEF Dies, SubType, NewSub
  <2> QED BY <2>1, <2>2, <2>3, <2>4, <2>5, <2>6, <2>7, <2>8 DEF SubmissionStep
<1>4. lastSeq' \in Nat
  BY <1>1, OthersWait DEF CommitCase, SubType
<1>5. file' \in [File -> FileType]
  <2>1. CASE RepointRow(s)
    BY <2>1 DEF RepointRow, FileType
  <2> QED BY <2>1, OthersWait
<1>6. disk' \subseteq File \X (Submission \cup {NoCase})
  <2>1. ASSUME NEW f \in File, CopyFile(s, f)
        PROVE  disk' \subseteq File \X (Submission \cup {NoCase})
    BY <2>1 DEF CopyFile, Copied
  <2>2. CASE UnlinkFile(s)
    BY <2>2 DEF UnlinkFile
  <2> QED BY <2>1, <2>2, OthersWait
<1> QED BY <1>2, <1>3, <1>4, <1>5, <1>6

LEMMA StepIsTyped ==
    ASSUME TypeOK, InTime, TokensFit, [Next]_vars
    PROVE  TypeOK' /\ InTime'
<1>1. CASE UNCHANGED vars
  BY <1>1 DEF vars, TypeOK, InTime
<1>2. CASE Uploads /\ UNCHANGED <<now, draft, token, counter, proved, sub, lastSeq>>
  BY <1>2, UploadingIsTyped DEF InTime
<1>3. ASSUME NEW s \in Submission, SubmissionStep(s),
             UNCHANGED <<now, draft, token, counter, proved>>
      PROVE  TypeOK' /\ InTime'
  BY <1>3, SubmittingIsTyped DEF InTime
<1> QED BY <1>1, <1>2, <1>3, VerifyingIsTyped, Shape

-----------------------------------------------------------------------------
(* The limits *)

LEMMA CountedLess ==
    ASSUME NEW S, NEW T, T \subseteq S, NEW n \in Nat, NEW m \in Nat, n <= m,
           NEW limit \in Nat, Counted(S, n, limit)
    PROVE  Counted(T, m, limit)
<1>1. IsFiniteSet(T) /\ Cardinality(T) <= Cardinality(S)
  BY FS_Subset DEF Counted
<1>2. Cardinality(T) \in Nat /\ Cardinality(S) \in Nat
  BY <1>1, FS_CardinalityType DEF Counted
<1> QED BY <1>1, <1>2 DEF Counted

LEMMA CountedOneMore ==
    ASSUME NEW S, NEW x, NEW n \in Nat, NEW limit \in Nat, n + 1 <= limit,
           Counted(S, n, limit)
    PROVE  Counted(S \cup {x}, n + 1, limit)
<1>1. /\ IsFiniteSet(S \cup {x})
      /\ Cardinality(S \cup {x}) = IF x \in S THEN Cardinality(S) ELSE Cardinality(S) + 1
  BY FS_AddElement DEF Counted
<1>2. Cardinality(S) \in Nat
  BY FS_CardinalityType DEF Counted
<1> QED BY <1>1, <1>2 DEF Counted

(* Counters that only grow, and no token newly sent.                        *)
LEMMA NothingSent ==
    ASSUME TypeOK, TypeOK', SendsFit,
           \A t \in Token : token'[t].state \notin {"idle", "refused"} =>
               /\ token[t].state \notin {"idle", "refused"}
               /\ token'[t].window = token[t].window /\ token'[t].email = token[t].email,
           \A k \in Keys, w \in 0..MaxTime : counter[k][w] <= counter'[k][w]
    PROVE  SendsFit'
<1> SUFFICES ASSUME NEW w \in 0..MaxTime
             PROVE  /\ Counted(SentIn(w)', counter'["ip"][w], IpLimit)
                    /\ \A e \in Email : Counted(SentTo(w, e)', counter'[e][w], EmailLimit)
  BY DEF SendsFit
<1>1. \A k \in Keys : counter[k][w] \in Nat /\ counter'[k][w] \in Nat
  BY DEF TypeOK
<1>2. SentIn(w)' \subseteq SentIn(w)
  BY DEF SentIn
<1>3. \A e \in Email : SentTo(w, e)' \subseteq SentTo(w, e)
  BY DEF SentIn, SentTo
<1>4. Counted(SentIn(w)', counter'["ip"][w], IpLimit)
  <2>1. "ip" \in Keys
    BY DEF Keys
  <2> QED BY <1>1, <1>2, <2>1, CountedLess, Constants DEF SendsFit
<1>5. ASSUME NEW e \in Email PROVE Counted(SentTo(w, e)', counter'[e][w], EmailLimit)
  <2>1. e \in Keys
    BY DEF Keys
  <2> QED BY <1>1, <1>3, <2>1, CountedLess, Constants DEF SendsFit
<1> QED BY <1>4, <1>5

LEMMA SendIsCounted ==
    ASSUME TypeOK, TypeOK', InTime, SendsFit,
           NEW t \in Token, NEW d \in Draft, NEW e \in Email, SendLink(t, d, e)
    PROVE  SendsFit'
<1> DEFINE w0 == Window
<1>1. w0 \in 0..MaxTime /\ e \in Keys /\ "ip" \in Keys /\ e # "ip"
  BY WindowOfNow, IntakeAssumption DEF Keys
<1>2. \A k \in Keys, w \in 0..MaxTime : counter[k][w] \in Nat
  BY DEF TypeOK
<1>3. \A k \in Keys, w \in 0..MaxTime :
          counter'[k][w] = IF k \in {e, "ip"} /\ w = w0 THEN counter[k][w] + 1
                           ELSE counter[k][w]
  BY <1>1 DEF SendLink, TypeOK
<1>4. \A u \in Token : u # t => token'[u] = token[u]
  BY DEF SendLink, TypeOK
<1>5. token[t].state = "idle"
  BY DEF SendLink
<1>6. CASE token'[t].state = "refused"
  <2>1. \A u \in Token : token'[u].state \notin {"idle", "refused"} =>
            token[u].state \notin {"idle", "refused"} /\ token'[u] = token[u]
    BY <1>4, <1>6
  <2>2. \A k \in Keys, w \in 0..MaxTime : counter[k][w] <= counter'[k][w]
    BY <1>2, <1>3
  <2> QED BY <2>1, <2>2, NothingSent
<1>7. CASE /\ Within(counter[e][w0] + 1, EmailLimit) /\ Within(counter["ip"][w0] + 1, IpLimit)
           /\ token'[t].state = "allowed" /\ token'[t].email = e /\ token'[t].window = w0
  <2> SUFFICES ASSUME NEW w \in 0..MaxTime
               PROVE  /\ Counted(SentIn(w)', counter'["ip"][w], IpLimit)
                      /\ \A a \in Email : Counted(SentTo(w, a)', counter'[a][w], EmailLimit)
    BY DEF SendsFit
  <2>1. Counted(SentIn(w), counter["ip"][w], IpLimit)
    BY DEF SendsFit
  <2>2. Counted(SentIn(w)', counter'["ip"][w], IpLimit)
    <3>1. CASE w = w0
      <4>1. SentIn(w)' = SentIn(w) \cup {t}
        BY <1>4, <1>5, <1>7, <3>1 DEF SentIn
      <4>2. counter["ip"][w] + 1 <= IpLimit
        BY <1>7, <3>1 DEF Within
      <4>3. counter["ip"][w] \in Nat /\ counter'["ip"][w] = counter["ip"][w] + 1
        BY <1>1, <1>2, <1>3, <3>1
      <4>4. Counted(SentIn(w) \cup {t}, counter["ip"][w] + 1, IpLimit)
        BY <2>1, <4>2, <4>3, CountedOneMore, Constants
      <4> QED BY <4>1, <4>3, <4>4
    <3>2. CASE w # w0
      <4>1. SentIn(w)' = SentIn(w)
        BY <1>4, <1>5, <1>7, <3>2 DEF SentIn
      <4> QED BY <1>1, <1>3, <2>1, <3>2, <4>1
    <3> QED BY <3>1, <3>2
  <2>3. ASSUME NEW a \in Email PROVE Counted(SentTo(w, a)', counter'[a][w], EmailLimit)
    <3>1. Counted(SentTo(w, a), counter[a][w], EmailLimit)
      BY DEF SendsFit
    <3>2. a \in Keys /\ a # "ip"
      BY IntakeAssumption DEF Keys
    <3>3. CASE w = w0 /\ a = e
      <4>1. SentTo(w, a)' = SentTo(w, a) \cup {t}
        BY <1>4, <1>5, <1>7, <3>3 DEF SentIn, SentTo
      <4>2. counter[a][w] + 1 <= EmailLimit
        BY <1>7, <3>3 DEF Within
      <4>3. counter[a][w] \in Nat /\ counter'[a][w] = counter[a][w] + 1
        BY <1>2, <1>3, <3>2, <3>3
      <4>4. Counted(SentTo(w, a) \cup {t}, counter[a][w] + 1, EmailLimit)
        BY <3>1, <4>2, <4>3, CountedOneMore, Constants
      <4> QED BY <4>1, <4>3, <4>4
    <3>4. CASE ~(w = w0 /\ a = e)
      <4>1. SentTo(w, a)' = SentTo(w, a)
        BY <1>4, <1>5, <1>7, <3>4 DEF SentIn, SentTo
      <4>2. counter'[a][w] = counter[a][w]
        BY <1>3, <3>2, <3>4
      <4> QED BY <3>1, <4>1, <4>2
    <3> QED BY <3>3, <3>4
  <2> QED BY <2>2, <2>3
<1> QED BY <1>6, <1>7 DEF SendLink, TypeOK, NewToken

LEMMA StepKeepsSends ==
    ASSUME TypeOK, TypeOK', InTime, SendsFit, [Next]_vars
    PROVE  SendsFit'
<1>1. \A k \in Keys, w \in 0..MaxTime : counter[k][w] \in Nat
  BY DEF TypeOK
<1>2. CASE UNCHANGED <<token, counter>>
  BY <1>1, <1>2, NothingSent
<1>3. ASSUME NEW t \in Token, StoreToken(t) PROVE SendsFit'
  BY <1>1, <1>3, NothingSent DEF StoreToken, TypeOK, NewToken
<1>4. ASSUME NEW t \in Token, OpenLink(t) PROVE SendsFit'
  BY <1>1, <1>4, NothingSent DEF OpenLink, TypeOK
<1>5. CASE Purge
  <2>1. \A t \in Token : /\ token'[t].window = token[t].window
                         /\ token'[t].email = token[t].email
                         /\ token[t].state \in {"idle", "refused"} => token'[t] = token[t]
    BY <1>5, PurgeOfRows
  <2>2. counter' = counter
    BY <1>5 DEF Purge
  <2> QED BY <1>1, <2>1, <2>2, NothingSent
<1>6. CASE Verifies
  BY <1>2, <1>3, <1>4, <1>5, <1>6, SendIsCounted DEF Verifies, CreateDraft, Tick, verifying
<1> QED BY <1>2, <1>6, Shape DEF vars

-----------------------------------------------------------------------------
(* The links and the addresses they prove *)

LEMMA StepKeepsTokens ==
    ASSUME TypeOK, TypeOK', TokensFit, [Next]_vars
    PROVE  TokensFit'
<1> USE DEF TokensFit, HasRow
<1>1. CASE UNCHANGED <<token, draft>>
  BY <1>1
<1>2. ASSUME NEW d \in Draft, CreateDraft(d) PROVE TokensFit'
  <2>1. \A b \in Draft : b # d => draft'[b] = draft[b]
    BY <1>2 DEF CreateDraft, TypeOK
  <2>2. draft[d].state = "none" /\ token' = token
    BY <1>2 DEF CreateDraft, verifying
  <2> QED BY <2>1, <2>2
<1>3. ASSUME NEW t \in Token, NEW d \in Draft, NEW e \in Email, SendLink(t, d, e)
      PROVE  TokensFit'
  BY <1>3 DEF SendLink, TypeOK, NewToken
<1>4. ASSUME NEW t \in Token, StoreToken(t) PROVE TokensFit'
  <2>1. \A u \in Token : u # t => token'[u] = token[u]
    BY <1>4 DEF StoreToken, TypeOK
  <2>2. draft' = draft /\ token[t].draft \in Draft
    BY <1>4 DEF StoreToken
  <2>3. draft[token[t].draft].expires \in Nat /\ now \in Nat
    BY <2>2 DEF TypeOK, DraftType
  <2>4. \/ token'[t].state = "refused"
        \/ /\ draft[token[t].draft].state = "open" /\ ~(draft[token[t].draft].expires < now)
           /\ token'[t] = [token[t] EXCEPT !.state = "live", !.expires = now + TokenTTL]
    BY <1>4 DEF StoreToken, TypeOK, NewToken
  <2>5. token[t] \in TokenType
    BY DEF TypeOK
  <2>6. CASE token'[t].state = "refused"
    BY <2>1, <2>2, <2>6
  <2>7. CASE token'[t].state # "refused"
    <3>1. /\ token'[t].draft = token[t].draft /\ token'[t].email = token[t].email
          /\ token'[t].expires = now + TokenTTL
      BY <2>4, <2>5, <2>7 DEF TokenType
    <3>2. now + TokenTTL <= draft[token[t].draft].expires + TokenTTL
      BY <2>3, <2>4, <2>7, Constants
    <3>3. draft[token[t].draft].state # "none" /\ token[t].email \in Email
      BY <1>4 DEF StoreToken
    <3> QED BY <2>1, <2>2, <3>1, <3>2, <3>3
  <2> QED BY <2>6, <2>7
<1>5. ASSUME NEW t \in Token, OpenLink(t) PROVE TokensFit'
  <2>1. \A u \in Token : /\ token'[u].draft = token[u].draft /\ token'[u].email = token[u].email
                         /\ token'[u].expires = token[u].expires
                         /\ token'[u].state = IF u = t THEN "used" ELSE token[u].state
    BY <1>5 DEF OpenLink, TypeOK, TokenType
  <2>2. \A b \in Draft : draft'[b].state = draft[b].state /\ draft'[b].expires = draft[b].expires
    BY <1>5 DEF OpenLink, TypeOK, DraftType
  <2>3. token[t].state = "live"
    BY <1>5 DEF OpenLink
  <2> QED BY <2>1, <2>2, <2>3
<1>6. CASE Purge
  <2>1. \A u \in Token : token'[u] = token[u] \/ token'[u].state = "gone"
    BY <1>6, PurgeOfRows
  <2>2. \A b \in Draft : /\ draft'[b].expires = draft[b].expires
                         /\ draft[b].state # "none" => draft'[b].state # "none"
    BY <1>6, PurgeOfRows
  <2> QED BY <2>1, <2>2
<1>7. CASE Verifies
  BY <1>1, <1>2, <1>3, <1>4, <1>5, <1>6, <1>7 DEF Verifies, Tick, verifying
<1> QED BY <1>1, <1>7, Shape DEF vars

(* What a step of a submission does to its number and its address.          *)
LEMMA StepOfSubmission ==
    ASSUME TypeOK, NEW s \in Submission, SubmissionStep(s)
    PROVE  \/ \E d \in Draft, e \in Email : Begin(s, d, e)
           \/ TakeNumber(s)
           \/ Dies(s) /\ ~HasCase(s) /\ sub'[s] = [NewSub EXCEPT !.pc = "dead"]
           \/ /\ CommitCase(s) \/ sub[s].pc \notin {"verified", "numbered"} \/ HasCase(s)
              /\ sub'[s].pc \notin {"idle", "verified", "numbered"}
              /\ sub'[s].draft = sub[s].draft /\ sub'[s].email = sub[s].email
              /\ sub'[s].seq = sub[s].seq
<1>1. sub[s] \in SubType
  BY DEF TypeOK
<1>2. CASE CommitCase(s) \/ UnlinkFile(s) \/ Answer(s)
  BY <1>1, <1>2 DEF CommitCase, UnlinkFile, Answer, Goes, TypeOK, SubType
<1>3. ASSUME SelectFiles(s) \/ \E f \in File : CopyFile(s, f)
      PROVE  /\ sub[s].pc \in {"committed", "adopting"} /\ sub'[s].pc \in {"adopting", "copied"}
             /\ sub'[s].draft = sub[s].draft /\ sub'[s].email = sub[s].email
             /\ sub'[s].seq = sub[s].seq
  <2>1. CASE SelectFiles(s)
    BY <1>1, <2>1 DEF SelectFiles, TypeOK, SubType
  <2>2. ASSUME NEW f \in File, CopyFile(s, f)
        PROVE  /\ sub[s].pc = "adopting" /\ sub'[s].pc = "copied"
               /\ sub'[s].draft = sub[s].draft /\ sub'[s].email = sub[s].email
               /\ sub'[s].seq = sub[s].seq
    BY <1>1, <2>2 DEF CopyFile, TypeOK, SubType
  <2> QED BY <1>3, <2>1, <2>2
<1>4. CASE RepointRow(s) \/ AdoptionFails(s)
  BY <1>1, <1>4 DEF RepointRow, AdoptionFails, TypeOK, SubType
<1>5. CASE Dies(s)
  BY <1>1, <1>5 DEF Dies, HasCase, TypeOK, SubType
<1> QED BY <1>2, <1>3, <1>4, <1>5 DEF SubmissionStep

LEMMA StepKeepsProofs ==
    ASSUME TypeOK, TypeOK', TokensFit, ProofsFit, [Next]_vars
    PROVE  ProofsFit'
<1> USE DEF ProofsFit, HasCase
<1>1. CASE UNCHANGED <<draft, proved, sub>>
  BY <1>1
<1>2. ASSUME NEW d \in Draft, CreateDraft(d), sub' = sub PROVE ProofsFit'
  <2>1. \A b \in Draft : draft'[b] = draft[b] \/ draft'[b].verified = NoEmail
    BY <1>2 DEF CreateDraft, TypeOK, NewDraft
  <2>2. proved' = proved
    BY <1>2 DEF CreateDraft, verifying
  <2> QED BY <1>2, <2>1, <2>2
<1>3. ASSUME NEW t \in Token, OpenLink(t), sub' = sub PROVE ProofsFit'
  <2>1. \A b \in Draft : \/ draft'[b] = draft[b]
                         \/ b = token[t].draft /\ draft'[b].verified = token[t].email
    BY <1>3 DEF OpenLink, TypeOK, DraftType
  <2>2. proved \subseteq proved' /\ <<token[t].draft, token[t].email>> \in proved'
    BY <1>3 DEF OpenLink
  <2> QED BY <1>3, <2>1, <2>2
<1>4. ASSUME Purge, sub' = sub PROVE ProofsFit'
  <2>1. \A b \in Draft : draft'[b] = draft[b] \/ draft'[b].verified = NoEmail
    BY <1>4, PurgeOfRows
  <2>2. proved' = proved
    BY <1>4 DEF Purge
  <2> QED BY <1>4, <2>1, <2>2
<1>5. ASSUME NEW s \in Submission, SubmissionStep(s), UNCHANGED <<draft, proved>>
      PROVE  ProofsFit'
  <2>1. \A r \in Submission : r # s => sub'[r] = sub[r]
    BY <1>5, OthersWait
  <2>2. sub[s] \in SubType
    BY DEF TypeOK
  <2>3. ASSUME NEW d \in Draft, NEW e \in Email, Begin(s, d, e) PROVE ProofsFit'
    <3>1. sub'[s].draft = d /\ sub'[s].email = e
      BY <2>3 DEF Begin, TypeOK, NewSub
    <3>2. <<d, e>> \in proved
      BY <2>3, IntakeAssumption DEF Begin, Verified
    <3> QED BY <1>5, <2>1, <3>1, <3>2
  <2>4. CASE TakeNumber(s)
    <3>1. /\ sub[s].pc = "verified"
          /\ sub'[s].draft = sub[s].draft /\ sub'[s].email = sub[s].email
      BY <2>2, <2>4 DEF TakeNumber, TypeOK, SubType
    <3> QED BY <1>5, <2>1, <3>1
  <2>5. CASE sub'[s] = [NewSub EXCEPT !.pc = "dead"]
    BY <1>5, <2>1, <2>5 DEF NewSub
  <2>6. ASSUME CommitCase(s) \/ sub[s].pc \notin {"verified", "numbered"} \/ HasCase(s),
               sub'[s].pc \notin {"idle", "verified", "numbered"},
               sub'[s].draft = sub[s].draft, sub'[s].email = sub[s].email,
               sub'[s].seq = sub[s].seq
        PROVE  ProofsFit'
    <3>1. CommitCase(s) => sub[s].pc = "numbered"
      BY DEF CommitCase
    <3> QED BY <1>5, <2>1, <2>6, <3>1
  <2> QED BY <1>5, <2>3, <2>4, <2>5, <2>6, StepOfSubmission
<1>6. CASE Verifies /\ UNCHANGED sub
  <2>1. ASSUME \/ \E t \in Token, d \in Draft, e \in Email : SendLink(t, d, e)
               \/ \E t \in Token : StoreToken(t)
               \/ Tick
        PROVE  UNCHANGED <<draft, proved>>
    BY <2>1 DEF SendLink, StoreToken, Tick, verifying
  <2> QED BY <1>1, <1>2, <1>3, <1>4, <1>6, <2>1 DEF Verifies
<1> QED BY <1>1, <1>5, <1>6, Shape DEF vars

-----------------------------------------------------------------------------
(* The numbers *)

(* A step that begins no case, ends none and gives no number.               *)
LEMMA NumbersStay ==
    ASSUME NumbersFit, lastSeq' = lastSeq,
           \A s \in Submission :
               /\ sub'[s].seq = sub[s].seq
               /\ HasCase(s)' <=> HasCase(s)
               /\ sub'[s].pc = "numbered" => sub[s].pc = "numbered"
               /\ sub'[s].pc \in {"idle", "verified"} => sub[s].seq = 0
    PROVE  NumbersFit'
<1>1. Cases' = Cases
  BY DEF Cases
<1>2. {sub'[s].seq : s \in Cases'} = {sub[s].seq : s \in Cases}
  BY <1>1 DEF Cases
<1>3. IsFiniteSet(Cases') /\ ReferencesAreDense'
  BY <1>1, <1>2 DEF NumbersFit, ReferencesAreDense
<1> QED BY <1>3 DEF NumbersFit

LEMMA StepKeepsNumbers ==
    ASSUME TypeOK, TypeOK', NumbersFit, [Next]_vars
    PROVE  NumbersFit'
<1>1. CASE UNCHANGED <<sub, lastSeq>>
  BY <1>1, NumbersStay DEF HasCase, NumbersFit
<1>2. ASSUME NEW s \in Submission, SubmissionStep(s) PROVE NumbersFit'
  <2>1. \A r \in Submission : r # s => sub'[r] = sub[r]
    BY <1>2, OthersWait
  <2>2. sub[s] \in SubType /\ lastSeq \in Nat
    BY DEF TypeOK
  <2>3. ASSUME NEW d \in Draft, NEW e \in Email, Begin(s, d, e) PROVE NumbersFit'
    <3>1. /\ sub[s].pc = "idle" /\ sub[s].seq = 0
          /\ sub'[s].pc = "verified" /\ sub'[s].seq = 0 /\ lastSeq' = lastSeq
      BY <2>3 DEF Begin, TypeOK, NewSub, NumbersFit
    <3> QED BY <2>1, <3>1, NumbersStay DEF HasCase, NumbersFit
  <2>4. CASE TakeNumber(s)
    <3>1. /\ sub[s].pc = "verified" /\ sub[s].seq = 0 /\ lastSeq' = lastSeq
          /\ sub'[s].pc = "numbered" /\ sub'[s].seq = lastSeq + 1
          /\ \A r \in Submission : sub[r].pc # "numbered"
      BY <2>2, <2>4 DEF TakeNumber, NumberFree, TypeOK, SubType, NumbersFit
    <3>2. Cases' = Cases /\ s \notin Cases
      BY <2>1, <3>1 DEF Cases, HasCase
    <3>3. {sub'[r].seq : r \in Cases'} = {sub[r].seq : r \in Cases}
      BY <2>1, <3>2 DEF Cases
    <3>4. IsFiniteSet(Cases') /\ ReferencesAreDense'
      BY <3>1, <3>2, <3>3 DEF NumbersFit, ReferencesAreDense
    <3>5. \A r \in Submission :
            /\ sub'[r].pc \in {"idle", "verified"} => sub'[r].seq = 0
            /\ sub'[r].pc = "numbered" => r = s
      BY <2>1, <3>1 DEF NumbersFit
    <3> QED BY <3>1, <3>4, <3>5 DEF NumbersFit
  <2>5. CASE CommitCase(s)
    <3>1. /\ sub[s].pc = "numbered" /\ sub[s].seq = lastSeq + 1 /\ lastSeq' = lastSeq + 1
          /\ sub'[s].pc = "committed" /\ sub'[s].seq = lastSeq + 1
      BY <2>2, <2>5 DEF CommitCase, Goes, TypeOK, SubType, NumbersFit
    <3>2. Cases' = Cases \cup {s} /\ s \notin Cases
      BY <2>1, <2>2, <3>1 DEF Cases, HasCase
    <3>3. {sub'[r].seq : r \in Cases'} = {sub[r].seq : r \in Cases} \cup {lastSeq + 1}
      BY <2>1, <3>1, <3>2 DEF Cases
    <3>4. /\ {sub[r].seq : r \in Cases} = 1..lastSeq
          /\ IsFiniteSet(Cases) /\ Cardinality(Cases) = lastSeq
      BY DEF NumbersFit, ReferencesAreDense
    <3>5. 1..(lastSeq + 1) = (1..lastSeq) \cup {lastSeq + 1}
      BY <2>2
    <3>6. IsFiniteSet(Cases') /\ Cardinality(Cases') = lastSeq + 1
      BY <3>2, <3>4, FS_AddElement
    <3>7. ReferencesAreDense'
      BY <3>1, <3>3, <3>4, <3>5, <3>6 DEF ReferencesAreDense
    <3>8. \A r \in Submission :
            /\ sub'[r].pc \in {"idle", "verified"} => sub'[r].seq = 0
            /\ sub'[r].pc # "numbered"
      BY <2>1, <3>1 DEF NumbersFit
    <3> QED BY <3>6, <3>7, <3>8 DEF NumbersFit
  <2>6. ASSUME Dies(s), ~HasCase(s), sub'[s] = [NewSub EXCEPT !.pc = "dead"]
        PROVE  NumbersFit'
    <3>1. lastSeq' = lastSeq /\ sub'[s].pc = "dead" /\ sub'[s].seq = 0
      BY <2>6 DEF Dies, NewSub
    <3>2. Cases' = Cases /\ s \notin Cases
      BY <2>1, <2>6, <3>1 DEF Cases, HasCase
    <3>3. {sub'[r].seq : r \in Cases'} = {sub[r].seq : r \in Cases}
      BY <2>1, <3>2 DEF Cases
    <3>4. IsFiniteSet(Cases') /\ ReferencesAreDense'
      BY <3>1, <3>2, <3>3 DEF NumbersFit, ReferencesAreDense
    <3>5. \A r \in Submission :
            /\ sub'[r].pc \in {"idle", "verified"} => sub'[r].seq = 0
            /\ sub'[r].pc = "numbered" =>
                 /\ sub'[r].seq = lastSeq + 1
                 /\ \A q \in Submission : sub'[q].pc = "numbered" => q = r
      BY <2>1, <3>1 DEF NumbersFit
    <3> QED BY <3>1, <3>4, <3>5 DEF NumbersFit
  <2>7. ASSUME ~CommitCase(s), sub[s].pc \notin {"verified", "numbered"} \/ HasCase(s),
               sub'[s].pc \notin {"idle", "verified", "numbered"},
               sub'[s].seq = sub[s].seq
        PROVE  NumbersFit'
    <3>1. lastSeq' = lastSeq
      BY <1>2, <2>7, OthersWait
    <3>2. sub[s].pc # "numbered"
      BY <2>7 DEF HasCase
    <3> QED BY <2>1, <2>7, <3>1, <3>2, NumbersStay DEF HasCase, NumbersFit
  <2> QED BY <1>2, <2>3, <2>4, <2>5, <2>6, <2>7, StepOfSubmission
<1> QED BY <1>1, <1>2, Shape DEF vars

-----------------------------------------------------------------------------
(* The files *)

LEMMA UploadKeepsFiles ==
    ASSUME TypeOK, TypeOK', FilesFit, Uploads, sub' = sub
    PROVE  FilesFit'
<1> USE DEF FilesFit, AdoptionsFit, UploadsFit, FilesAreSafe
<1>1. ASSUME NEW f \in File, \A g \in File : g # f => file'[g] = file[g],
             file[f].pc \in {"idle", "admitted", "stored"}, file'[f].of = NoCase,
             disk \subseteq disk',
             file'[f].pc = "stored" => <<f, NoCase>> \in disk',
             file'[f].pc = "filed" => file[f].pc = "stored"
      PROVE  FilesFit'
  <2>1. AdoptionsFit'
    <3>1. \A g \in File : /\ file[g].pc = "filed" => file'[g] = file[g]
                          /\ file[g].of # NoCase => file'[g] = file[g]
      BY <1>1
    <3>2. \A s \in Submission : /\ sub[s].todo \subseteq File /\ sub[s].moving \subseteq File
                                /\ sub[s].before \subseteq File
      BY DEF TypeOK, SubType
    <3> QED BY <1>1, <3>1, <3>2
  <2>2. UploadsFit'
    BY <1>1
  <2>3. CaseFilesExist'
    BY <1>1 DEF CaseFilesExist
  <2>4. BytesAreKept'
    <3>1. ASSUME NEW g \in File, file'[g].pc = "filed"
          PROVE  \E c \in Submission \cup {NoCase} : <<g, c>> \in disk'
      BY <1>1, <3>1 DEF BytesAreKept
    <3> QED BY <3>1 DEF BytesAreKept
  <2>5. AdoptionIsComplete'
    <3>1. \A s \in Submission : sub[s].before \subseteq File
      BY DEF TypeOK, SubType
    <3> QED BY <1>1, <3>1 DEF AdoptionIsComplete
  <2> QED BY <2>1, <2>2, <2>3, <2>4, <2>5
<1>2. ASSUME NEW f \in File, NEW d \in Draft, AdmitUpload(f, d) PROVE FilesFit'
  <2>1. file'[f].pc = "admitted" /\ file'[f].of = NoCase
    BY <1>2 DEF AdmitUpload, TypeOK, NewFile
  <2> QED BY <1>1, <1>2, <2>1 DEF AdmitUpload, TypeOK
<1>3. ASSUME NEW f \in File, StoreUpload(f) PROVE FilesFit'
  <2>1. file' = [file EXCEPT ![f].pc = "stored"] /\ disk' = disk \cup {<<f, NoCase>>}
    BY <1>3 DEF StoreUpload
  <2>2. file[f].pc = "admitted" /\ file[f].of = NoCase
    BY <1>3 DEF StoreUpload, FilesFit, UploadsFit
  <2>3. file'[f].pc = "stored" /\ file'[f].of = NoCase /\ <<f, NoCase>> \in disk'
    BY <2>1, <2>2 DEF TypeOK, FileType
  <2>4. disk \subseteq disk' /\ \A g \in File : g # f => file'[g] = file[g]
    BY <2>1 DEF TypeOK
  <2> QED BY <1>1, <2>2, <2>3, <2>4
<1>4. ASSUME NEW f \in File, FileUpload(f) PROVE FilesFit'
  <2>1. file' = [file EXCEPT ![f].pc = "filed"] /\ disk' = disk /\ file[f].pc = "stored"
    BY <1>4 DEF FileUpload
  <2>2. file[f] \in FileType /\ file[f].of = NoCase
    BY <2>1 DEF TypeOK, FilesFit, UploadsFit
  <2>3. file'[f].pc = "filed" /\ file'[f].of = NoCase
    BY <2>1, <2>2 DEF TypeOK, FileType
  <2>4. \A g \in File : g # f => file'[g] = file[g]
    BY <2>1 DEF TypeOK
  <2> QED BY <1>1, <2>1, <2>3, <2>4
<1>5. ASSUME NEW f \in File, UploadDies(f) PROVE FilesFit'
  <2>1. file'[f].pc = "dead" /\ file'[f].of = NoCase
    BY <1>5 DEF UploadDies, TypeOK, NewFile
  <2> QED BY <1>1, <1>5, <2>1 DEF UploadDies, TypeOK
<1> QED BY <1>2, <1>3, <1>4, <1>5 DEF Uploads

(* What AdoptionsFit says of one submission.                                *)
Fits(s) ==
    /\ \A f \in sub[s].todo \cup sub[s].moving : file[f].pc = "filed"
    /\ \A f \in sub[s].moving : <<f, s>> \in disk
    /\ sub[s].pc \notin {"copied", "moved"} => sub[s].moving = {}
    /\ sub[s].pc \in {"verified", "numbered", "committed"} =>
         \A f \in sub[s].before : file[f].pc = "filed" /\ file[f].draft = sub[s].draft
    /\ sub[s].pc \in Adopting =>
         \A f \in sub[s].before :
             file[f].of # NoCase \/ f \in sub[s].todo \cup sub[s].moving
    /\ sub[s].pc \in {"idle", "partly", "dead"} => sub[s].before = {}
    /\ sub[s].pc = "done" => \A f \in sub[s].before : file[f].of # NoCase

(* A submission's step on itself.                                           *)
LEMMA OwnStepFits ==
    ASSUME TypeOK, TypeOK', FilesFit, NEW s \in Submission, SubmissionStep(s)
    PROVE  Fits(s)'
<1>1. sub[s] \in SubType /\ sub[s].before \subseteq File
  BY DEF TypeOK, SubType
<1>2. Fits(s)
  BY DEF FilesFit, AdoptionsFit, FilesAreSafe, AdoptionIsComplete, Fits
<1>3. ASSUME NEW d \in Draft, NEW e \in Email, Begin(s, d, e) PROVE Fits(s)'
  <2>1. sub'[s] = [NewSub EXCEPT !.pc = "verified", !.draft = d, !.email = e,
                                 !.before = FilesOf(d)]
    BY <1>3 DEF Begin, TypeOK
  <2>2. /\ sub'[s].pc = "verified" /\ sub'[s].draft = d /\ sub'[s].todo = {}
        /\ sub'[s].moving = {} /\ sub'[s].before = FilesOf(d)
    BY <2>1 DEF NewSub
  <2>3. file' = file
    BY <1>3 DEF Begin
  <2> QED BY <2>2, <2>3 DEF Fits, FilesOf, Adopting
<1>4. CASE TakeNumber(s) \/ CommitCase(s)
  <2>1. /\ file' = file /\ disk' = disk
        /\ sub[s].pc \in {"verified", "numbered"}
        /\ sub'[s].pc \in {"numbered", "committed"}
        /\ sub'[s].draft = sub[s].draft /\ sub'[s].todo = sub[s].todo
        /\ sub'[s].moving = sub[s].moving /\ sub'[s].before = sub[s].before
    BY <1>1, <1>4 DEF TakeNumber, CommitCase, Goes, TypeOK, SubType
  <2> QED BY <1>2, <2>1 DEF Fits, Adopting
<1>5. CASE SelectFiles(s)
  <2>1. /\ file' = file /\ disk' = disk
        /\ sub[s].pc = "committed" /\ sub'[s].pc = "adopting"
        /\ sub'[s].todo = FilesOf(sub[s].draft)
        /\ sub'[s].moving = sub[s].moving /\ sub'[s].before = sub[s].before
    BY <1>1, <1>5 DEF SelectFiles, Rows, TypeOK, SubType
  <2> QED BY <1>1, <1>2, <2>1 DEF Fits, Adopting, FilesOf
<1>6. ASSUME NEW f \in File, CopyFile(s, f) PROVE Fits(s)'
  <2>1. /\ file' = file /\ disk' = disk \cup {<<f, s>>}
        /\ sub[s].pc = "adopting" /\ sub'[s].pc = "copied" /\ f \in sub[s].todo
        /\ sub'[s].todo = sub[s].todo \ {f} /\ sub'[s].moving = {f}
        /\ sub'[s].before = sub[s].before
    BY <1>1, <1>6 DEF CopyFile, CopyWorks, Copied, TypeOK, SubType
  <2> QED BY <1>2, <2>1 DEF Fits, Adopting
<1>7. CASE UnlinkFile(s)
  <2>1. /\ file' = file /\ disk \ (sub[s].moving \X {NoCase}) \subseteq disk'
        /\ sub[s].pc = "copied" /\ sub'[s].pc = "moved"
        /\ sub'[s].todo = sub[s].todo /\ sub'[s].moving = sub[s].moving
        /\ sub'[s].before = sub[s].before
    BY <1>1, <1>7 DEF UnlinkFile, Goes, TypeOK, SubType
  <2>2. \A f \in sub[s].moving : <<f, s>> \in disk'
    BY <1>2, <2>1, IntakeAssumption DEF Fits
  <2> QED BY <1>2, <2>1, <2>2 DEF Fits, Adopting
<1>8. CASE RepointRow(s)
  <2>1. /\ sub[s].pc = "moved" /\ sub'[s].pc = "adopting" /\ sub'[s].moving = {}
        /\ sub'[s].todo = sub[s].todo /\ sub'[s].before = sub[s].before
    BY <1>1, <1>8 DEF RepointRow, TypeOK, SubType
  <2>2. \A f \in File : /\ file'[f].pc = file[f].pc
                        /\ file[f].of # NoCase => file'[f].of # NoCase
                        /\ f \in sub[s].moving => file'[f].of # NoCase
    BY <1>8, IntakeAssumption DEF RepointRow, TypeOK, FileType
  <2>3. sub[s].todo \subseteq File
    BY <1>1 DEF SubType
  <2> QED BY <1>1, <1>2, <2>1, <2>2, <2>3 DEF Fits, Adopting
<1>9. CASE AdoptionFails(s)
  <2>1. /\ sub'[s].pc = "partly" /\ sub'[s].todo = {} /\ sub'[s].moving = {}
        /\ sub'[s].before = {}
    BY <1>1, <1>9 DEF AdoptionFails, TypeOK, SubType
  <2> QED BY <2>1 DEF Fits, Adopting
<1>10. CASE Answer(s)
  <2>1. /\ file' = file /\ sub[s].pc = "adopting" /\ sub[s].todo = {}
        /\ sub'[s].pc = "done" /\ sub'[s].todo = {} /\ sub'[s].moving = sub[s].moving
        /\ sub'[s].before = sub[s].before
    BY <1>1, <1>10 DEF Answer, Goes, TypeOK, SubType
  <2> QED BY <1>2, <2>1 DEF Fits, Adopting
<1>11. CASE Dies(s)
  <2>1. /\ sub'[s].pc = "dead" /\ sub'[s].todo = {} /\ sub'[s].moving = {}
        /\ sub'[s].before = {}
    BY <1>1, <1>11 DEF Dies, TypeOK, SubType, NewSub
  <2> QED BY <2>1 DEF Fits, Adopting
<1> QED BY <1>3, <1>4, <1>5, <1>6, <1>7, <1>8, <1>9, <1>10, <1>11 DEF SubmissionStep

(* Whatever a submission does to files and rows, the files that are         *)
(* confirmed stay so, of their draft, and somewhere on disk.                *)
LEMMA SubmissionsShareFiles ==
    ASSUME TypeOK, TypeOK', FilesFit, NEW s \in Submission, SubmissionStep(s)
    PROVE  /\ \A f \in File :
                /\ file'[f].pc = file[f].pc /\ file'[f].draft = file[f].draft
                /\ \/ file'[f].of = file[f].of
                   \/ f \in sub[s].moving /\ file'[f].of = s /\ <<f, s>> \in disk'
           /\ \A f \in File, r \in Submission : <<f, r>> \in disk => <<f, r>> \in disk'
           /\ \A f \in File : <<f, NoCase>> \in disk =>
                <<f, NoCase>> \in disk' \/ (f \in sub[s].moving /\ <<f, s>> \in disk')
<1>1. \A f \in sub[s].moving : <<f, s>> \in disk
  BY DEF FilesFit, AdoptionsFit
<1>2. CASE RepointRow(s)
  BY <1>1, <1>2 DEF RepointRow, TypeOK, FileType
<1>3. ASSUME NEW f \in File, CopyFile(s, f) PROVE file' = file /\ disk \subseteq disk'
  BY <1>3 DEF CopyFile, Copied
<1>4. CASE UnlinkFile(s)
  <2>1. file' = file /\ disk \ (sub[s].moving \X {NoCase}) \subseteq disk'
    BY <1>4 DEF UnlinkFile
  <2>2. \A f \in File, r \in Submission : <<f, r>> \in disk => <<f, r>> \in disk'
    BY <2>1, IntakeAssumption
  <2>3. \A f \in File : <<f, NoCase>> \in disk => <<f, NoCase>> \in disk' \/ f \in sub[s].moving
    BY <2>1
  <2> QED BY <1>1, <2>1, <2>2, <2>3
<1>5. CASE UNCHANGED <<file, disk>>
  BY <1>5
<1>6. ~RepointRow(s) => file' = file
  BY OthersWait
<1> QED BY <1>2, <1>3, <1>4, <1>5, <1>6, OthersWait

LEMMA SubmissionKeepsFiles ==
    ASSUME TypeOK, TypeOK', FilesFit, NEW s \in Submission, SubmissionStep(s)
    PROVE  FilesFit'
<1>1. \A r \in Submission : r # s => sub'[r] = sub[r]
  BY OthersWait
<1>2. \A r \in Submission : /\ sub[r].todo \subseteq File /\ sub[r].moving \subseteq File
                            /\ sub[r].before \subseteq File
  BY DEF TypeOK, SubType
<1>3. \A r \in Submission : Fits(r)
  BY DEF FilesFit, AdoptionsFit, FilesAreSafe, AdoptionIsComplete, Fits
<1>4. s # NoCase
  BY IntakeAssumption
<1>5. \A r \in Submission : Fits(r)'
  <2>1. ASSUME NEW r \in Submission, r # s PROVE Fits(r)'
    <3>1. Fits(r) /\ sub'[r] = sub[r]
      BY <1>1, <1>3, <2>1
    <3>2. \A f \in sub[r].moving : <<f, r>> \in disk'
      BY <1>2, <3>1, SubmissionsShareFiles DEF Fits
    <3>3. \A f \in File : /\ file'[f].pc = file[f].pc /\ file'[f].draft = file[f].draft
                          /\ file[f].of # NoCase => file'[f].of # NoCase
      BY <1>4, SubmissionsShareFiles
    <3> QED BY <1>2, <3>1, <3>2, <3>3 DEF Fits
  <2> QED BY <2>1, OwnStepFits
<1>6. AdoptionsFit' /\ AdoptionIsComplete'
  BY <1>5 DEF Fits, AdoptionsFit, AdoptionIsComplete
<1>7. \A f \in sub[s].moving : file[f].pc = "filed"
  BY DEF FilesFit, AdoptionsFit
<1>8. UploadsFit'
  BY <1>7, SubmissionsShareFiles DEF FilesFit, UploadsFit
<1>9. CaseFilesExist'
  <2>1. \A f \in File : file[f].of \in Submission \cup {NoCase}
    BY DEF TypeOK, FileType
  <2> QED BY <2>1, SubmissionsShareFiles DEF FilesFit, FilesAreSafe, CaseFilesExist
<1>10. BytesAreKept'
  BY SubmissionsShareFiles DEF FilesFit, FilesAreSafe, BytesAreKept
<1> QED BY <1>6, <1>8, <1>9, <1>10 DEF FilesFit, FilesAreSafe

LEMMA StepKeepsFiles ==
    ASSUME TypeOK, TypeOK', FilesFit, [Next]_vars
    PROVE  FilesFit'
<1>1. CASE UNCHANGED <<file, disk, sub>>
  <2>1. AdoptionsFit' /\ UploadsFit'
    BY <1>1 DEF FilesFit, AdoptionsFit, UploadsFit
  <2>2. FilesAreSafe'
    BY <1>1 DEF FilesFit, FilesAreSafe, CaseFilesExist, BytesAreKept, AdoptionIsComplete
  <2> QED BY <2>1, <2>2 DEF FilesFit
<1> QED BY <1>1, UploadKeepsFiles, SubmissionKeepsFiles, Shape DEF vars

-----------------------------------------------------------------------------
(* The invariant *)

LEMMA InitFits == ASSUME Init PROVE IInv
<1>1. TypeOK
  <2>1. 0 \in 0..(MaxTime \div Hour)
    BY ZeroWindow
  <2>2. token \in [Token -> TokenType]
    BY <2>1 DEF Init, TokenType, NewToken
  <2>3. counter \in [Keys -> [0..MaxTime -> Nat]]
    BY DEF Init
  <2> QED BY <2>2, <2>3 DEF Init, TypeOK, DraftType, NewDraft, FileType, NewFile, SubType, NewSub
<1>2. InTime
  BY Constants DEF Init, InTime
<1>3. SendsFit
  <2>1. \A t \in Token : token[t].state = "idle"
    BY DEF Init, NewToken
  <2>2. \A w \in 0..MaxTime : SentIn(w) = {} /\ \A e \in Email : SentTo(w, e) = {}
    BY <2>1 DEF SentIn, SentTo
  <2>3. \A w \in 0..MaxTime : counter["ip"][w] = 0 /\ \A e \in Email : counter[e][w] = 0
    BY DEF Init, Keys
  <2>4. Counted({}, 0, IpLimit) /\ Counted({}, 0, EmailLimit)
    BY FS_EmptySet, Constants DEF Counted
  <2> QED BY <2>2, <2>3, <2>4 DEF SendsFit
<1>4. TokensFit
  BY DEF Init, TokensFit, HasRow, NewToken
<1>5. ProofsFit
  BY DEF Init, ProofsFit, HasCase, NewDraft, NewSub
<1>6. NumbersFit
  <2>1. Cases = {} /\ {sub[s].seq : s \in Cases} = {} /\ 1..lastSeq = {} /\ lastSeq = 0
    BY DEF Init, Cases, HasCase, NewSub
  <2>2. IsFiniteSet(Cases) /\ ReferencesAreDense
    BY <2>1, FS_EmptySet DEF ReferencesAreDense
  <2> QED BY <2>2 DEF Init, NumbersFit, NewSub
<1>7. FilesFit
  BY DEF Init, FilesFit, AdoptionsFit, UploadsFit, FilesAreSafe, CaseFilesExist, BytesAreKept,
         AdoptionIsComplete, NewFile, NewSub, Adopting
<1> QED BY <1>1, <1>2, <1>3, <1>4, <1>5, <1>6, <1>7 DEF IInv

(* Everything the requests under way rely on holds of every run of the      *)
(* intake: the clock, the counters, the links, the numbers, the files.      *)
THEOREM IntakeFits == Spec => []IInv
<1>1. ASSUME IInv, [Next]_vars PROVE IInv'
  <2> USE <1>1
  <2>1. TypeOK' /\ InTime'
    BY StepIsTyped DEF IInv
  <2>2. SendsFit' /\ TokensFit'
    BY <2>1, StepKeepsSends, StepKeepsTokens DEF IInv
  <2>3. ProofsFit' /\ NumbersFit' /\ FilesFit'
    BY <2>1, StepKeepsProofs, StepKeepsNumbers, StepKeepsFiles DEF IInv
  <2> QED BY <2>1, <2>2, <2>3 DEF IInv
<1> QED BY <1>1, InitFits, PTL DEF Spec

(* The reference numbers of the cases are 1, 2, 3, ... without a gap or a   *)
(* repetition, however many submissions overlap or roll back.               *)
THEOREM NumbersAreDense == Spec => []ReferencesAreDense
<1>1. IInv => ReferencesAreDense
  BY DEF IInv, NumbersFit
<1> QED BY <1>1, IntakeFits, PTL

(* Every case carries an address whose link was opened for that very draft, *)
(* however the draft's address changes while submissions are under way.     *)
THEOREM AddressesAreProved == Spec => []AddressWasProved
<1>1. IInv => AddressWasProved
  BY DEF IInv, ProofsFit, AddressWasProved, Cases
<1> QED BY <1>1, IntakeFits, PTL

(* A file listed on a case is in its directory, no confirmed upload loses   *)
(* its bytes, and a submission that ends well leaves none behind, whatever  *)
(* step of whichever adoption dies.                                         *)
THEOREM FilesStaySafe == Spec => []FilesAreSafe
<1>1. IInv => FilesAreSafe
  BY DEF IInv, FilesFit
<1> QED BY <1>1, IntakeFits, PTL

LEMMA SendsFitTheLimits == ASSUME IInv PROVE SendsWithinLimit
<1>1. ASSUME NEW w \in 0..MaxTime
      PROVE  /\ Cardinality(SentIn(w)) <= IpLimit
             /\ \A e \in Email : Cardinality(SentTo(w, e)) <= EmailLimit
  BY <1>1 DEF IInv, SendsFit, Counted
<1> QED BY <1>1 DEF SendsWithinLimit, SentIn, SentTo

LEMMA OldDraftsAreDue == ASSUME IInv PROVE OldAddressesAreDue
<1> SUFFICES ASSUME NEW d \in Draft, draft[d].state = "open",
                    draft[d].expires + TokenTTL + Grace < now
             PROVE  d \in OldDrafts
  BY DEF OldAddressesAreDue
<1>1. draft[d].expires \in Nat /\ now \in Nat
  BY DEF IInv, TypeOK, DraftType
<1>2. draft[d].expires + Grace < now
  BY <1>1, Constants
<1>3. ASSUME NEW t \in Token, HasRow(t), token[t].draft = d PROVE t \in OldTokens
  <2>1. token[t].expires \in Nat /\ token[t].expires <= draft[d].expires + TokenTTL
    BY <1>3 DEF IInv, TypeOK, TokenType, TokensFit
  <2>2. token[t].expires + Grace < now
    BY <1>1, <2>1, Constants
  <2> QED BY <1>3, <2>2 DEF OldTokens
<1> QED BY <1>2, <1>3 DEF OldDrafts

(* The limits on links hold in every window, and no address is held back    *)
(* from the purge by the links that were sent for it.                       *)
THEOREM LimitsHold == Spec => []IntakeInv
<1>1. IInv => IntakeInv
  BY SendsFitTheLimits, OldDraftsAreDue DEF IInv, IntakeInv
<1> QED BY <1>1, IntakeFits, PTL

-----------------------------------------------------------------------------
(* Induction on the naturals, stated of a set.                              *)
LEMMA Least ==
    ASSUME NEW T, T \subseteq Nat, T # {}
    PROVE  \E n \in T : \A m \in T : n <= m
<1> DEFINE R == OpToRel(<, Nat)
<1>1. IsWellFoundedOn(R, Nat)
  BY NatLessThanWellFounded
<1>2. \E x \in T : \A y \in T : ~ (<<y, x>> \in R)
  <2> HIDE DEF R
  <2> QED BY <1>1, WFMin
<1>3. PICK n \in T : \A m \in T : ~ (<<m, n>> \in R)
  BY <1>2
<1>4. \A m \in T : n <= m
  <2> SUFFICES ASSUME NEW m \in T, ~(n <= m) PROVE FALSE
    OBVIOUS
  <2>1. m \in Nat /\ n \in Nat /\ m < n
    OBVIOUS
  <2>2. <<m, n>> \in R
    BY <2>1 DEF OpToRel
  <2> QED BY <1>3, <2>2
<1> QED BY <1>4

LEMMA Upwards ==
    ASSUME NEW S, 0 \in S, \A n \in Nat : n \in S => n + 1 \in S
    PROVE  Nat \subseteq S
<1> SUFFICES ASSUME Nat \ S # {} PROVE FALSE
  OBVIOUS
<1>1. PICK n \in Nat \ S : \A m \in Nat \ S : n <= m
  BY Least
<1>2. n # 0 /\ n - 1 \in Nat
  OBVIOUS
<1>3. n - 1 \in S
  BY <1>1, <1>2
<1> QED BY <1>2, <1>3

-----------------------------------------------------------------------------
(* The form under edit (FormEditor) *)

Component == [id: Nat, key: Nat, type: {"text", "area", "button"}, rev: Nat]
Version == [doc: Seq(Component), base: Nat, removed: SUBSET Nat]
Page == [open: BOOLEAN, doc: Seq(Component), version: Nat, dirty: BOOLEAN, selected: Nat,
         aim: Nat, from: Nat, removed: SUBSET Nat, apart: BOOLEAN]
Kept == {"same", "edited", "reloaded", "gone"}
Operation == {"publish", "restore", "load"}
Progress == {"asked", "done"}
(* A request, whatever number it has.                                        *)
IsCall(c) ==
    \E k : c \in [n: {k}, op: Operation, at: Progress, version: Nat, doc: Seq(Component),
                  base: Nat, removed: SUBSET Nat, kept: Kept]

EditorTypeOK ==
    /\ versions \in Seq(Version) /\ versions # <<>>
    /\ page \in [Builder -> Page]
    /\ calls = [p \in Builder |-> calls[p]]
    /\ \A p \in Builder : \A c \in calls[p] : IsCall(c)
    /\ edits \in Nat

(* A component has one place in a document, and the identity of the next new *)
(* one is nobody's.                                                          *)
Distinct(doc) == \A i, j \in DOMAIN doc : doc[i].id = doc[j].id => i = j
KnownIds == 1 .. 3 + edits
DocFits(doc) == Distinct(doc) /\ IdsOf(doc) \subseteq KnownIds

(* What has been removed is gone, and nothing else that was in the version   *)
(* the document was made from.                                               *)
Removed(doc, base, removed) ==
    /\ removed \subseteq KnownIds /\ removed \cap IdsOf(doc) = {}
    /\ base \in DOMAIN versions
    /\ IdsOf(versions[base].doc) \ removed \subseteq IdsOf(doc)

(* Only an open page has a document, or awaits one.                          *)
PageFits(q) ==
    /\ DocFits(q.doc)
    /\ q.version # 0 =>
         /\ q.open /\ q.version \in DOMAIN versions
         /\ Removed(q.doc, q.from, q.removed)
         /\ q.dirty \/ q.apart \/ q.doc = versions[q.version].doc
    /\ q.aim # 0 => ~Shifts(q, q.doc)

(* A publication under way is of the page's document of the moment it was    *)
(* pressed: what has been edited since was made from it, and what has been   *)
(* loaded since was not.                                                     *)
PublicationFits(q, c) ==
    /\ DocFits(c.doc) /\ Removed(c.doc, c.base, c.removed)
    /\ c.at = "done" => c.version \in DOMAIN versions /\ versions[c.version].doc = c.doc
    /\ c.kept # "gone" => q.version # 0
    /\ c.kept \in {"same", "edited"} => IdsOf(c.doc) \ q.removed \subseteq IdsOf(q.doc)
    /\ c.kept = "same" => q.doc = c.doc
CallFits(q, c) ==
    /\ c.op = "publish" => PublicationFits(q, c)
    /\ c.op = "load" \/ (c.op = "restore" /\ c.kept # "gone") => q.open
    /\ c.op = "restore" \/ (c.op = "load" /\ c.at = "done") => c.version \in DOMAIN versions

VersionsFit ==
    \A v \in DOMAIN versions : DocFits(versions[v].doc) /\ validateSchema(versions[v].doc)

EditorIInv ==
    /\ EditorTypeOK
    /\ VersionsFit
    /\ NobodysFieldIsDropped
    /\ \A p \in Builder : PageFits(page[p]) /\ \A c \in calls[p] : CallFits(page[p], c)

(* Of the places of a sequence there is a first.                             *)
LEMMA FirstOfIsFirst ==
    ASSUME NEW places, places \subseteq Nat, places # {}
    PROVE  FirstOf(places) \in places /\ \A j \in places : FirstOf(places) <= j
<1>1. \E i \in places : \A j \in places : i <= j
  BY Least
<1> QED BY <1>1 DEF FirstOf

(* Editing a component without giving it another identity.                   *)
LEMMA EditKeepsIds ==
    ASSUME NEW doc \in Seq(Component), Distinct(doc), NEW i \in DOMAIN doc,
           NEW c \in Component, c.id = doc[i].id
    PROVE  /\ updateAt(doc, i, c) \in Seq(Component)
           /\ Len(updateAt(doc, i, c)) = Len(doc)
           /\ Distinct(updateAt(doc, i, c))
           /\ IdsOf(updateAt(doc, i, c)) = IdsOf(doc)
           /\ \A j \in DOMAIN doc : updateAt(doc, i, c)[j].id = doc[j].id
<1> DEFINE d == updateAt(doc, i, c)
<1>1. /\ d \in Seq(Component) /\ Len(d) = Len(doc) /\ DOMAIN d = DOMAIN doc
      /\ \A j \in DOMAIN doc : d[j] = IF j = i THEN c ELSE doc[j]
  BY ExceptSeq, LenProperties DEF updateAt
<1>2. \A j \in DOMAIN doc : d[j].id = doc[j].id
  BY <1>1
<1> HIDE DEF d
<1>3. Distinct(d) /\ IdsOf(d) = IdsOf(doc)
  BY <1>1, <1>2 DEF Distinct, IdsOf
<1> QED BY <1>1, <1>2, <1>3 DEF d

(* Moving one up exchanges it with the one above.                            *)
LEMMA MoveKeepsIds ==
    ASSUME NEW doc \in Seq(Component), Distinct(doc), NEW i \in DOMAIN doc
    PROVE  /\ moveAt(doc, i) \in Seq(Component)
           /\ Len(moveAt(doc, i)) = Len(doc)
           /\ Distinct(moveAt(doc, i))
           /\ IdsOf(moveAt(doc, i)) = IdsOf(doc)
           /\ \A j \in DOMAIN doc :
                i = 1 \/ j \notin {i - 1, i} => moveAt(doc, i)[j] = doc[j]
<1> DEFINE d == moveAt(doc, i)
<1>0. DOMAIN doc = 1 .. Len(doc) /\ Len(doc) \in Nat
  BY LenProperties
<1>1. CASE i = 1
  BY <1>1 DEF moveAt
<1>2. CASE i # 1
  <2>1. i - 1 \in DOMAIN doc /\ i - 1 # i
    BY <1>0, <1>2
  <2>2. /\ d \in Seq(Component) /\ Len(d) = Len(doc) /\ DOMAIN d = DOMAIN doc
        /\ d[i - 1] = doc[i] /\ d[i] = doc[i - 1]
        /\ \A j \in DOMAIN doc : j \notin {i - 1, i} => d[j] = doc[j]
    <3>1. d = [[doc EXCEPT ![i - 1] = doc[i]] EXCEPT ![i] = doc[i - 1]]
      BY <1>2 DEF moveAt
    <3>2. PICK e : e = [doc EXCEPT ![i - 1] = doc[i]]
      OBVIOUS
    <3>3. /\ e \in Seq(Component) /\ Len(e) = Len(doc)
          /\ \A j \in 1 .. Len(doc) : e[j] = IF j = i - 1 THEN doc[i] ELSE doc[j]
      BY <3>2, <2>1, <1>0, ExceptSeq, ElementOfSeq
    <3>4. /\ [e EXCEPT ![i] = doc[i - 1]] \in Seq(Component)
          /\ Len([e EXCEPT ![i] = doc[i - 1]]) = Len(doc)
          /\ \A j \in 1 .. Len(doc) :
                [e EXCEPT ![i] = doc[i - 1]][j] = IF j = i THEN doc[i - 1] ELSE e[j]
      BY <3>3, <2>1, <1>0, ExceptSeq, ElementOfSeq
    <3> HIDE DEF d
    <3> QED BY <3>1, <3>2, <3>3, <3>4, <2>1, <1>0, LenProperties
  <2> HIDE DEF d
  <2>3. Distinct(d)
    BY <2>1, <2>2 DEF Distinct
  <2>4. IdsOf(d) = IdsOf(doc)
    BY <2>1, <2>2 DEF IdsOf
  <2> QED BY <2>1, <2>2, <2>3, <2>4, <1>2 DEF d
<1> QED BY <1>1, <1>2

(* Removing a component takes its identity away, and those below move up.    *)
LEMMA RemovalTakesOneId ==
    ASSUME NEW doc \in Seq(Component), Distinct(doc), NEW i \in DOMAIN doc
    PROVE  /\ removeAt(doc, i) \in Seq(Component)
           /\ Len(removeAt(doc, i)) = Len(doc) - 1
           /\ Distinct(removeAt(doc, i))
           /\ IdsOf(removeAt(doc, i)) = IdsOf(doc) \ {doc[i].id}
           /\ \A j \in 1 .. i - 1 : removeAt(doc, i)[j] = doc[j]
<1> DEFINE d == removeAt(doc, i)
           above == SubSeq(doc, 1, i - 1)
           below == SubSeq(doc, i + 1, Len(doc))
<1>0. /\ DOMAIN doc = 1 .. Len(doc) /\ Len(doc) \in Nat /\ i \in 1 .. Len(doc)
      /\ \A j \in 1 .. Len(doc) : doc[j] \in Component
  BY LenProperties, ElementOfSeq
<1>1. /\ above \in Seq(Component) /\ Len(above) = i - 1
      /\ \A j \in 1 .. i - 1 : above[j] = doc[j]
  <2>1. \A j \in 1 .. i - 1 : doc[j] \in Component
    BY <1>0
  <2>2. /\ above \in Seq(Component) /\ Len(above) = IF 1 <= i - 1 THEN (i - 1) - 1 + 1 ELSE 0
        /\ \A j \in 1 .. (i - 1) - 1 + 1 : above[j] = doc[1 + j - 1]
    BY <2>1, <1>0, SubSeqProperties
  <2> HIDE DEF above
  <2> QED BY <2>2, <1>0
<1>2. /\ below \in Seq(Component) /\ Len(below) = Len(doc) - i
      /\ \A j \in 1 .. Len(doc) - i : below[j] = doc[i + j]
  <2>1. \A j \in i + 1 .. Len(doc) : doc[j] \in Component
    BY <1>0
  <2>2. /\ below \in Seq(Component)
        /\ Len(below) = IF i + 1 <= Len(doc) THEN Len(doc) - (i + 1) + 1 ELSE 0
        /\ \A j \in 1 .. Len(doc) - (i + 1) + 1 : below[j] = doc[i + 1 + j - 1]
    BY <2>1, <1>0, SubSeqProperties
  <2> HIDE DEF below
  <2> QED BY <2>2, <1>0
<1>3. d = above \o below
  BY DEF removeAt, RemoveAt
<1>4. /\ d \in Seq(Component) /\ Len(d) = Len(doc) - 1
      /\ \A j \in 1 .. Len(doc) - 1 : d[j] = IF j < i THEN doc[j] ELSE doc[j + 1]
  <2>1. /\ above \o below \in Seq(Component)
        /\ Len(above \o below) = Len(above) + Len(below)
        /\ \A j \in 1 .. Len(above) + Len(below) :
             (above \o below)[j] = IF j <= Len(above) THEN above[j] ELSE below[j - Len(above)]
    BY <1>1, <1>2, ConcatProperties
  <2> HIDE DEF above, below, d
  <2>2. \A j \in 1 .. Len(doc) - 1 : d[j] = IF j < i THEN doc[j] ELSE doc[j + 1]
    <3> SUFFICES ASSUME NEW j \in 1 .. Len(doc) - 1
                 PROVE  d[j] = IF j < i THEN doc[j] ELSE doc[j + 1]
      OBVIOUS
    <3>1. CASE j < i
      BY <3>1, <2>1, <1>0, <1>1, <1>2, <1>3
    <3>2. CASE ~(j < i)
      <4>1. j - (i - 1) \in 1 .. Len(doc) - i /\ i + (j - (i - 1)) = j + 1
        BY <3>2, <1>0
      <4>2. d[j] = below[j - (i - 1)]
        BY <3>2, <2>1, <1>0, <1>1, <1>2, <1>3
      <4> QED BY <3>2, <4>1, <4>2, <1>2
    <3> QED BY <3>1, <3>2
  <2>3. d \in Seq(Component)
    BY <2>1, <1>3
  <2>4. Len(d) = (i - 1) + (Len(doc) - i)
    BY <2>1, <1>1, <1>2, <1>3
  <2>5. Len(d) = Len(doc) - 1
    BY <2>4, <1>0
  <2> QED BY <2>2, <2>3, <2>5
<1> HIDE DEF above, below, d
<1>5. DOMAIN d = 1 .. Len(doc) - 1
  BY <1>4, LenProperties
<1>6. Distinct(d)
  <2> SUFFICES ASSUME NEW j \in DOMAIN d, NEW k \in DOMAIN d, d[j].id = d[k].id
               PROVE  j = k
    BY DEF Distinct
  <2>1. PICK a \in DOMAIN doc : d[j] = doc[a] /\ a = IF j < i THEN j ELSE j + 1
    BY <1>0, <1>4, <1>5
  <2>2. PICK b \in DOMAIN doc : d[k] = doc[b] /\ b = IF k < i THEN k ELSE k + 1
    BY <1>0, <1>4, <1>5
  <2>3. a = b
    BY <2>1, <2>2 DEF Distinct
  <2> QED BY <2>1, <2>2, <2>3, <1>0, <1>5
<1>7. IdsOf(d) = IdsOf(doc) \ {doc[i].id}
  <2>1. ASSUME NEW j \in DOMAIN d
        PROVE  d[j].id \in IdsOf(doc) \ {doc[i].id}
    <3>1. PICK a \in DOMAIN doc : d[j] = doc[a] /\ a = IF j < i THEN j ELSE j + 1
      BY <1>0, <1>4, <1>5
    <3>2. a # i
      BY <3>1, <1>0, <1>5
    <3> QED BY <3>1, <3>2 DEF IdsOf, Distinct
  <2>2. ASSUME NEW a \in DOMAIN doc, doc[a].id # doc[i].id
        PROVE  doc[a].id \in IdsOf(d)
    <3>1. PICK j \in DOMAIN d : d[j] = doc[a]
      <4>1. a # i
        BY <2>2
      <4>2. CASE a < i
        BY <4>2, <1>0, <1>4, <1>5
      <4>3. CASE a > i
        <5>1. a - 1 \in DOMAIN d /\ ~(a - 1 < i) /\ (a - 1) + 1 = a
          BY <4>3, <1>0, <1>5
        <5> QED BY <5>1, <1>4, <1>5
      <4> QED BY <4>1, <4>2, <4>3, <1>0
    <3> QED BY <3>1 DEF IdsOf
  <2> QED BY <2>1, <2>2 DEF IdsOf
<1>8. \A j \in 1 .. i - 1 : d[j] = doc[j]
  <2>1. \A j \in 1 .. i - 1 : j \in 1 .. Len(doc) - 1 /\ j < i
    BY <1>0
  <2> QED BY <2>1, <1>4
<1> QED BY <1>4, <1>6, <1>7, <1>8 DEF d

(* A component is added in one place: before the first button, or last.      *)
LEMMA AdditionBringsOneId ==
    ASSUME NEW doc \in Seq(Component), Distinct(doc),
           NEW c \in Component, c.id \notin IdsOf(doc)
    PROVE  /\ appendRoot(doc, c) \in Seq(Component)
           /\ Distinct(appendRoot(doc, c))
           /\ IdsOf(appendRoot(doc, c)) = IdsOf(doc) \cup {c.id}
           /\ \A j \in DOMAIN appendRoot(doc, c) :
                appendRoot(doc, c)[j] = c \/ \E k \in DOMAIN doc : appendRoot(doc, c)[j] = doc[k]
           /\ \E j \in DOMAIN appendRoot(doc, c) : appendRoot(doc, c)[j] = c
<1> DEFINE d == appendRoot(doc, c)
           buttons == {i \in DOMAIN doc : doc[i].type = "button"}
           submit == FirstOf(buttons)
<1>0. DOMAIN doc = 1 .. Len(doc) /\ Len(doc) \in Nat
  BY LenProperties
<1>1. PICK n \in 1 .. Len(doc) + 1 :
        /\ d \in Seq(Component) /\ Len(d) = Len(doc) + 1 /\ d[n] = c
        /\ \A j \in 1 .. n - 1 : d[j] = doc[j]
        /\ \A j \in n + 1 .. Len(doc) + 1 : d[j] = doc[j - 1]
  <2>1. CASE buttons = {}
    <3>1. d = Append(doc, c)
      BY <2>1 DEF appendRoot, FirstOf
    <3>2. /\ d \in Seq(Component) /\ Len(d) = Len(doc) + 1 /\ d[Len(doc) + 1] = c
          /\ \A j \in 1 .. Len(doc) : d[j] = doc[j]
      BY <3>1, AppendProperties
    <3>3. Len(doc) + 1 \in 1 .. Len(doc) + 1
      BY <1>0
    <3> HIDE DEF d
    <3> QED BY <3>2, <3>3, <1>0
  <2>2. CASE buttons # {}
    <3>1. buttons \subseteq Nat
      BY <1>0
    <3>2. submit \in buttons
      <4> HIDE DEF buttons
      <4> QED BY <2>2, <3>1, FirstOfIsFirst
    <3>3. submit \in 1 .. Len(doc) /\ submit # 0
      BY <3>2, <1>0
    <3> DEFINE above == SubSeq(doc, 1, submit - 1)
               below == SubSeq(doc, submit, Len(doc))
    <3>4. d = (above \o <<c>>) \o below
      BY <3>3 DEF appendRoot, InsertAt
    <3> HIDE DEF submit, d
    <3>5. /\ above \in Seq(Component) /\ Len(above) = submit - 1
          /\ \A j \in 1 .. submit - 1 : above[j] = doc[j]
      <4>1. \A j \in 1 .. submit - 1 : doc[j] \in Component
        BY <1>0, <3>3, ElementOfSeq
      <4>2. /\ above \in Seq(Component)
            /\ Len(above) = IF 1 <= submit - 1 THEN (submit - 1) - 1 + 1 ELSE 0
            /\ \A j \in 1 .. (submit - 1) - 1 + 1 : above[j] = doc[1 + j - 1]
        BY <4>1, <1>0, <3>3, SubSeqProperties
      <4> HIDE DEF above
      <4> QED BY <4>2, <1>0, <3>3
    <3>6. /\ below \in Seq(Component) /\ Len(below) = Len(doc) - submit + 1
          /\ \A j \in 1 .. Len(doc) - submit + 1 : below[j] = doc[submit + j - 1]
      <4>1. \A j \in submit .. Len(doc) : doc[j] \in Component
        BY <1>0, <3>3, ElementOfSeq
      <4>2. /\ below \in Seq(Component)
            /\ Len(below) = IF submit <= Len(doc) THEN Len(doc) - submit + 1 ELSE 0
            /\ \A j \in 1 .. Len(doc) - submit + 1 : below[j] = doc[submit + j - 1]
        BY <4>1, <1>0, <3>3, SubSeqProperties
      <4> HIDE DEF below
      <4> QED BY <4>2, <1>0, <3>3
    <3> HIDE DEF above, below
    <3> DEFINE head == above \o <<c>>
    <3>7. /\ head \in Seq(Component) /\ Len(head) = submit /\ head[submit] = c
          /\ \A j \in 1 .. submit - 1 : head[j] = doc[j]
      <4>1. <<c>> \in Seq(Component) /\ Len(<<c>>) = 1 /\ <<c>>[1] = c
        OBVIOUS
      <4>2. /\ head \in Seq(Component) /\ Len(head) = Len(above) + Len(<<c>>)
            /\ \A j \in 1 .. Len(above) + Len(<<c>>) :
                 head[j] = IF j <= Len(above) THEN above[j] ELSE <<c>>[j - Len(above)]
        BY <4>1, <3>5, ConcatProperties
      <4> HIDE DEF head
      <4>3. Len(head) = submit
        BY <4>1, <4>2, <3>3, <3>5
      <4>4. submit \in 1 .. (submit - 1) + 1 /\ ~(submit <= submit - 1) /\ submit - (submit - 1) = 1
        BY <3>3
      <4>5. head[submit] = <<c>>[1]
        BY <4>1, <4>2, <4>4, <3>5
      <4>6. \A j \in 1 .. submit - 1 : head[j] = doc[j]
        <5>1. \A j \in 1 .. submit - 1 : j \in 1 .. (submit - 1) + 1 /\ j <= submit - 1
          BY <3>3
        <5> QED BY <5>1, <4>1, <4>2, <3>5
      <4> QED BY <4>1, <4>2, <4>3, <4>5, <4>6
    <3>8. d = head \o below
      BY <3>4
    <3> HIDE DEF head
    <3>9. /\ d \in Seq(Component) /\ Len(d) = submit + (Len(doc) - submit + 1)
          /\ \A j \in 1 .. submit + (Len(doc) - submit + 1) :
               d[j] = IF j <= submit THEN head[j] ELSE below[j - submit]
      <4>1. /\ head \o below \in Seq(Component)
            /\ Len(head \o below) = Len(head) + Len(below)
            /\ \A j \in 1 .. Len(head) + Len(below) :
                 (head \o below)[j] = IF j <= Len(head) THEN head[j] ELSE below[j - Len(head)]
        BY <3>6, <3>7, ConcatProperties
      <4> QED BY <4>1, <3>6, <3>7, <3>8
    <3>10. Len(d) = Len(doc) + 1
      BY <3>9, <3>3, <1>0
    <3>11. d[submit] = c /\ \A j \in 1 .. submit - 1 : d[j] = doc[j]
      <4>1. submit + (Len(doc) - submit + 1) = Len(doc) + 1
        BY <3>3, <1>0
      <4>2. \A j \in 1 .. submit : j \in 1 .. Len(doc) + 1 /\ j <= submit
        BY <3>3, <1>0
      <4>3. \A j \in 1 .. submit : d[j] = head[j]
        BY <4>1, <4>2, <3>9
      <4>4. submit \in 1 .. submit /\ \A j \in 1 .. submit - 1 : j \in 1 .. submit
        BY <3>3
      <4> QED BY <4>3, <4>4, <3>7
    <3>12. \A j \in submit + 1 .. Len(doc) + 1 : d[j] = doc[j - 1]
      <4> SUFFICES ASSUME NEW j \in submit + 1 .. Len(doc) + 1
                   PROVE  d[j] = doc[j - 1]
        OBVIOUS
      <4>1. /\ j \in 1 .. submit + (Len(doc) - submit + 1) /\ ~(j <= submit)
            /\ j - submit \in 1 .. Len(doc) - submit + 1
            /\ submit + (j - submit) - 1 = j - 1
        BY <3>3, <1>0
      <4> QED BY <4>1, <3>6, <3>9
    <3>13. submit \in 1 .. Len(doc) + 1
      BY <3>3, <1>0
    <3> QED BY <3>9, <3>10, <3>11, <3>12, <3>13
  <2> QED BY <2>1, <2>2
<1> HIDE DEF d
<1>2. DOMAIN d = 1 .. Len(doc) + 1
  BY <1>1, LenProperties
<1>3. \A j \in DOMAIN d : j # n =>
        \E k \in DOMAIN doc : d[j] = doc[k] /\ k = IF j < n THEN j ELSE j - 1
  <2> SUFFICES ASSUME NEW j \in DOMAIN d, j # n
               PROVE  \E k \in DOMAIN doc : d[j] = doc[k] /\ k = IF j < n THEN j ELSE j - 1
    OBVIOUS
  <2>1. CASE j < n
    <3>1. j \in 1 .. n - 1 /\ j \in DOMAIN doc
      BY <2>1, <1>0, <1>2
    <3> QED BY <3>1, <2>1, <1>1
  <2>2. CASE j > n
    <3>1. j \in n + 1 .. Len(doc) + 1 /\ j - 1 \in DOMAIN doc /\ ~(j < n)
      BY <2>2, <1>0, <1>2
    <3> QED BY <3>1, <1>1
  <2> QED BY <2>1, <2>2, <1>0, <1>2
<1>4. n \in DOMAIN d /\ d[n] = c
  BY <1>1, <1>2
<1>5. Distinct(d)
  <2> SUFFICES ASSUME NEW i \in DOMAIN d, NEW j \in DOMAIN d, d[i].id = d[j].id, i # j
               PROVE  FALSE
    BY DEF Distinct
  <2>1. i # n /\ j # n
    BY <1>3, <1>4 DEF IdsOf
  <2>2. PICK a \in DOMAIN doc : d[i] = doc[a] /\ a = IF i < n THEN i ELSE i - 1
    BY <2>1, <1>3
  <2>3. PICK b \in DOMAIN doc : d[j] = doc[b] /\ b = IF j < n THEN j ELSE j - 1
    BY <2>1, <1>3
  <2>4. a = b
    BY <2>2, <2>3 DEF Distinct
  <2> QED BY <2>1, <2>2, <2>3, <2>4, <1>0, <1>2
<1>6. \A k \in DOMAIN doc : \E j \in DOMAIN d : d[j] = doc[k]
  <2> SUFFICES ASSUME NEW k \in DOMAIN doc
               PROVE  \E j \in DOMAIN d : d[j] = doc[k]
    OBVIOUS
  <2>1. CASE k < n
    <3>1. k \in 1 .. n - 1 /\ k \in DOMAIN d
      BY <2>1, <1>0, <1>2
    <3> QED BY <3>1, <1>1
  <2>2. CASE k >= n
    <3>1. k + 1 \in n + 1 .. Len(doc) + 1 /\ k + 1 \in DOMAIN d /\ (k + 1) - 1 = k
      BY <2>2, <1>0, <1>2
    <3> QED BY <3>1, <1>1
  <2> QED BY <2>1, <2>2, <1>0
<1>7. IdsOf(d) = IdsOf(doc) \cup {c.id}
  <2>1. \A j \in DOMAIN d : d[j].id \in IdsOf(doc) \cup {c.id}
    BY <1>3, <1>4 DEF IdsOf
  <2>2. \A k \in DOMAIN doc : doc[k].id \in IdsOf(d)
    BY <1>6 DEF IdsOf
  <2>3. c.id \in IdsOf(d)
    BY <1>4 DEF IdsOf
  <2> QED BY <2>1, <2>2, <2>3 DEF IdsOf
<1>8. \A j \in DOMAIN d : d[j] = c \/ \E k \in DOMAIN doc : d[j] = doc[k]
  BY <1>3, <1>4
<1> QED BY <1>1, <1>4, <1>5, <1>7, <1>8 DEF d

(* A new component gets a name no field has: among so many there is one.     *)
LEMMA NewKeyIsFree ==
    ASSUME NEW doc \in Seq(Component)
    PROVE  uniqueKey(doc) \in Nat /\ uniqueKey(doc) \notin collectKeys(doc)
<1> DEFINE names == 2 .. Len(doc) + 2
           free == {k \in names : k \notin collectKeys(doc)}
<1>0. DOMAIN doc = 1 .. Len(doc) /\ Len(doc) \in Nat
  BY LenProperties
<1>1. free # {}
  <2> SUFFICES ASSUME free = {} PROVE FALSE
    OBVIOUS
  <2>1. \A k \in names : \E i \in 1 .. Len(doc) : doc[i].key = k
    BY <1>0 DEF collectKeys
  <2> DEFINE f == [i \in 1 .. Len(doc) |-> IF doc[i].key \in names THEN doc[i].key ELSE 2]
  <2>2. 2 \in names
    BY <1>0
  <2>3. f \in [1 .. Len(doc) -> names]
    BY <2>2
  <2>4. \A k \in names : \E i \in 1 .. Len(doc) : f[i] = k
    BY <2>1
  <2> HIDE DEF f
  <2>5. f \in Surjection(1 .. Len(doc), names)
    BY <2>3, <2>4 DEF Surjection
  <2>6. ExistsSurjection(1 .. Len(doc), names)
    BY <2>5 DEF ExistsSurjection
  <2>7. Cardinality(names) <= Len(doc)
    <3> HIDE DEF names
    <3> QED BY <2>6, <1>0, FS_SurjCardinalityBound
  <2>8. Cardinality(names) = Len(doc) + 1
    <3>1. Len(doc) + 2 \in Int /\ 2 \in Int /\ ~(2 > Len(doc) + 2)
      BY <1>0
    <3>2. Cardinality(names) = (Len(doc) + 2) - 2 + 1
      BY <3>1, FS_Interval
    <3> QED BY <3>2, <1>0
  <2> QED BY <2>7, <2>8, <1>0
<1>2. free \subseteq Nat
  BY <1>0
<1>3. PICK k \in free : \A j \in free : k <= j
  <2> HIDE DEF free
  <2> QED BY <1>1, <1>2, Least
<1>4. \A j \in 2 .. k - 1 : j \in collectKeys(doc)
  <2> SUFFICES ASSUME NEW j \in 2 .. k - 1, j \notin collectKeys(doc) PROVE FALSE
    OBVIOUS
  <2>1. j \in names /\ ~(k <= j)
    BY <1>0, <1>2
  <2> QED BY <2>1, <1>3
<1>5. uniqueKey(doc) \in names /\ uniqueKey(doc) \notin collectKeys(doc)
  BY <1>3, <1>4 DEF uniqueKey
<1> QED BY <1>0, <1>5

LEMMA EditorBegins ==
    EditorInit => EditorIInv
<1> SUFFICES ASSUME EditorInit PROVE EditorIInv
  OBVIOUS
<1>1. FirstForm \in Seq(Component) /\ DOMAIN FirstForm = 1 .. 3
  BY DEF FirstForm, Part, Component
<1>2. /\ FirstForm[1].id = 1 /\ FirstForm[2].id = 2 /\ FirstForm[3].id = 3
      /\ FirstForm[1].key = 1 /\ FirstForm[2].key = 2
      /\ isField(FirstForm[1]) /\ isField(FirstForm[2]) /\ ~isField(FirstForm[3])
  BY DEF FirstForm, Part, isField
<1>3. DocFits(FirstForm)
  BY <1>1, <1>2 DEF DocFits, Distinct, IdsOf, KnownIds, EditorInit
<1>4. validateSchema(FirstForm)
  <2>1. FirstForm # <<>>
    BY DEF FirstForm
  <2>2. ~Duplicated(FirstForm)
    BY <1>1, <1>2 DEF Duplicated
  <2>3. 1 \in collectKeys(FirstForm)
    BY <1>1, <1>2 DEF collectKeys
  <2> QED BY <2>1, <2>2, <2>3 DEF validateSchema
<1>5. /\ versions \in Seq(Version) /\ DOMAIN versions = {1} /\ Len(versions) = 1
      /\ versions[1].doc = FirstForm
  BY <1>1 DEF EditorInit, Version
<1>6. ClosedPage \in Page
  BY DEF ClosedPage, Page
<1>7. EditorTypeOK
  BY <1>5, <1>6 DEF EditorTypeOK, EditorInit
<1>8. VersionsFit
  BY <1>3, <1>4, <1>5 DEF VersionsFit
<1>9. NobodysFieldIsDropped
  BY <1>5 DEF NobodysFieldIsDropped
<1>10. PageFits(ClosedPage)
  BY DEF PageFits, ClosedPage, DocFits, Distinct, IdsOf
<1>11. \A p \in Builder : PageFits(page[p]) /\ calls[p] = {}
  BY <1>10 DEF EditorInit
<1> QED BY <1>7, <1>8, <1>9, <1>11 DEF EditorIInv

LEMMA KnownIdsGrow ==
    ASSUME edits \in Nat, edits' \in Nat, edits' >= edits
    PROVE  KnownIds \subseteq KnownIds'
<1>1. PICK m \in Nat : m = edits
  OBVIOUS
<1>2. PICK n \in Nat : n = edits'
  OBVIOUS
<1>3. m <= n
  BY <1>1, <1>2
<1>4. ASSUME NEW i \in 1 .. 3 + m PROVE i \in 1 .. 3 + n
  BY <1>3
<1> QED BY <1>1, <1>2, <1>4 DEF KnownIds

(* What is known of a page and its requests stays so when others edit or     *)
(* publish.                                                                  *)
LEMMA PagesStay ==
    ASSUME EditorTypeOK, NEW q,
           edits' \in Nat, edits' >= edits,
           DOMAIN versions \subseteq DOMAIN versions',
           \A v \in DOMAIN versions : versions'[v] = versions[v]
    PROVE  /\ PageFits(q) => PageFits(q)'
           /\ \A c : CallFits(q, c) => CallFits(q, c)'
<1>1. KnownIds \subseteq KnownIds'
  BY KnownIdsGrow DEF EditorTypeOK
<1>2. \A doc : DocFits(doc) => DocFits(doc)'
  BY <1>1 DEF DocFits
<1>3. \A doc, base, removed : Removed(doc, base, removed) => Removed(doc, base, removed)'
  BY <1>1 DEF Removed
<1>4. \A c : PublicationFits(q, c) => PublicationFits(q, c)'
  BY <1>2, <1>3 DEF PublicationFits
<1>5. PageFits(q) => PageFits(q)'
  BY <1>2, <1>3 DEF PageFits
<1>6. \A c : CallFits(q, c) => CallFits(q, c)'
  BY <1>4 DEF CallFits
<1> QED BY <1>5, <1>6

(* What one browser does, and what may be published meanwhile.               *)
LEMMA BrowserSteps ==
    ASSUME EditorIInv, NEW p \in Builder, NEW q \in Page, NEW cs,
           page' = [page EXCEPT ![p] = q], calls' = [calls EXCEPT ![p] = cs],
           edits' \in Nat, edits' >= edits,
           versions' \in Seq(Version), versions' # <<>>,
           DOMAIN versions \subseteq DOMAIN versions',
           \A v \in DOMAIN versions : versions'[v] = versions[v],
           VersionsFit', NobodysFieldIsDropped',
           PageFits(q)', \A c \in cs : IsCall(c) /\ CallFits(q, c)'
    PROVE  EditorIInv'
<1>1. /\ page \in [Builder -> Page] /\ calls = [r \in Builder |-> calls[r]]
      /\ \A r \in Builder : \A c \in calls[r] : IsCall(c)
  BY DEF EditorIInv, EditorTypeOK
<1>2. /\ page'[p] = q /\ calls'[p] = cs
      /\ \A r \in Builder \ {p} : page'[r] = page[r] /\ calls'[r] = calls[r]
      /\ page' \in [Builder -> Page] /\ calls' = [r \in Builder |-> calls'[r]]
  BY <1>1
<1>3. \A r \in Builder : \A c \in calls'[r] : IsCall(c)
  BY <1>1, <1>2
<1>4. EditorTypeOK'
  BY <1>2, <1>3 DEF EditorTypeOK, IsCall
<1>5. ASSUME NEW r \in Builder
      PROVE  PageFits(page[r])' /\ \A c \in calls'[r] : CallFits(page[r], c)'
  <2>1. CASE r = p
    BY <2>1, <1>2
  <2>2. CASE r # p
    <3>1. PICK s : s = page[r] /\ s = page'[r] /\ PageFits(s) /\ calls'[r] = calls[r]
      BY <2>2, <1>2 DEF EditorIInv
    <3>2. \A c \in calls[r] : CallFits(s, c)
      BY <3>1 DEF EditorIInv
    <3>3. PageFits(s)' /\ \A c \in calls[r] : CallFits(s, c)'
      BY <3>1, <3>2, PagesStay DEF EditorIInv
    <3> QED BY <3>1, <3>3
  <2> QED BY <2>1, <2>2
<1> QED BY <1>4, <1>5 DEF EditorIInv

LEMMA PageSteps ==
    ASSUME EditorIInv, NEW p \in Builder, NEW q \in Page, NEW cs,
           page' = [page EXCEPT ![p] = q], calls' = [calls EXCEPT ![p] = cs],
           UNCHANGED versions, edits' \in Nat, edits' >= edits,
           PageFits(q)', \A c \in cs : IsCall(c) /\ CallFits(q, c)'
    PROVE  EditorIInv'
<1>1. VersionsFit'
  <2>1. KnownIds \subseteq KnownIds'
    BY KnownIdsGrow DEF EditorTypeOK, EditorIInv
  <2> QED BY <2>1 DEF EditorIInv, VersionsFit, DocFits
<1>2. NobodysFieldIsDropped'
  BY DEF EditorIInv, NobodysFieldIsDropped
<1>3. /\ versions' \in Seq(Version) /\ versions' # <<>>
      /\ DOMAIN versions \subseteq DOMAIN versions'
      /\ \A v \in DOMAIN versions : versions'[v] = versions[v]
  BY DEF EditorIInv, EditorTypeOK
<1> QED BY <1>1, <1>2, <1>3, BrowserSteps

(* A request is made, read or answered, and the page stays as it is.         *)
LEMMA CallSteps ==
    ASSUME EditorIInv, NEW p \in Builder, NEW cs,
           UNCHANGED <<versions, page, edits>>, calls' = [calls EXCEPT ![p] = cs],
           \A c \in cs : c \in calls[p] \/ (IsCall(c) /\ CallFits(page[p], c))
    PROVE  EditorIInv'
<1>1. PICK q \in Page : q = page[p] /\ PageFits(q)
  BY DEF EditorIInv, EditorTypeOK
<1>2. page' = [page EXCEPT ![p] = q]
  BY <1>1 DEF EditorIInv, EditorTypeOK
<1>3. \A c \in cs : IsCall(c) /\ CallFits(q, c)
  BY <1>1 DEF EditorIInv, EditorTypeOK
<1>4. /\ edits' \in Nat /\ edits' >= edits /\ DOMAIN versions \subseteq DOMAIN versions'
      /\ \A v \in DOMAIN versions : versions'[v] = versions[v]
  BY DEF EditorIInv, EditorTypeOK
<1>5. PageFits(q)' /\ \A c \in cs : IsCall(c) /\ CallFits(q, c)'
  BY <1>1, <1>3, <1>4, PagesStay DEF EditorIInv
<1> QED BY <1>2, <1>4, <1>5, PageSteps

(* A version is stored.                                                      *)
LEMMA VersionSteps ==
    ASSUME EditorIInv, NEW p \in Builder, NEW cs, NEW v \in Version,
           UNCHANGED <<page, edits>>, calls' = [calls EXCEPT ![p] = cs],
           versions' = Append(versions, v), DocFits(v.doc), validateSchema(v.doc),
           v.base = Len(versions) =>
             IdsOf(versions[Len(versions)].doc) \ v.removed \subseteq IdsOf(v.doc),
           \A c \in cs : c \in calls[p] \/ (IsCall(c) /\ CallFits(page[p], c)')
    PROVE  EditorIInv'
<1> DEFINE n == Len(versions)
<1>0. n \in Nat /\ DOMAIN versions = 1 .. n
  BY LenProperties DEF EditorIInv, EditorTypeOK
<1>1. /\ versions' \in Seq(Version) /\ versions' # <<>> /\ Len(versions') = n + 1
      /\ DOMAIN versions' = 1 .. n + 1 /\ versions'[n + 1] = v
      /\ \A i \in 1 .. n : versions'[i] = versions[i]
  BY AppendProperties, LenProperties DEF EditorIInv, EditorTypeOK
<1>2. VersionsFit'
  BY <1>0, <1>1 DEF EditorIInv, VersionsFit, DocFits, KnownIds
<1>3. NobodysFieldIsDropped'
  <2> SUFFICES ASSUME NEW i \in 2 .. Len(versions'), versions'[i].base = i - 1
               PROVE  IdsOf(versions'[i - 1].doc) \ versions'[i].removed
                        \subseteq IdsOf(versions'[i].doc)
    BY DEF NobodysFieldIsDropped
  <2>1. CASE i = n + 1
    <3>1. n \in 1 .. n /\ i - 1 = n
      BY <2>1, <1>0, <1>1
    <3> QED BY <2>1, <3>1, <1>1
  <2>2. CASE i # n + 1
    <3>1. i \in 2 .. n /\ i \in 1 .. n /\ i - 1 \in 1 .. n
      BY <2>2, <1>0, <1>1
    <3> QED BY <3>1, <1>1 DEF EditorIInv, NobodysFieldIsDropped
  <2> QED BY <2>1, <2>2
<1>4. PICK q \in Page : q = page[p] /\ q = page'[p] /\ PageFits(q)
  BY DEF EditorIInv, EditorTypeOK
<1>5. page' = [page EXCEPT ![p] = q]
  BY <1>4 DEF EditorIInv, EditorTypeOK
<1>6. /\ edits' \in Nat /\ edits' >= edits /\ DOMAIN versions \subseteq DOMAIN versions'
      /\ \A i \in DOMAIN versions : versions'[i] = versions[i]
  BY <1>0, <1>1 DEF EditorIInv, EditorTypeOK
<1>7. PageFits(q)' /\ \A c \in calls[p] : CallFits(q, c)'
  <2>1. \A c \in calls[p] : CallFits(q, c)
    BY <1>4 DEF EditorIInv
  <2> QED BY <2>1, <1>4, <1>6, PagesStay DEF EditorIInv
<1>8. \A c \in cs : IsCall(c) /\ CallFits(q, c)'
  BY <1>4, <1>7 DEF EditorIInv, EditorTypeOK
<1> HIDE DEF n
<1> QED BY <1>1, <1>2, <1>3, <1>5, <1>6, <1>7, <1>8, BrowserSteps

(* What becomes of a publication under way when its page changes.            *)
LEMMA OnlyKeptChanges ==
    ASSUME NEW c, IsCall(c), NEW kept \in Kept, NEW d, d = [c EXCEPT !.kept = kept]
    PROVE  /\ IsCall(d) /\ d.op = c.op /\ d.doc = c.doc /\ d.base = c.base
           /\ d.removed = c.removed /\ d.at = c.at /\ d.version = c.version /\ d.kept = kept
<1>1. PICK k : c \in [n: {k}, op: Operation, at: Progress, version: Nat, doc: Seq(Component),
                      base: Nat, removed: SUBSET Nat, kept: Kept]
  BY DEF IsCall
<1>2. d \in [n: {k}, op: Operation, at: Progress, version: Nat, doc: Seq(Component),
             base: Nat, removed: SUBSET Nat, kept: Kept]
  BY <1>1
<1>3. IsCall(d)
  BY <1>2 DEF IsCall
<1> QED BY <1>1, <1>3

(* A request that asks for nothing but a version, or for the latest.         *)
LEMMA PlainCalls ==
    ASSUME NEW cs, NEW op \in Operation, NEW version \in Nat
    PROVE  \E c : /\ c = Call(cs, op, version)
                 /\ IsCall(c) /\ c.op = op /\ c.at = "asked" /\ c.version = version
<1>1. PICK doc \in Seq(Component) : doc = <<>>
  <2>1. <<>> \in Seq(Component)
    OBVIOUS
  <2> QED BY <2>1
<1>2. PICK removed \in SUBSET Nat : removed = {}
  OBVIOUS
<1>3. PICK k : k = Unused(cs)
  OBVIOUS
<1>4. PICK c : c = [n |-> k, op |-> op, at |-> "asked", version |-> version, doc |-> doc,
                    base |-> 0, removed |-> removed, kept |-> "same"]
  OBVIOUS
<1>5. IsCall(c) /\ c.op = op /\ c.at = "asked" /\ c.version = version
  <2>1. "asked" \in Progress /\ "same" \in Kept /\ 0 \in Nat
    BY DEF Progress, Kept
  <2>2. c \in [n: {k}, op: Operation, at: Progress, version: Nat, doc: Seq(Component),
               base: Nat, removed: SUBSET Nat, kept: Kept]
    BY <2>1, <1>4
  <2> QED BY <2>2, <1>4 DEF IsCall
<1>6. c = Call(cs, op, version)
  BY <1>1, <1>2, <1>3, <1>4 DEF Call
<1> QED BY <1>5, <1>6

(* A change of the document that takes away only what it says it removes:    *)
(* it was made from the same version, and from what is being published.      *)
LEMMA DocumentSteps ==
    ASSUME EditorIInv, NEW p \in Builder, Seen(p), NEW q \in Page, NEW gone \in SUBSET Nat,
           Changes(p, q), q.dirty, q.open = page[p].open,
           q.apart = page[p].apart, q.from = page[p].from,
           q.version = page[p].version, q.removed = page[p].removed \cup gone,
           Distinct(q.doc), IdsOf(q.doc) \subseteq KnownIds',
           gone \subseteq IdsOf(page[p].doc), gone \cap IdsOf(q.doc) = {},
           IdsOf(page[p].doc) \ gone \subseteq IdsOf(q.doc),
           IdsOf(q.doc) \cap page[p].removed = {},
           q.aim # 0 /\ q.selected # 0 =>
             q.selected <= Len(q.doc) /\ q.doc[q.selected].id = q.aim
    PROVE  EditorIInv'
<1>1. PICK q0 \in Page : q0 = page[p] /\ PageFits(q0)
  BY DEF EditorIInv, EditorTypeOK
<1>2. edits \in Nat /\ edits' \in Nat /\ edits' >= edits /\ UNCHANGED versions
  BY DEF EditorIInv, EditorTypeOK, Changes
<1>3. KnownIds \subseteq KnownIds'
  BY <1>2, KnownIdsGrow
<1>4. Removed(q.doc, q.from, q.removed)' /\ q.version # 0
      /\ q.version \in DOMAIN versions' /\ q.open
  BY <1>1, <1>2, <1>3 DEF Removed, PageFits, DocFits, Seen
<1>5. q.aim # 0 => ~Shifts(q, q.doc)
  BY LenProperties DEF Shifts, Page
<1>6. DocFits(q.doc)'
  BY DEF DocFits
<1>7. PageFits(q)'
  BY <1>4, <1>5, <1>6 DEF PageFits
<1>8. PICK cs : cs = {Edited(c) : c \in calls[p]}
  OBVIOUS
<1>9. calls' = [calls EXCEPT ![p] = cs] /\ page' = [page EXCEPT ![p] = q]
  BY <1>8 DEF Changes
<1>10. ASSUME NEW c \in calls[p] PROVE IsCall(Edited(c)) /\ CallFits(q, Edited(c))'
  <2>1. IsCall(c) /\ CallFits(q0, c)
    BY <1>1 DEF EditorIInv, EditorTypeOK
  <2>2. CallFits(q0, c)'
    BY <2>1, <1>2, PagesStay DEF EditorIInv
  <2>3. CASE c.op = "publish" /\ c.kept = "same"
    <3>1. PICK d : d = [c EXCEPT !.kept = "edited"] /\ d = Edited(c)
      BY <2>3 DEF Edited
    <3>2. /\ IsCall(d) /\ d.op = c.op /\ d.doc = c.doc /\ d.base = c.base
          /\ d.removed = c.removed /\ d.at = c.at /\ d.version = c.version /\ d.kept = "edited"
      <4>1. "edited" \in Kept
        BY DEF Kept
      <4> QED BY <4>1, <3>1, <2>1, OnlyKeptChanges
    <3>3. IdsOf(d.doc) \ q.removed \subseteq IdsOf(q.doc)
      BY <1>1, <2>1, <2>3, <3>2 DEF CallFits, PublicationFits
    <3>4. PublicationFits(q, d)'
      BY <2>2, <2>3, <3>2, <3>3, <1>4 DEF CallFits, PublicationFits
    <3> QED BY <3>1, <3>2, <3>4, <2>3 DEF CallFits
  <2>4. CASE c.op = "publish" /\ c.kept # "same"
    <3>1. Edited(c) = c
      BY <2>4 DEF Edited
    <3>2. c.kept = "edited" => IdsOf(c.doc) \ q.removed \subseteq IdsOf(q.doc)
      BY <1>1, <2>1, <2>4 DEF CallFits, PublicationFits
    <3>3. PublicationFits(q, c)'
      BY <2>2, <2>4, <3>2, <1>4 DEF CallFits, PublicationFits
    <3> QED BY <3>1, <3>3, <2>1, <2>4 DEF CallFits
  <2>5. CASE c.op # "publish"
    <3>1. Edited(c) = c
      BY <2>5 DEF Edited
    <3>2. c.op = "load" \/ (c.op = "restore" /\ c.kept # "gone") => q.open
      BY <1>1, <2>1 DEF CallFits
    <3>3. CallFits(q, c)'
      BY <2>2, <2>5, <3>2 DEF CallFits
    <3> QED BY <2>1, <3>1, <3>3
  <2> QED BY <2>3, <2>4, <2>5
<1>11. \A c \in cs : IsCall(c) /\ CallFits(q, c)'
  <2> SUFFICES ASSUME NEW d \in cs PROVE IsCall(d) /\ CallFits(q, d)'
    OBVIOUS
  <2>1. PICK c \in calls[p] : d = Edited(c)
    BY <1>8
  <2> QED BY <2>1, <1>10
<1> QED BY <1>2, <1>7, <1>9, <1>11, PageSteps

LEMMA Editing ==
    ASSUME EditorIInv, NEW p \in Builder, NEW i \in DOMAIN page[p].doc, NEW c \in Component,
           c.id = page[p].doc[i].id, Seen(p),
           Changes(p, Mutated(page[p], updateAt(page[p].doc, i, c)))
    PROVE  EditorIInv'
<1>1. PICK q0 \in Page : q0 = page[p] /\ PageFits(q0)
  BY DEF EditorIInv, EditorTypeOK
<1>2. PICK d : d = updateAt(q0.doc, i, c)
  OBVIOUS
<1>3. /\ d \in Seq(Component) /\ Len(d) = Len(q0.doc) /\ Distinct(d)
      /\ IdsOf(d) = IdsOf(q0.doc) /\ \A j \in DOMAIN q0.doc : d[j].id = q0.doc[j].id
  <2>1. /\ q0.doc \in Seq(Component) /\ Distinct(q0.doc)
        /\ i \in DOMAIN q0.doc /\ c.id = q0.doc[i].id
    BY <1>1 DEF PageFits, DocFits, Page
  <2> QED BY <2>1, <1>2, EditKeepsIds
<1>4. PICK q : q = Mutated(q0, d)
  OBVIOUS
<1>5. Changes(p, q) /\ edits' = edits + 1
  BY <1>1, <1>2, <1>4 DEF Changes
<1>6. /\ q \in Page /\ q.doc = d /\ q.dirty /\ q.removed = q0.removed /\ q.from = q0.from
      /\ q.selected = q0.selected /\ q.aim = q0.aim /\ q.apart = q0.apart
      /\ q.open = q0.open /\ q.version = q0.version
  BY <1>1, <1>3, <1>4 DEF Mutated, Page
<1>7. q0.version # 0
  BY <1>1 DEF Seen
<1>8. IdsOf(d) \subseteq KnownIds'
  <2>1. KnownIds \subseteq KnownIds'
    BY <1>5, KnownIdsGrow DEF EditorIInv, EditorTypeOK
  <2> QED BY <2>1, <1>1, <1>3 DEF PageFits, DocFits
<1>9. IdsOf(d) \cap q0.removed = {}
  BY <1>1, <1>3, <1>7 DEF PageFits, Removed
<1>10. q.aim # 0 /\ q.selected # 0 => q.selected <= Len(d) /\ d[q.selected].id = q.aim
  <2> SUFFICES ASSUME q.selected # 0, q.aim # 0
               PROVE  q.selected <= Len(d) /\ d[q.selected].id = q.aim
    OBVIOUS
  <2>1. q0.selected <= Len(q0.doc) /\ q0.doc[q0.selected].id = q0.aim
    BY <1>1, <1>6, LenProperties DEF PageFits, Shifts, Page
  <2>2. q0.selected \in DOMAIN q0.doc
    BY <2>1, <1>6, LenProperties DEF Page
  <2> QED BY <2>1, <2>2, <1>3, <1>6
<1> QED
  <2>1. q.removed = q0.removed \cup {}
    BY <1>6
  <2> QED BY <2>1, <1>1, <1>3, <1>5, <1>6, <1>7, <1>8, <1>9, <1>10, DocumentSteps

LEMMA MovingUp ==
    ASSUME EditorIInv, NEW p \in Builder, NEW i, MovesUp(p, i)
    PROVE  EditorIInv'
<1>1. PICK q0 \in Page : q0 = page[p] /\ PageFits(q0)
  BY DEF EditorIInv, EditorTypeOK
<1>2. PICK d : d = moveAt(q0.doc, i)
  OBVIOUS
<1>0. /\ q0.doc \in Seq(Component) /\ Distinct(q0.doc) /\ i \in DOMAIN q0.doc
      /\ DOMAIN q0.doc = 1 .. Len(q0.doc) /\ Len(q0.doc) \in Nat
  BY <1>1, LenProperties DEF PageFits, DocFits, Page, MovesUp
<1>3. /\ d \in Seq(Component) /\ Len(d) = Len(q0.doc) /\ Distinct(d)
      /\ IdsOf(d) = IdsOf(q0.doc)
      /\ \A j \in DOMAIN q0.doc : i = 1 \/ j \notin {i - 1, i} => d[j] = q0.doc[j]
  BY <1>0, <1>2, MoveKeepsIds
<1> DEFINE aim == IF i > 1 /\ q0.selected \in {i - 1, i} THEN 0 ELSE q0.aim
<1>4. PICK q : q = [Mutated(q0, d) EXCEPT !.aim = aim]
  OBVIOUS
<1>5. Changes(p, q) /\ edits' = edits + 1 /\ Seen(p)
  <2>1. [Mutated(q0, d) EXCEPT !.aim = IF i > 1 /\ q0.selected \in {i - 1, i} THEN 0 ELSE @] = q
    BY <1>4 DEF Mutated, Page
  <2> QED BY <2>1, <1>1, <1>2 DEF Changes, MovesUp
<1>6. /\ q \in Page /\ q.doc = d /\ q.dirty /\ q.removed = q0.removed /\ q.from = q0.from
      /\ q.selected = q0.selected /\ q.aim = aim /\ q.apart = q0.apart
      /\ q.open = q0.open /\ q.version = q0.version
  <2>1. aim \in Nat
    BY DEF Page
  <2> HIDE DEF aim
  <2> QED BY <2>1, <1>1, <1>3, <1>4 DEF Mutated, Page
<1>7. q0.version # 0
  BY <1>1, <1>5 DEF Seen
<1>8. IdsOf(d) \subseteq KnownIds'
  <2>1. KnownIds \subseteq KnownIds'
    BY <1>5, KnownIdsGrow DEF EditorIInv, EditorTypeOK
  <2> QED BY <2>1, <1>1, <1>3 DEF PageFits, DocFits
<1>9. IdsOf(d) \cap q0.removed = {}
  BY <1>1, <1>3, <1>7 DEF PageFits, Removed
<1>10. q.aim # 0 /\ q.selected # 0 => q.selected <= Len(d) /\ d[q.selected].id = q.aim
  <2> SUFFICES ASSUME q.selected # 0, q.aim # 0
               PROVE  q.selected <= Len(d) /\ d[q.selected].id = q.aim
    OBVIOUS
  <2>1. /\ q0.selected <= Len(q0.doc) /\ q0.doc[q0.selected].id = q0.aim /\ q.aim = q0.aim
        /\ i > 1 => q0.selected \notin {i - 1, i}
    BY <1>1, <1>6 DEF PageFits, Shifts, Page
  <2>2. q0.selected \in DOMAIN q0.doc /\ (i = 1 \/ q0.selected \notin {i - 1, i})
    BY <2>1, <1>0, <1>6 DEF Page
  <2> QED BY <2>1, <2>2, <1>3, <1>6
<1> QED
  <2>1. PICK gone \in SUBSET Nat : gone = {}
    OBVIOUS
  <2>2. /\ q.removed = q0.removed \cup gone /\ gone \subseteq IdsOf(q0.doc)
        /\ gone \cap IdsOf(d) = {} /\ IdsOf(q0.doc) \ gone \subseteq IdsOf(d)
    BY <2>1, <1>3, <1>6
  <2>3. /\ Distinct(q.doc) /\ IdsOf(q.doc) \subseteq KnownIds' /\ gone \cap IdsOf(q.doc) = {}
        /\ IdsOf(q0.doc) \ gone \subseteq IdsOf(q.doc) /\ IdsOf(q.doc) \cap q0.removed = {}
        /\ q.aim # 0 /\ q.selected # 0 =>
             q.selected <= Len(q.doc) /\ q.doc[q.selected].id = q.aim
    BY <2>2, <1>3, <1>6, <1>8, <1>9, <1>10
  <2> QED BY <2>2, <2>3, <1>1, <1>5, <1>6, DocumentSteps

LEMMA Removing ==
    ASSUME EditorIInv, NEW p \in Builder, NEW i, Removes(p, i)
    PROVE  EditorIInv'
<1>1. PICK q0 \in Page : q0 = page[p] /\ PageFits(q0)
  BY DEF EditorIInv, EditorTypeOK
<1>2. PICK d : d = removeAt(q0.doc, i)
  OBVIOUS
<1>0. /\ q0.doc \in Seq(Component) /\ Distinct(q0.doc) /\ i \in DOMAIN q0.doc
      /\ DOMAIN q0.doc = 1 .. Len(q0.doc) /\ Len(q0.doc) \in Nat
  BY <1>1, LenProperties DEF PageFits, DocFits, Page, Removes
<1>3. /\ d \in Seq(Component) /\ Len(d) = Len(q0.doc) - 1 /\ Distinct(d)
      /\ IdsOf(d) = IdsOf(q0.doc) \ {q0.doc[i].id}
      /\ \A j \in 1 .. i - 1 : d[j] = q0.doc[j]
  BY <1>0, <1>2, RemovalTakesOneId
<1> DEFINE gone == {q0.doc[i].id}
           selected == IF q0.selected = i THEN 0 ELSE q0.selected
           aim == IF i <= q0.selected THEN 0 ELSE q0.aim
<1>4. PICK q : q = [Mutated(q0, d) EXCEPT !.removed = q0.removed \cup gone,
                                          !.selected = selected, !.aim = aim]
  OBVIOUS
<1>5. Changes(p, q) /\ edits' = edits + 1 /\ Seen(p)
  <2>1. [Mutated(q0, d) EXCEPT
           !.removed = @ \union {q0.doc[i].id},
           !.selected = IF @ = i THEN 0 ELSE @,
           !.aim = IF i <= q0.selected THEN 0 ELSE @] = q
    BY <1>4 DEF Mutated, Page
  <2> QED BY <2>1, <1>1, <1>2 DEF Changes, Removes
<1>11. gone \subseteq Nat /\ gone \subseteq IdsOf(q0.doc)
  <2>1. q0.doc[i] \in Component
    BY <1>0, ElementOfSeq
  <2>2. q0.doc[i].id \in Nat
    BY <2>1 DEF Component
  <2> QED BY <2>2, <1>0 DEF IdsOf
<1>12. selected \in Nat /\ aim \in Nat
  BY DEF Page
<1> HIDE DEF gone, selected, aim
<1>6. /\ q \in Page /\ q.doc = d /\ q.dirty /\ q.removed = q0.removed \cup gone
      /\ q.from = q0.from /\ q.selected = selected /\ q.aim = aim /\ q.apart = q0.apart
      /\ q.open = q0.open /\ q.version = q0.version
  BY <1>1, <1>3, <1>4, <1>11, <1>12 DEF Mutated, Page
<1>7. q0.version # 0
  BY <1>1, <1>5 DEF Seen
<1>8. IdsOf(d) \subseteq KnownIds'
  <2>1. KnownIds \subseteq KnownIds'
    BY <1>5, KnownIdsGrow DEF EditorIInv, EditorTypeOK
  <2> QED BY <2>1, <1>1, <1>3 DEF PageFits, DocFits
<1>9. /\ IdsOf(d) \cap q0.removed = {} /\ gone \cap IdsOf(d) = {}
      /\ IdsOf(q0.doc) \ gone \subseteq IdsOf(d)
  BY <1>1, <1>3, <1>7 DEF PageFits, Removed, gone
<1>10. q.aim # 0 /\ q.selected # 0 => q.selected <= Len(d) /\ d[q.selected].id = q.aim
  <2> SUFFICES ASSUME q.selected # 0, q.aim # 0
               PROVE  q.selected <= Len(d) /\ d[q.selected].id = q.aim
    OBVIOUS
  <2>1. /\ ~(i <= q0.selected) /\ q.selected = q0.selected /\ q.aim = q0.aim
        /\ q0.selected \in Nat
    BY <1>6 DEF Page, selected, aim
  <2>2. q0.selected <= Len(q0.doc) /\ q0.doc[q0.selected].id = q0.aim
    BY <1>1, <2>1 DEF PageFits, Shifts, Page
  <2>3. q0.selected \in 1 .. i - 1 /\ q0.selected <= Len(q0.doc) - 1
    <3>1. PICK k \in Nat : k = q0.selected
      BY <2>1
    <3>2. PICK n \in Nat : n = Len(q0.doc)
      BY <1>0
    <3>3. i \in 1 .. n /\ ~(i <= k) /\ k # 0
      BY <2>1, <3>1, <3>2, <1>0
    <3>4. k \in 1 .. i - 1 /\ k <= n - 1
      BY <3>3
    <3> QED BY <3>1, <3>2, <3>4
  <2> QED BY <2>1, <2>2, <2>3, <1>3, <1>6
<1> QED BY <1>11, <1>1, <1>3, <1>5, <1>6, <1>8, <1>9, <1>10, DocumentSteps

LEMMA Adding ==
    ASSUME EditorIInv, NEW p \in Builder, NEW type \in {"text", "area"}, Adds(p, type)
    PROVE  EditorIInv'
<1>1. PICK q0 \in Page : q0 = page[p] /\ PageFits(q0)
  BY DEF EditorIInv, EditorTypeOK
<1>2. PICK c : c = newComponent(q0.doc, type)
  OBVIOUS
<1>0. /\ q0.doc \in Seq(Component) /\ Distinct(q0.doc)
      /\ DOMAIN q0.doc = 1 .. Len(q0.doc) /\ Len(q0.doc) \in Nat
  BY <1>1, LenProperties DEF PageFits, DocFits, Page
<1>3. c \in Component /\ c.id = 4 + edits /\ c.type = type
  BY <1>0, <1>2, NewKeyIsFree DEF newComponent, Part, Component, EditorIInv, EditorTypeOK
<1>12. c.id \notin KnownIds /\ c.id \in KnownIds'
  <2>1. edits \in Nat /\ edits' = edits + 1
    BY DEF EditorIInv, EditorTypeOK, Adds, Changes
  <2>2. 4 + edits \notin 1 .. 3 + edits /\ 4 + edits \in 1 .. 3 + (edits + 1)
    BY <2>1
  <2> QED BY <2>1, <2>2, <1>3 DEF KnownIds
<1>13. PICK d : d = appendRoot(q0.doc, c)
  OBVIOUS
<1>4. /\ d \in Seq(Component) /\ Distinct(d) /\ IdsOf(d) = IdsOf(q0.doc) \cup {c.id}
      /\ \A j \in DOMAIN d : d[j] = c \/ \E k \in DOMAIN q0.doc : d[j] = q0.doc[k]
      /\ \E j \in DOMAIN d : d[j] = c
  <2>1. c.id \notin IdsOf(q0.doc)
    BY <1>1, <1>12 DEF PageFits, DocFits
  <2>2. PICK form \in Seq(Component) : form = q0.doc /\ Distinct(form) /\ c.id \notin IdsOf(form)
    BY <2>1, <1>0
  <2>3. c \in Component /\ d = appendRoot(form, c)
    BY <2>2, <1>3, <1>13
  <2>4. /\ d \in Seq(Component) /\ Distinct(d) /\ IdsOf(d) = IdsOf(form) \cup {c.id}
        /\ \A j \in DOMAIN d : d[j] = c \/ \E k \in DOMAIN form : d[j] = form[k]
        /\ \E j \in DOMAIN d : d[j] = c
    BY <2>2, <2>3, AdditionBringsOneId
  <2> QED BY <2>2, <2>4
<1> DEFINE places == {j \in DOMAIN d : d[j].type = type}
           taken == FirstOf(places)
           before == \E k \in DOMAIN q0.doc : q0.doc[k].type = type
           aim == IF before THEN 0 ELSE c.id
<1>5. taken \in DOMAIN d /\ d[taken].type = type
  <2>1. places \subseteq Nat /\ places # {}
    BY <1>3, <1>4, LenProperties
  <2>2. taken \in places
    <3> HIDE DEF places
    <3> QED BY <2>1, FirstOfIsFirst
  <2> QED BY <2>2
<1>6. aim # 0 => d[taken].id = aim
  BY <1>4, <1>5
<1>14. taken \in Nat /\ taken <= Len(d)
  BY <1>4, <1>5, LenProperties
<1>7. PICK q : q = [Mutated(q0, d) EXCEPT !.selected = taken, !.aim = aim]
  OBVIOUS
<1>8. Changes(p, q) /\ edits' = edits + 1 /\ Seen(p)
  BY <1>1, <1>2, <1>13, <1>7 DEF Changes, Adds
<1>15. aim \in Nat
  BY <1>3 DEF Component
<1> HIDE DEF taken, places, before, aim
<1>9. /\ q \in Page /\ q.doc = d /\ q.dirty /\ q.removed = q0.removed /\ q.from = q0.from
      /\ q.selected = taken /\ q.aim = aim /\ q.apart = q0.apart
        /\ q.open = q0.open /\ q.version = q0.version
  BY <1>1, <1>3, <1>4, <1>14, <1>15, <1>7 DEF Mutated, Page
<1>10. q0.version # 0
  BY <1>1, <1>8 DEF Seen
<1>11. IdsOf(d) \subseteq KnownIds'
  <2>1. KnownIds \subseteq KnownIds'
    BY <1>8, KnownIdsGrow DEF EditorIInv, EditorTypeOK
  <2> QED BY <2>1, <1>1, <1>4, <1>12 DEF PageFits, DocFits
<1>16. IdsOf(d) \cap q0.removed = {} /\ IdsOf(q0.doc) \subseteq IdsOf(d)
  BY <1>1, <1>4, <1>9, <1>10, <1>12 DEF PageFits, Removed
<1> QED
  <2>1. PICK gone \in SUBSET Nat : gone = {}
    OBVIOUS
  <2>2. /\ q.removed = q0.removed \cup gone /\ gone \subseteq IdsOf(q0.doc)
        /\ gone \cap IdsOf(d) = {} /\ IdsOf(q0.doc) \ gone \subseteq IdsOf(d)
    BY <2>1, <1>9, <1>16
  <2>3. /\ Distinct(q.doc) /\ IdsOf(q.doc) \subseteq KnownIds' /\ gone \cap IdsOf(q.doc) = {}
        /\ IdsOf(q0.doc) \ gone \subseteq IdsOf(q.doc) /\ IdsOf(q.doc) \cap q0.removed = {}
        /\ q.aim # 0 /\ q.selected # 0 =>
             q.selected <= Len(q.doc) /\ q.doc[q.selected].id = q.aim
    BY <2>2, <1>4, <1>6, <1>9, <1>11, <1>14, <1>16
  <2> QED BY <2>2, <2>3, <1>1, <1>8, <1>9, DocumentSteps

(* Edits of the selected component, or of the content beside the components. *)
LEMMA Patching ==
    ASSUME EditorIInv, NEW p \in Builder, NEW key \in Nat,
           patchSelected(p) \/ Renames(p, key) \/ EditsContent(p)
    PROVE  EditorIInv'
<1>1. PICK q0 \in Page : q0 = page[p] /\ PageFits(q0)
  BY DEF EditorIInv, EditorTypeOK
<1>2. \A j \in DOMAIN q0.doc : q0.doc[j] \in Component
  BY LenProperties, ElementOfSeq DEF Page
<1>3. CASE patchSelected(p)
  <2>1. PICK c : c = [q0.doc[q0.selected] EXCEPT !.rev = edits + 1]
    OBVIOUS
  <2>2. q0.selected \in DOMAIN q0.doc /\ Seen(p)
    BY <1>1, <1>3 DEF patchSelected
  <2>3. c \in Component /\ c.id = q0.doc[q0.selected].id
    <3>1. PICK rev \in Nat : rev = edits + 1
      BY DEF EditorIInv, EditorTypeOK
    <3>2. PICK b \in Component : b = q0.doc[q0.selected]
      BY <1>2, <2>2
    <3>3. c = [b EXCEPT !.rev = rev]
      BY <2>1, <3>1, <3>2
    <3> QED BY <3>2, <3>3 DEF Component
  <2>4. Changes(p, Mutated(page[p], updateAt(page[p].doc, q0.selected, c)))
    BY <1>1, <1>3, <2>1 DEF patchSelected
  <2> QED BY <1>1, <2>2, <2>3, <2>4, Editing
<1>4. CASE Renames(p, key)
  <2>1. PICK c : c = [q0.doc[q0.selected] EXCEPT !.key = key]
    OBVIOUS
  <2>2. q0.selected \in DOMAIN q0.doc /\ Seen(p)
    BY <1>1, <1>4 DEF Renames
  <2>3. c \in Component /\ c.id = q0.doc[q0.selected].id
    BY <1>2, <2>1, <2>2 DEF Component
  <2>4. Changes(p, Mutated(page[p], updateAt(page[p].doc, q0.selected, c)))
    BY <1>1, <1>4, <2>1 DEF Renames
  <2> QED BY <1>1, <2>2, <2>3, <2>4, Editing
<1>5. CASE EditsContent(p)
  <2>1. PICK q : q = Mutated(q0, q0.doc)
    OBVIOUS
  <2>2. Changes(p, q) /\ edits' = edits + 1 /\ Seen(p)
    BY <1>1, <1>5, <2>1 DEF Changes, EditsContent
  <2>3. /\ q \in Page /\ q.doc = q0.doc /\ q.dirty /\ q.removed = q0.removed
        /\ q.from = q0.from /\ q.selected = q0.selected /\ q.aim = q0.aim
        /\ q.apart = q0.apart
        /\ q.open = q0.open /\ q.version = q0.version
    BY <1>1, <2>1 DEF Mutated, Page
  <2>4. q0.version # 0
    BY <1>1, <2>2 DEF Seen
  <2>5. IdsOf(q.doc) \subseteq KnownIds'
    <3>1. KnownIds \subseteq KnownIds'
      BY <2>2, KnownIdsGrow DEF EditorIInv, EditorTypeOK
    <3> QED BY <3>1, <1>1, <2>3 DEF PageFits, DocFits
  <2>6. Distinct(q.doc) /\ IdsOf(q.doc) \cap q0.removed = {}
    BY <1>1, <2>3, <2>4 DEF PageFits, Removed, DocFits
  <2>7. q.aim # 0 /\ q.selected # 0 =>
          q.selected <= Len(q.doc) /\ q.doc[q.selected].id = q.aim
    BY <1>1, <2>3, LenProperties DEF PageFits, Shifts, Page
  <2>8. PICK gone \in SUBSET Nat : gone = {}
    OBVIOUS
  <2>9. /\ q.removed = q0.removed \cup gone /\ gone \subseteq IdsOf(q0.doc)
        /\ gone \cap IdsOf(q.doc) = {} /\ IdsOf(q0.doc) \ gone \subseteq IdsOf(q.doc)
    BY <2>3, <2>8
  <2> QED BY <1>1, <2>2, <2>3, <2>5, <2>6, <2>7, <2>9, DocumentSteps
<1> QED BY <1>3, <1>4, <1>5

(* A component is picked, a page opened or left.                             *)
LEMMA Selecting ==
    ASSUME EditorIInv, NEW p \in Builder, NEW i, Selects(p, i) \/ selectByKey(p, i)
    PROVE  EditorIInv'
<1>1. PICK q0 \in Page : q0 = page[p] /\ PageFits(q0)
  BY DEF EditorIInv, EditorTypeOK
<1>2. \A j \in DOMAIN q0.doc : j \in Nat /\ q0.doc[j].id \in Nat
  <2>1. q0.doc \in Seq(Component)
    BY DEF Page
  <2>2. \A j \in DOMAIN q0.doc : j \in Nat /\ q0.doc[j] \in Component
    BY <2>1, LenProperties, ElementOfSeq
  <2> QED BY <2>2 DEF Component
<1>3. PICK hit \in Nat, aim \in Nat :
        /\ page' = [page EXCEPT ![p].selected = hit, ![p].aim = aim]
        /\ aim # 0 => hit \in DOMAIN q0.doc /\ q0.doc[hit].id = aim
        /\ UNCHANGED <<versions, calls, edits>>
  <2>1. CASE Selects(p, i)
    BY <1>1, <1>2, <2>1 DEF Selects
  <2>2. CASE selectByKey(p, i)
    <3> DEFINE places == {j \in DOMAIN q0.doc : q0.doc[j].key = q0.doc[i].key}
               hit == FirstOf(places)
               aim == IF hit = i THEN q0.doc[i].id ELSE 0
    <3>1. i \in DOMAIN q0.doc
      BY <1>1, <2>2 DEF selectByKey
    <3>2. hit \in Nat
      <4>1. places \subseteq Nat /\ places # {}
        BY <1>2, <3>1
      <4>2. hit \in places
        <5> HIDE DEF places
        <5> QED BY <4>1, FirstOfIsFirst
      <4> QED BY <4>1, <4>2
    <3>3. page' = [page EXCEPT ![p].selected = hit, ![p].aim = aim]
      BY <1>1, <2>2 DEF selectByKey
    <3>4. UNCHANGED <<versions, calls, edits>>
      BY <2>2 DEF selectByKey
    <3> HIDE DEF hit
    <3>5. aim \in Nat /\ (aim # 0 => hit \in DOMAIN q0.doc /\ q0.doc[hit].id = aim)
      BY <1>2, <3>1
    <3> QED BY <3>2, <3>3, <3>4, <3>5
  <2> QED BY <2>1, <2>2
<1>4. PICK q : q = [q0 EXCEPT !.selected = hit, !.aim = aim]
  OBVIOUS
<1>5. page' = [page EXCEPT ![p] = q]
  BY <1>1, <1>3, <1>4 DEF EditorIInv, EditorTypeOK
<1>6. /\ q \in Page /\ q.doc = q0.doc /\ q.version = q0.version /\ q.dirty = q0.dirty
      /\ q.removed = q0.removed /\ q.from = q0.from /\ q.apart = q0.apart
      /\ q.open = q0.open /\ q.selected = hit /\ q.aim = aim
  BY <1>4 DEF Page
<1>7. q.aim # 0 => ~Shifts(q, q.doc)
  BY <1>3, <1>6, LenProperties DEF Shifts, Page
<1>8. PageFits(q)
  BY <1>1, <1>6, <1>7 DEF PageFits
<1>9. \A c \in calls[p] : IsCall(c) /\ CallFits(q, c)
  BY <1>1, <1>6 DEF EditorIInv, EditorTypeOK, CallFits, PublicationFits
<1>10. /\ edits' \in Nat /\ edits' >= edits /\ UNCHANGED versions
       /\ DOMAIN versions \subseteq DOMAIN versions'
       /\ \A v \in DOMAIN versions : versions'[v] = versions[v]
  BY <1>3 DEF EditorIInv, EditorTypeOK
<1>11. PageFits(q)' /\ \A c \in calls[p] : IsCall(c) /\ CallFits(q, c)'
  BY <1>8, <1>9, <1>10, PagesStay DEF EditorIInv
<1>12. calls' = [calls EXCEPT ![p] = calls[p]]
  BY <1>3 DEF EditorIInv, EditorTypeOK
<1> QED BY <1>5, <1>6, <1>10, <1>11, <1>12, PageSteps

LEMMA Opening ==
    ASSUME EditorIInv, NEW p \in Builder, Opens(p)
    PROVE  EditorIInv'
<1>1. PICK q : q = [ClosedPage EXCEPT !.open = TRUE]
  OBVIOUS
<1>2. q \in Page /\ q.doc = <<>> /\ q.version = 0 /\ q.aim = 0 /\ q.open
  <2>1. ClosedPage \in Page
    BY DEF ClosedPage, Page
  <2> QED BY <2>1, <1>1 DEF Page, ClosedPage
<1>3. PICK c : c = Call(calls[p], "load", 0) /\ IsCall(c) /\ c.op = "load" /\ c.at = "asked"
  <2>1. 0 \in Nat /\ "load" \in Operation
    BY DEF Operation
  <2> QED BY <2>1, PlainCalls
<1>4. IsCall(c) /\ c.op = "load" /\ c.at = "asked"
  BY <1>3
<1>5. page' = [page EXCEPT ![p] = q] /\ calls' = [calls EXCEPT ![p] = calls[p] \cup {c}]
  BY <1>1, <1>3 DEF Opens
<1>6. PageFits(q)'
  BY <1>2 DEF PageFits, DocFits, Distinct, IdsOf
<1>7. UNCHANGED versions /\ edits' \in Nat /\ edits' >= edits
  BY DEF Opens, EditorIInv, EditorTypeOK
<1>8. \A d \in calls[p] \cup {c} : IsCall(d) /\ CallFits(q, d)'
  <2>1. page[p].version = 0
    BY DEF Opens, EditorIInv, PageFits
  <2>2. ASSUME NEW d \in calls[p] PROVE IsCall(d) /\ CallFits(q, d)'
    <3>1. IsCall(d) /\ CallFits(page[p], d)
      BY DEF EditorIInv, EditorTypeOK
    <3>2. CallFits(q, d)
      BY <2>1, <3>1, <1>2 DEF CallFits, PublicationFits
    <3>3. /\ DOMAIN versions \subseteq DOMAIN versions'
          /\ \A v \in DOMAIN versions : versions'[v] = versions[v]
      BY <1>7
    <3> QED BY <3>1, <3>2, <3>3, <1>7, PagesStay DEF EditorIInv
  <2> QED BY <2>2, <1>2, <1>4 DEF CallFits
<1> QED BY <1>2, <1>5, <1>6, <1>7, <1>8, PageSteps

LEMMA Leaving ==
    ASSUME EditorIInv, NEW p \in Builder, Leaves(p)
    PROVE  EditorIInv'
<1>1. PICK q : q = ClosedPage
  OBVIOUS
<1>2. q \in Page /\ q.doc = <<>> /\ q.version = 0 /\ q.aim = 0
  BY <1>1 DEF Page, ClosedPage
<1>3. PICK cs : cs = {[c EXCEPT !.kept = "gone"] :
                        c \in {d \in calls[p] : d.op # "load" /\ d.at = "asked"}}
  OBVIOUS
<1>4. page' = [page EXCEPT ![p] = q] /\ calls' = [calls EXCEPT ![p] = cs]
  BY <1>1, <1>3 DEF Leaves
<1>5. PageFits(q)'
  BY <1>2 DEF PageFits, DocFits, Distinct, IdsOf
<1>6. /\ UNCHANGED versions /\ edits' \in Nat /\ edits' >= edits
      /\ DOMAIN versions \subseteq DOMAIN versions'
      /\ \A v \in DOMAIN versions : versions'[v] = versions[v]
  BY DEF Leaves, EditorIInv, EditorTypeOK
<1>7. ASSUME NEW d \in cs PROVE IsCall(d) /\ CallFits(q, d)'
  <2>1. PICK c \in calls[p] : d = [c EXCEPT !.kept = "gone"] /\ c.op # "load"
    BY <1>3
  <2>2. IsCall(c) /\ CallFits(page[p], c)
    BY DEF EditorIInv, EditorTypeOK
  <2>3. /\ IsCall(d) /\ d.op = c.op /\ d.doc = c.doc /\ d.base = c.base
        /\ d.removed = c.removed /\ d.at = c.at /\ d.version = c.version /\ d.kept = "gone"
    <3>1. "gone" \in Kept
      BY DEF Kept
    <3> QED BY <3>1, <2>1, <2>2, OnlyKeptChanges
  <2>4. CallFits(q, d)
    <3>1. PublicationFits(page[p], c) => PublicationFits(q, d)
      BY <2>3 DEF PublicationFits
    <3>2. d.op # "load"
      BY <2>1, <2>3
    <3> QED BY <2>2, <2>3, <3>1, <3>2 DEF CallFits
  <2> QED BY <2>3, <2>4, <1>6, PagesStay DEF EditorIInv
<1> QED BY <1>2, <1>4, <1>5, <1>6, <1>7, PageSteps

(* A document arrives: what is being published is not of it.                 *)
LEMMA Loading ==
    ASSUME EditorIInv, NEW p \in Builder, NEW c \in calls[p], Loads(p, c)
    PROVE  EditorIInv'
<1>1. PICK q0 \in Page : q0 = page[p] /\ PageFits(q0)
  BY DEF EditorIInv, EditorTypeOK
<1>2. PICK v : v = c.version
  OBVIOUS
<1>3. v \in DOMAIN versions /\ v \in Nat /\ v # 0 /\ q0.open
  <2>1. CallFits(q0, c) /\ c.op = "load" /\ c.at = "done"
    BY <1>1 DEF Loads, EditorIInv
  <2> QED BY <2>1, <1>2, LenProperties DEF CallFits, EditorIInv, EditorTypeOK
<1>4. PICK doc : doc = versions[v].doc
  OBVIOUS
<1>5. doc \in Seq(Component) /\ DocFits(doc)
  <2>1. versions[v] \in Version
    BY <1>3, ElementOfSeq, LenProperties DEF EditorIInv, EditorTypeOK
  <2> QED BY <2>1, <1>3, <1>4 DEF EditorIInv, VersionsFit, Version
<1> DEFINE aim == IF Shifts(q0, doc) THEN 0 ELSE q0.aim
<1>6. PICK q : q = [q0 EXCEPT !.doc = doc, !.version = v, !.from = v, !.dirty = FALSE,
                              !.removed = {}, !.apart = FALSE, !.aim = aim]
  OBVIOUS
<1>7. page' = [page EXCEPT ![p] = q]
  <2>1. [q0 EXCEPT !.doc = doc, !.version = v, !.from = v, !.dirty = FALSE, !.removed = {},
                   !.apart = FALSE, !.aim = IF Shifts(q0, doc) THEN 0 ELSE @] = q
    BY <1>6 DEF Page
  <2> QED BY <2>1, <1>1, <1>2, <1>4 DEF Loads
<1>8. aim \in Nat
  BY DEF Page
<1>9. /\ q \in Page /\ q.doc = doc /\ q.version = v /\ q.from = v /\ ~q.dirty
      /\ q.removed = {} /\ ~q.apart /\ q.aim = aim /\ q.selected = q0.selected
      /\ q.open = q0.open
  <2> HIDE DEF aim
  <2> QED BY <1>3, <1>5, <1>6, <1>8 DEF Page
<1>10. q.aim # 0 => ~Shifts(q, q.doc)
  BY <1>9 DEF Shifts
<1>11. Removed(q.doc, q.from, q.removed)
  BY <1>3, <1>4, <1>9 DEF Removed
<1>12. PageFits(q)
  BY <1>3, <1>4, <1>5, <1>9, <1>10, <1>11 DEF PageFits
<1>13. PICK cs : cs = {Reloaded(d) : d \in calls[p] \ {c}}
  OBVIOUS
<1>14. calls' = [calls EXCEPT ![p] = cs]
  BY <1>13 DEF Loads
<1>15. ASSUME NEW e \in cs PROVE IsCall(e) /\ CallFits(q, e)
  <2>1. PICK d \in calls[p] : e = Reloaded(d)
    BY <1>13
  <2>2. IsCall(d) /\ CallFits(q0, d)
    BY <1>1 DEF EditorIInv, EditorTypeOK
  <2>3. CASE d.op = "publish" /\ d.kept # "gone"
    <3>1. e = [d EXCEPT !.kept = "reloaded"]
      BY <2>1, <2>3 DEF Reloaded
    <3>2. /\ IsCall(e) /\ e.op = d.op /\ e.doc = d.doc /\ e.base = d.base
          /\ e.removed = d.removed /\ e.at = d.at /\ e.version = d.version
          /\ e.kept = "reloaded"
      <4>1. "reloaded" \in Kept
        BY DEF Kept
      <4> QED BY <4>1, <3>1, <2>2, OnlyKeptChanges
    <3> QED BY <3>2, <2>2, <2>3, <1>3, <1>9 DEF CallFits, PublicationFits
  <2>4. CASE ~(d.op = "publish" /\ d.kept # "gone")
    <3>1. e = d
      BY <2>1, <2>4 DEF Reloaded
    <3>2. PublicationFits(q0, d) /\ d.kept = "gone" => PublicationFits(q, d)
      BY DEF PublicationFits
    <3> QED BY <2>2, <2>4, <3>1, <3>2, <1>3, <1>9 DEF CallFits
  <2> QED BY <2>3, <2>4
<1>16. /\ UNCHANGED versions /\ edits' \in Nat /\ edits' >= edits
       /\ DOMAIN versions \subseteq DOMAIN versions'
       /\ \A w \in DOMAIN versions : versions'[w] = versions[w]
  BY DEF Loads, EditorIInv, EditorTypeOK
<1>17. PageFits(q)' /\ \A e \in cs : IsCall(e) /\ CallFits(q, e)'
  BY <1>12, <1>15, <1>16, PagesStay DEF EditorIInv
<1> QED BY <1>7, <1>9, <1>14, <1>16, <1>17, PageSteps

(* Requests: what is sent is what the page shows; what is read is there.     *)
LEMMA Requesting ==
    ASSUME EditorIInv, NEW p \in Builder,
           PressesPublish(p) \/ \E v : PressesRestore(p, v)
    PROVE  EditorIInv'
<1>1. PICK q0 \in Page : q0 = page[p] /\ PageFits(q0)
  BY DEF EditorIInv, EditorTypeOK
<1>2. UNCHANGED <<versions, page, edits>>
  BY DEF PressesPublish, PressesRestore
<1>3. CASE PressesPublish(p)
  <2>1. PICK k : k = Unused(calls[p])
    OBVIOUS
  <2>2. PICK c : c = [n |-> k, op |-> "publish", at |-> "asked", version |-> 0, doc |-> q0.doc,
                      base |-> q0.from, removed |-> q0.removed, kept |-> "same"]
    OBVIOUS
  <2>3. [Call(calls[p], "publish", 0) EXCEPT !.doc = q0.doc, !.base = q0.from,
                                             !.removed = q0.removed] = c
    <3>1. PICK b : b = Call(calls[p], "publish", 0)
      OBVIOUS
    <3>2. b = [n |-> k, op |-> "publish", at |-> "asked", version |-> 0, doc |-> <<>>,
               base |-> 0, removed |-> {}, kept |-> "same"]
      BY <3>1, <2>1 DEF Call
    <3>3. PICK b1 : b1 = [b EXCEPT !.doc = q0.doc]
      OBVIOUS
    <3>4. b1 = [n |-> k, op |-> "publish", at |-> "asked", version |-> 0, doc |-> q0.doc,
                base |-> 0, removed |-> {}, kept |-> "same"]
      BY <3>2, <3>3
    <3>5. PICK b2 : b2 = [b1 EXCEPT !.base = q0.from]
      OBVIOUS
    <3>6. b2 = [n |-> k, op |-> "publish", at |-> "asked", version |-> 0, doc |-> q0.doc,
                base |-> q0.from, removed |-> {}, kept |-> "same"]
      BY <3>4, <3>5
    <3>7. [b2 EXCEPT !.removed = q0.removed] = c
      BY <3>6, <2>2
    <3> QED BY <3>1, <3>3, <3>5, <3>7
  <2>4. /\ IsCall(c) /\ c.op = "publish" /\ c.at = "asked" /\ c.doc = q0.doc
        /\ c.base = q0.from /\ c.removed = q0.removed /\ c.kept = "same"
    <3>1. "publish" \in Operation /\ 0 \in Nat
      BY DEF Operation
    <3>2. q0.doc \in Seq(Component) /\ q0.from \in Nat /\ q0.removed \in SUBSET Nat
      BY DEF Page
    <3>3. "asked" \in Progress /\ "same" \in Kept
      BY DEF Progress, Kept
    <3>4. c \in [n: {k}, op: Operation, at: Progress, version: Nat, doc: Seq(Component),
                 base: Nat, removed: SUBSET Nat, kept: Kept]
      BY <3>1, <3>2, <3>3, <2>2
    <3> QED BY <3>4, <2>2 DEF IsCall
  <2>6. q0.version # 0
    BY <1>1, <1>3 DEF PressesPublish, Seen
  <2>7. CallFits(q0, c)
    BY <1>1, <2>4, <2>6 DEF CallFits, PublicationFits, PageFits
  <2>8. calls' = [calls EXCEPT ![p] = calls[p] \cup {c}]
    BY <1>1, <1>3, <2>3 DEF PressesPublish
  <2> QED
    <3>1. PICK cs : cs = calls[p] \cup {c}
      OBVIOUS
    <3>2. \A d \in cs : d \in calls[p] \/ (IsCall(d) /\ CallFits(page[p], d))
      BY <3>1, <1>1, <2>4, <2>7
    <3> QED BY <3>1, <3>2, <1>2, <2>8, CallSteps
<1>4. ASSUME NEW v, PressesRestore(p, v) PROVE EditorIInv'
  <2>1. v \in DOMAIN versions /\ v \in Nat
    BY <1>4, LenProperties DEF PressesRestore, EditorIInv, EditorTypeOK
  <2>2. PICK c : c = Call(calls[p], "restore", v) /\ IsCall(c) /\ c.op = "restore" /\ c.version = v
    <3>1. "restore" \in Operation
      BY DEF Operation
    <3> QED BY <3>1, <2>1, PlainCalls
  <2>3. IsCall(c) /\ c.op = "restore" /\ c.version = v
    BY <2>2
  <2>4. calls' = [calls EXCEPT ![p] = calls[p] \cup {c}]
    BY <1>4, <2>2 DEF PressesRestore
  <2>6. q0.open
    BY <1>1, <1>4 DEF PressesRestore, Seen, PageFits
  <2>5. CallFits(q0, c)
    BY <2>1, <2>3, <2>6 DEF CallFits
  <2> QED
    <3>1. PICK cs : cs = calls[p] \cup {c}
      OBVIOUS
    <3>2. \A d \in cs : d \in calls[p] \/ (IsCall(d) /\ CallFits(page[p], d))
      BY <3>1, <1>1, <2>3, <2>5
    <3> QED BY <3>1, <3>2, <1>2, <2>4, CallSteps
<1> QED BY <1>3, <1>4

LEMMA Reading ==
    ASSUME EditorIInv, NEW p \in Builder, NEW c \in calls[p],
           LoadIsRead(p, c) \/ CallFails(p, c) \/ RestoreAnswered(p, c)
    PROVE  EditorIInv'
<1>1. UNCHANGED <<versions, page, edits>>
  BY DEF LoadIsRead, CallFails, RestoreAnswered
<1>2. CASE LoadIsRead(p, c)
  <2>1. Len(versions) \in DOMAIN versions /\ Len(versions) \in Nat
    BY EmptySeq, LenProperties DEF EditorIInv, EditorTypeOK
  <2>2. PICK v \in Nat : v = Len(versions)
    BY <2>1
  <2>3. PICK d : d = [c EXCEPT !.at = "done", !.version = v]
    OBVIOUS
  <2>4. IsCall(c) /\ c.op = "load"
    BY <1>2 DEF LoadIsRead, EditorIInv, EditorTypeOK
  <2>5. PICK k : c \in [n: {k}, op: Operation, at: Progress, version: Nat, doc: Seq(Component),
                        base: Nat, removed: SUBSET Nat, kept: Kept]
    BY <2>4 DEF IsCall
  <2>6. /\ d \in [n: {k}, op: Operation, at: Progress, version: Nat, doc: Seq(Component),
                  base: Nat, removed: SUBSET Nat, kept: Kept]
        /\ d.op = "load" /\ d.version = v
    <3>1. "done" \in Progress
      BY DEF Progress
    <3> QED BY <3>1, <2>3, <2>4, <2>5
  <2>9. page[p].open
    BY <2>4 DEF EditorIInv, CallFits
  <2>7. IsCall(d) /\ CallFits(page[p], d)
    BY <2>1, <2>2, <2>6, <2>9 DEF IsCall, CallFits
  <2>8. calls' = [calls EXCEPT ![p] = (calls[p] \ {c}) \cup {d}]
    BY <1>2, <2>2, <2>3 DEF LoadIsRead
  <2> QED BY <1>1, <2>7, <2>8, CallSteps
<1>3. CASE CallFails(p, c)
  <2>1. calls' = [calls EXCEPT ![p] = calls[p] \ {c}]
    BY <1>3 DEF CallFails
  <2> QED BY <1>1, <2>1, CallSteps
<1>4. CASE RestoreAnswered(p, c)
  <2>4. 0 \in Nat /\ "load" \in Operation
    BY DEF Operation
  <2>1. PICK d : /\ d = Call(calls[p] \ {c}, "load", 0)
                 /\ IsCall(d) /\ d.op = "load" /\ d.at = "asked"
    BY <2>4, PlainCalls
  <2>5. IsCall(d) /\ d.op = "load" /\ d.at = "asked"
    BY <2>1
  <2>6. page[p].open
    BY <1>4 DEF RestoreAnswered, EditorIInv, CallFits
  <2>2. IsCall(d) /\ CallFits(page[p], d)
    BY <2>5, <2>6 DEF CallFits
  <2>3. calls' = [calls EXCEPT ![p] = (calls[p] \ {c}) \cup {d}]
    BY <1>4, <2>1 DEF RestoreAnswered
  <2> QED BY <1>1, <2>2, <2>3, CallSteps
<1> QED BY <1>2, <1>3, <1>4

LEMMA Publishing ==
    ASSUME EditorIInv, NEW p \in Builder, NEW c \in calls[p], publish(p, c)
    PROVE  EditorIInv'
<1>1. IsCall(c) /\ c.op = "publish" /\ c.at = "asked" /\ PublicationFits(page[p], c)
  BY DEF publish, EditorIInv, EditorTypeOK, CallFits
<1>2. PICK s : s = [doc |-> c.doc, base |-> c.base, removed |-> c.removed]
  OBVIOUS
<1>3. s \in Version /\ s.doc = c.doc /\ s.base = c.base /\ s.removed = c.removed
  BY <1>1, <1>2 DEF Version, IsCall
<1>4. PICK n \in Nat : n = Len(versions) + 1
  BY LenProperties DEF EditorIInv, EditorTypeOK
<1>5. versions' = Append(versions, s) /\ UNCHANGED <<page, edits>>
  BY <1>2 DEF publish, Stores
<1>6. n \in DOMAIN versions' /\ versions'[n] = s
  BY <1>3, <1>4, <1>5, AppendProperties, LenProperties DEF EditorIInv, EditorTypeOK
<1>7. PICK k : c \in [n: {k}, op: Operation, at: Progress, version: Nat, doc: Seq(Component),
                      base: Nat, removed: SUBSET Nat, kept: Kept]
  BY <1>1 DEF IsCall
<1>8. PICK d : d = [c EXCEPT !.at = "done", !.version = n]
  OBVIOUS
<1>10. calls' = [calls EXCEPT ![p] = (calls[p] \ {c}) \cup {d}]
  BY <1>4, <1>8 DEF publish
<1>11. /\ IsCall(d) /\ d.op = c.op /\ d.doc = c.doc /\ d.base = c.base
       /\ d.removed = c.removed /\ d.at = "done" /\ d.version = n /\ d.kept = c.kept
  <2>1. "done" \in Progress
    BY DEF Progress
  <2>2. d \in [n: {k}, op: Operation, at: Progress, version: Nat, doc: Seq(Component),
               base: Nat, removed: SUBSET Nat, kept: Kept]
    BY <2>1, <1>7, <1>8
  <2> QED BY <2>2, <1>7, <1>8 DEF IsCall
<1>12. CallFits(page[p], d)'
  <2>1. PICK q : q = page[p] /\ q = page'[p] /\ PublicationFits(q, c)
    BY <1>1, <1>5
  <2>2. PublicationFits(q, c)'
    <3>1. CallFits(q, c)
      BY <1>1, <2>1 DEF CallFits
    <3>2. /\ edits' \in Nat /\ edits' >= edits /\ DOMAIN versions \subseteq DOMAIN versions'
          /\ \A v \in DOMAIN versions : versions'[v] = versions[v]
      BY <1>3, <1>5, AppendProperties, LenProperties DEF EditorIInv, EditorTypeOK
    <3>3. CallFits(q, c)'
      BY <3>1, <3>2, PagesStay DEF EditorIInv
    <3> QED BY <3>3, <1>1 DEF CallFits
  <2>3. PublicationFits(q, d)'
    BY <2>2, <1>3, <1>6, <1>11 DEF PublicationFits
  <2> QED BY <2>1, <2>3, <1>1, <1>11 DEF CallFits
<1>13. /\ DocFits(s.doc) /\ validateSchema(s.doc)
       /\ s.base = Len(versions) =>
            IdsOf(versions[Len(versions)].doc) \ s.removed \subseteq IdsOf(s.doc)
  BY <1>1, <1>3 DEF publish, PublicationFits, Removed
<1>14. PICK cs : cs = (calls[p] \ {c}) \cup {d}
  OBVIOUS
<1>15. \A e \in cs : e \in calls[p] \/ (IsCall(e) /\ CallFits(page[p], e)')
  BY <1>11, <1>12, <1>14
<1> QED BY <1>3, <1>5, <1>10, <1>13, <1>14, <1>15, VersionSteps

LEMMA Restoring ==
    ASSUME EditorIInv, NEW p \in Builder, NEW c \in calls[p], restore(p, c)
    PROVE  EditorIInv'
<1>1. IsCall(c) /\ c.op = "restore" /\ c.version \in DOMAIN versions
  BY DEF restore, EditorIInv, EditorTypeOK, CallFits
<1>2. PICK s : s = [doc |-> versions[c.version].doc, base |-> 0, removed |-> {}]
  OBVIOUS
<1>3. s \in Version /\ DocFits(s.doc) /\ validateSchema(s.doc) /\ s.base = 0
  <2>1. versions[c.version] \in Version
    BY <1>1, ElementOfSeq, LenProperties DEF EditorIInv, EditorTypeOK
  <2> QED BY <2>1, <1>1, <1>2 DEF EditorIInv, VersionsFit, Version
<1>4. s.base # Len(versions)
  BY <1>3, EmptySeq, LenProperties DEF EditorIInv, EditorTypeOK
<1>5. versions' = Append(versions, s) /\ UNCHANGED <<page, edits>>
  BY <1>2 DEF restore, Stores
<1>6. PICK d : d = [c EXCEPT !.at = "done"]
  OBVIOUS
<1>7. PICK k : c \in [n: {k}, op: Operation, at: Progress, version: Nat, doc: Seq(Component),
                      base: Nat, removed: SUBSET Nat, kept: Kept]
  BY <1>1 DEF IsCall
<1>8. /\ d \in [n: {k}, op: Operation, at: Progress, version: Nat, doc: Seq(Component),
                base: Nat, removed: SUBSET Nat, kept: Kept]
      /\ d.op = "restore" /\ d.version = c.version /\ d.kept = c.kept
  <2>1. "done" \in Progress
    BY DEF Progress
  <2> QED BY <2>1, <1>1, <1>6, <1>7
<1>9. calls' = [calls EXCEPT ![p] = (calls[p] \ {c}) \cup {d}]
  BY <1>6 DEF restore
<1>10. DOMAIN versions \subseteq DOMAIN versions'
  BY <1>3, <1>5, AppendProperties, LenProperties DEF EditorIInv, EditorTypeOK
<1>12. d.kept # "gone" => page[p].open
  BY <1>1, <1>8 DEF EditorIInv, CallFits
<1>11. IsCall(d) /\ CallFits(page[p], d)'
  BY <1>1, <1>5, <1>8, <1>10, <1>12 DEF IsCall, CallFits
<1> QED BY <1>3, <1>4, <1>5, <1>9, <1>11, VersionSteps

(* The answer of a publication, after an edit, a load, or neither.           *)
LEMMA Answering ==
    ASSUME EditorIInv, NEW p \in Builder, NEW c \in calls[p], PublishAnswered(p, c)
    PROVE  EditorIInv'
<1>1. PICK q0 \in Page : q0 = page[p] /\ PageFits(q0)
  BY DEF EditorIInv, EditorTypeOK
<1>2. /\ IsCall(c) /\ PublicationFits(q0, c) /\ c.at = "done" /\ c.kept \in Kept \ {"gone"}
      /\ c.version \in Nat
  BY <1>1 DEF PublishAnswered, EditorIInv, EditorTypeOK, CallFits, IsCall
<1>3. /\ UNCHANGED versions /\ edits' \in Nat /\ edits' >= edits
      /\ DOMAIN versions \subseteq DOMAIN versions'
      /\ \A v \in DOMAIN versions : versions'[v] = versions[v]
  BY DEF PublishAnswered, EditorIInv, EditorTypeOK
<1> DEFINE apart == c.kept # "same"
           from == IF c.kept = "reloaded" THEN q0.from ELSE c.version
<1>4. PICK q : q = [q0 EXCEPT !.version = c.version, !.dirty = FALSE, !.apart = apart,
                              !.from = from]
  OBVIOUS
<1>5. page' = [page EXCEPT ![p] = q]
  <2>1. [q0 EXCEPT !.version = c.version, !.dirty = FALSE, !.apart = c.kept # "same",
                   !.from = IF c.kept = "reloaded" THEN @ ELSE c.version] = q
    BY <1>4 DEF Page
  <2> QED BY <2>1, <1>1 DEF PublishAnswered
<1>6. apart \in BOOLEAN /\ from \in Nat
  BY <1>2 DEF Page
<1>7. /\ q \in Page /\ q.doc = q0.doc /\ q.version = c.version /\ ~q.dirty /\ q.apart = apart
      /\ q.from = from /\ q.removed = q0.removed /\ q.selected = q0.selected /\ q.aim = q0.aim
      /\ q.open = q0.open
  <2> HIDE DEF apart, from
  <2> QED BY <1>2, <1>4, <1>6 DEF Page
<1>8. /\ c.version \in DOMAIN versions /\ versions[c.version].doc = c.doc
      /\ c.version # 0 /\ q0.version # 0
  <2>1. c.version \in DOMAIN versions /\ versions[c.version].doc = c.doc /\ q0.version # 0
    BY <1>2 DEF PublicationFits
  <2> QED BY <2>1, LenProperties DEF EditorIInv, EditorTypeOK
<1>9. Removed(q0.doc, q0.from, q0.removed)
  BY <1>1, <1>8 DEF PageFits
<1>10. Removed(q.doc, q.from, q.removed)
  <2>1. CASE c.kept = "reloaded"
    BY <2>1, <1>7, <1>9
  <2>2. CASE c.kept # "reloaded"
    <3>1. IdsOf(c.doc) \ q0.removed \subseteq IdsOf(q0.doc) /\ from = c.version
      BY <2>2, <1>2 DEF PublicationFits, Kept
    <3> QED BY <3>1, <1>7, <1>8, <1>9 DEF Removed
  <2> QED BY <2>1, <2>2
<1>11. q.dirty \/ q.apart \/ q.doc = versions[q.version].doc
  BY <1>2, <1>7, <1>8 DEF PublicationFits
<1>12. q.aim # 0 => ~Shifts(q, q.doc)
  BY <1>1, <1>7 DEF PageFits, Shifts
<1>13. PageFits(q)
  BY <1>1, <1>7, <1>8, <1>10, <1>11, <1>12 DEF PageFits
<1>14. \A d \in calls[p] \ {c} : IsCall(d) /\ CallFits(q, d)
  BY <1>1, <1>7, <1>8 DEF EditorIInv, EditorTypeOK, CallFits, PublicationFits
<1>15. PageFits(q)' /\ \A d \in calls[p] \ {c} : IsCall(d) /\ CallFits(q, d)'
  BY <1>3, <1>13, <1>14, PagesStay DEF EditorIInv
<1>16. calls' = [calls EXCEPT ![p] = calls[p] \ {c}]
  BY DEF PublishAnswered
<1> QED BY <1>3, <1>5, <1>7, <1>15, <1>16, PageSteps

(* Nothing an operator does in the builder, or two of them at once, with any *)
(* number of publications, restores and loads under way, breaks the          *)
(* invariant the four promises of the page rest on: identities are never     *)
(* shared, a page knows what it was made from and what was removed from it   *)
(* since, and what is sent is what the page showed (FormEditorPage,          *)
(* formTree, forms.service publish and restore).                             *)
THEOREM EditorFits == EditorSpec => []EditorIInv
<1>1. EditorIInv /\ [EditorNext]_editorVars => EditorIInv'
  <2> SUFFICES ASSUME EditorIInv, [EditorNext]_editorVars PROVE EditorIInv'
    OBVIOUS
  <2> USE DEF EditorNext
  <2>1. CASE UNCHANGED editorVars
    BY <2>1 DEF editorVars, EditorIInv, EditorTypeOK, VersionsFit, NobodysFieldIsDropped,
         PageFits, CallFits, PublicationFits, Removed, DocFits, KnownIds, IsCall
  <2>2. CASE \E p \in Builder : Opens(p)
    BY <2>2, Opening
  <2>3. CASE \E p \in Builder : Leaves(p)
    BY <2>3, Leaving
  <2>4. CASE \E p \in Builder : patchSelected(p) \/ EditsContent(p)
    <3>1. 0 \in Nat
      OBVIOUS
    <3> QED BY <2>4, <3>1, Patching
  <2>5. CASE \E p \in Builder, i \in 1 .. 3 + MaxEdits : Selects(p, i) \/ selectByKey(p, i)
    BY <2>5, Selecting
  <2>6. CASE \E p \in Builder, i \in 1 .. 3 + MaxEdits : MovesUp(p, i)
    BY <2>6, MovingUp
  <2>7. CASE \E p \in Builder, i \in 1 .. 3 + MaxEdits : Removes(p, i)
    BY <2>7, Removing
  <2>8. CASE \E p \in Builder, k \in 1 .. MaxKey : Renames(p, k)
    <3>1. \A k \in 1 .. MaxKey : k \in Nat
      BY EditorConstants
    <3> QED BY <2>8, <3>1, Patching
  <2>9. CASE \E p \in Builder, type \in NewTypes : Adds(p, type)
    BY <2>9, Adding, EditorConstants
  <2>10. CASE \E p \in Builder : PressesPublish(p)
    BY <2>10, Requesting
  <2>11. CASE \E p \in Builder, v \in 1 .. MaxVersions : PressesRestore(p, v)
    BY <2>11, Requesting
  <2>12. CASE \E p \in Builder : \E c \in calls[p] :
                LoadIsRead(p, c) \/ CallFails(p, c) \/ RestoreAnswered(p, c)
    BY <2>12, Reading
  <2>13. CASE \E p \in Builder : \E c \in calls[p] : Loads(p, c)
    BY <2>13, Loading
  <2>14. CASE \E p \in Builder : \E c \in calls[p] : publish(p, c)
    BY <2>14, Publishing
  <2>15. CASE \E p \in Builder : \E c \in calls[p] : restore(p, c)
    BY <2>15, Restoring
  <2>16. CASE \E p \in Builder : \E c \in calls[p] : PublishAnswered(p, c)
    BY <2>16, Answering
  <2> QED BY <2>1, <2>2, <2>3, <2>4, <2>5, <2>6, <2>7, <2>8, <2>9, <2>10, <2>11, <2>12,
             <2>13, <2>14, <2>15, <2>16
<1> QED BY <1>1, EditorBegins, PTL DEF EditorSpec

(* EditorInv on every run of the builder: the settings panel edits what was  *)
(* picked, a page that says Published shows the version it says is live      *)
(* unless its document changed while the publication answered last was under *)
(* way, no version drops what its author did not remove, and every version   *)
(* can be submitted.                                                         *)
THEOREM FormsArePublishedAsEdited == EditorSpec => []EditorInv
<1>1. EditorIInv => EditorInv
  <2> SUFFICES ASSUME EditorIInv PROVE EditorInv
    OBVIOUS
  <2>1. \A p \in Builder : PageFits(page[p])
    BY DEF EditorIInv
  <2>2. EditsLandWhereAimed
    BY <2>1 DEF EditsLandWhereAimed, PageFits
  <2>3. PublishedMeansSaved
    BY <2>1 DEF PublishedMeansSaved, PageFits, Seen
  <2>4. EveryVersionIsUsable
    BY DEF EveryVersionIsUsable, EditorIInv, VersionsFit
  <2> QED BY <2>2, <2>3, <2>4 DEF EditorInv, EditorIInv
<1> QED BY <1>1, EditorFits, PTL
=============================================================================
