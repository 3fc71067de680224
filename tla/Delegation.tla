----------------------------- MODULE Delegation -----------------------------
(***************************************************************************)
(* The links by which one live case is sent to groups of people who have   *)
(* no account: send and close from inside the portal, accept and upload    *)
(* from the link, and the edits of the groups underneath them.             *)
(*                                                                         *)
(* Every handler is a chain of transactions with awaits between them.  It  *)
(* loads the link, decides, and acts on the database as it is by then;     *)
(* each step below is one of its transactions, one mail or one file        *)
(* written.  A request that dies (a failing call, a restart) leaves what   *)
(* it has committed.  A delegation, a click and a file are each used once. *)
(***************************************************************************)
EXTENDS Integers, FiniteSets

CONSTANTS
    Link,       \* the sends of the case, each with the row and token it may get
    Group,      \* rows of case_groups
    Member,     \* rows of case_group_members; a row's id is never used again
    GroupOf,    \* the group each member row belongs to
    Name,       \* the names member rows carry
    Click,      \* requests to accept
    File,       \* requests to upload, each with its file
    NoMember,   \* a NULL accepted_by_member_id
    NoName,     \* a NULL accepted_by_name
    NoLink,     \* the link of a file that is not filed
    MaxEdits    \* bound: how many times groups are edited in all

ASSUME DelegationAssumption ==
    /\ GroupOf \in [Member -> Group]
    /\ NoMember \notin Member
    /\ Name # {} /\ NoName \notin Name
    /\ NoLink \notin Link
    /\ MaxEdits \in Nat

VARIABLES
    groups,     \* case_groups: which exist, which are active
    members,    \* case_group_members: the rows there are
    names,      \* and the names they carry
    born,       \* the member ids ever used
    edits,      \* how many edits of groups were made
    link,       \* case_delegations
    send,       \* where each send is
    asked,      \* who was mailed each link
    told,       \* whom the audit entry delegation.sent names
    click,      \* where each acceptance is
    upload,     \* where each upload is
    filed       \* case_attachments with source 'delegate'

roster == <<groups, members, names, born, edits>>
sending == <<send, asked, told>>
vars == <<roster, link, sending, click, upload, filed>>

Stages == {"none", "sent", "accepted", "closed"}

LinkType == [stage: Stages, group: Group \cup {NoLink}, by: Member \cup {NoMember},
             name: Name \cup {NoName}]
NoRow == [stage |-> "none", group |-> NoLink, by |-> NoMember, name |-> NoName]

(* A send: "listed" when it knows the group's members, "clear" when it saw  *)
(* no open delegation, "mailing" when it inserted its own.                  *)
SendType == [pc: {"idle", "listed", "clear", "mailing", "over"},
             group: Group \cup {NoLink}, to: SUBSET Member, left: SUBSET Member]
NoSend == [pc |-> "idle", group |-> NoLink, to |-> {}, left |-> {}]

(* An acceptance: "loaded" when the link permitted it, "claiming" when the  *)
(* member was found.                                                        *)
ClickType == [pc: {"idle", "loaded", "claiming", "over"}, link: Link \cup {NoLink},
              member: Member \cup {NoMember}, name: Name \cup {NoName}]
NoClick == [pc |-> "idle", link |-> NoLink, member |-> NoMember, name |-> NoName]

(* An upload: "loaded" when the link permitted it, "stored" when the bytes  *)
(* are on disk.  `by' is the name its note will say it came from.           *)
UploadType == [pc: {"idle", "loaded", "stored", "over"}, link: Link \cup {NoLink},
               by: Name \cup {NoName}]
NoUpload == [pc |-> "idle", link |-> NoLink, by |-> NoName]

FiledType == [link: Link \cup {NoLink}, by: Name \cup {NoName}]
NotFiled == [link |-> NoLink, by |-> NoName]

TypeOK ==
    /\ groups \in [Group -> {"none", "active", "inactive"}]
    /\ members \subseteq Member
    /\ names \in [Member -> Name]
    /\ born \subseteq Member
    /\ edits \in Nat
    /\ link \in [Link -> LinkType]
    /\ send \in [Link -> SendType]
    /\ asked \in [Link -> SUBSET Member]
    /\ told \in [Link -> SUBSET Member]
    /\ click \in [Click -> ClickType]
    /\ upload \in [File -> UploadType]
    /\ filed \in [File -> FiledType]

Init ==
    /\ groups = [g \in Group |-> "none"]
    /\ members = {} /\ born = {} /\ edits = 0
    /\ names = [m \in Member |-> CHOOSE n \in Name : TRUE]
    /\ link = [l \in Link |-> NoRow]
    /\ send = [l \in Link |-> NoSend]
    /\ asked = [l \in Link |-> {}]
    /\ told = [l \in Link |-> {}]
    /\ click = [c \in Click |-> NoClick]
    /\ upload = [f \in File |-> NoUpload]
    /\ filed = [f \in File |-> NotFiled]

-----------------------------------------------------------------------------
(* Groups *)

RowsOf(g) == {m \in members : GroupOf[m] = g}

(* Rows a group may be given: those it has, and fresh ones.                 *)
Eligible(g) == {m \in Member : GroupOf[m] = g /\ (m \in members \/ m \notin born)}

(* Each of the rows is given a name.                                        *)
Named(rows) ==
    \E new \in [rows -> Name] :
        names' = [m \in Member |-> IF m \in rows THEN new[m] ELSE names[m]]

(* GroupsService.create: a group and its members, never an empty one.       *)
CreateGroup(g) ==
    /\ groups[g] = "none"
    /\ \E rows \in SUBSET Eligible(g) \ {{}} :
        /\ members' = members \cup rows
        /\ born' = born \cup rows
        /\ Named(rows)
    /\ groups' = [groups EXCEPT ![g] = "active"]
    /\ UNCHANGED <<edits, link, sending, click, upload, filed>>

(* mutant: the list is deleted and inserted again *)
DeletedWholesale(g, rows) == RowsOf(g)

(* The rows an edit deletes: those whose address is no longer listed.       *)
Deleted(g, rows) == RowsOf(g) \ rows

(***************************************************************************)
(* GroupsService.update: the list it is given, matched by address with the *)
(* rows there are.  The UPDATE of the group's row it starts with makes two *)
(* edits of a group take turns.  A deleted member is forgotten by the      *)
(* delegations that point at it (ON DELETE SET NULL).                      *)
(***************************************************************************)
EditGroup(g) ==
    /\ groups[g] # "none" /\ edits < MaxEdits
    /\ edits' = edits + 1
    /\ \E state \in {"active", "inactive"}, rows \in SUBSET Eligible(g) \ {{}} :
        /\ groups' = [groups EXCEPT ![g] = state]
        /\ members' = (members \ RowsOf(g)) \cup rows
        /\ born' = born \cup rows
        /\ Named(rows)
        /\ link' = [l \in Link |->
                      IF link[l].by \in Deleted(g, rows)
                      THEN [link[l] EXCEPT !.by = NoMember] ELSE link[l]]
    /\ UNCHANGED <<sending, click, upload, filed>>

-----------------------------------------------------------------------------
(* From inside the portal *)

Open(l) == link[l].stage \in {"sent", "accepted"}

(* membersOf, in a transaction of its own: nobody if the group is inactive. *)
SendList(l) ==
    /\ send[l].pc = "idle"
    /\ \E g \in Group :
        /\ groups[g] = "active" /\ RowsOf(g) # {}
        /\ send' = [send EXCEPT ![l] = [pc |-> "listed", group |-> g,
                                        to |-> RowsOf(g), left |-> RowsOf(g)]]
    /\ UNCHANGED <<roster, link, asked, told, click, upload, filed>>

(* The SELECT that makes a refusal readable; it takes no lock.              *)
SendLooks(l) ==
    /\ send[l].pc = "listed"
    /\ send' = [send EXCEPT ![l].pc = IF \E k \in Link : Open(k) THEN "over" ELSE "clear"]
    /\ UNCHANGED <<roster, link, asked, told, click, upload, filed>>

(* mutant: there is no such index *)
IndexAdmitsAnything == TRUE

(* The partial unique index case_delegations_one_open_ux.                   *)
IndexAdmits == \A k \in Link : ~Open(k)

SendInsert(l) ==
    /\ send[l].pc = "clear"
    /\ \/ /\ IndexAdmits
          /\ link' = [link EXCEPT ![l] = [NoRow EXCEPT !.stage = "sent",
                                                       !.group = send[l].group]]
          /\ send' = [send EXCEPT ![l].pc = "mailing"]
       \/ /\ ~IndexAdmits
          /\ send' = [send EXCEPT ![l].pc = "over"]
          /\ UNCHANGED link
    /\ UNCHANGED <<roster, asked, told, click, upload, filed>>

(* One invitation; one that fails does not stop the others, and the link is *)
(* not looked at again.                                                     *)
SendMail(l) ==
    /\ send[l].pc = "mailing"
    /\ \E m \in send[l].left :
        /\ send' = [send EXCEPT ![l].left = @ \ {m}]
        /\ asked' \in {asked, [asked EXCEPT ![l] = @ \cup {m}]}
    /\ UNCHANGED <<roster, link, told, click, upload, filed>>

(* The audit entry names the list the send started with.                    *)
SendAudit(l) ==
    /\ send[l].pc = "mailing" /\ send[l].left = {}
    /\ told' = [told EXCEPT ![l] = send[l].to]
    /\ send' = [send EXCEPT ![l].pc = "over"]
    /\ UNCHANGED <<roster, link, asked, click, upload, filed>>

SendDies(l) ==
    /\ send[l].pc \in {"listed", "clear", "mailing"}
    /\ send' = [send EXCEPT ![l].pc = "over"]
    /\ UNCHANGED <<roster, link, asked, told, click, upload, filed>>

(* close: one conditional UPDATE.                                           *)
Close(l) ==
    /\ Open(l)
    /\ link' = [link EXCEPT ![l].stage = "closed"]
    /\ UNCHANGED <<roster, sending, click, upload, filed>>

-----------------------------------------------------------------------------
(* From the link *)

(* Whoever was mailed a link has it, and may pass it on.                    *)
Known(l) == asked[l] # {}

(* ALLOWED: what each stage permits.                                        *)
Permits(stage, action) ==
    \/ action = "accept" /\ stage = "sent"
    \/ action = "upload" /\ stage = "accepted"

(* accept: load and assertPermits.  The page asked with may be an old one,  *)
(* so that any member id may come.                                          *)
AcceptLoad(c) ==
    /\ click[c].pc = "idle"
    /\ \E l \in Link, m \in Member :
        /\ Known(l) /\ Permits(link[l].stage, "accept")
        /\ click' = [click EXCEPT ![c] = [pc |-> "loaded", link |-> l, member |-> m,
                                          name |-> NoName]]
    /\ UNCHANGED <<roster, link, sending, upload, filed>>

(* The member must be one of the link's group.                              *)
AcceptMember(c) ==
    /\ click[c].pc = "loaded"
    /\ LET m == click[c].member IN
       \/ /\ m \in RowsOf(link[click[c].link].group)
          /\ click' = [click EXCEPT ![c].pc = "claiming", ![c].name = names[m]]
       \/ /\ m \notin RowsOf(link[click[c].link].group)
          /\ click' = [click EXCEPT ![c].pc = "over"]
    /\ UNCHANGED <<roster, link, sending, upload, filed>>

(* mutant: the UPDATE names only the id *)
StillAnything(l) == TRUE

(* The condition of the UPDATE, on the row as committed by then.            *)
StillSent(l) == link[l].stage = "sent"

(* mutant: nothing checks the pointer *)
ReferenceAnything(m) == TRUE

(* The foreign key accepted_by_member_id.                                   *)
ReferenceHolds(m) == m \in members

AcceptUpdate(c) ==
    LET l == click[c].link  m == click[c].member IN
    /\ click[c].pc = "claiming"
    /\ \/ /\ StillSent(l) /\ ReferenceHolds(m)
          /\ link' = [link EXCEPT ![l].stage = "accepted", ![l].by = m,
                                  ![l].name = click[c].name]
       \/ /\ ~(StillSent(l) /\ ReferenceHolds(m))
          /\ UNCHANGED link
    /\ click' = [click EXCEPT ![c].pc = "over"]
    /\ UNCHANGED <<roster, sending, upload, filed>>

ClickDies(c) ==
    /\ click[c].pc \in {"loaded", "claiming"}
    /\ click' = [click EXCEPT ![c].pc = "over"]
    /\ UNCHANGED <<roster, link, sending, upload, filed>>

(* mutant: the name is read through the pointer *)
AcceptedByPointer(l) == IF link[l].by \in members THEN names[link[l].by] ELSE NoName

(* COALESCE of the snapshot and of the member's name today.                 *)
AcceptedBy(l) ==
    IF link[l].name # NoName THEN link[l].name
    ELSE IF link[l].by \in members THEN names[link[l].by]
    ELSE NoName

(* upload: load and assertPermits.                                          *)
UploadLoad(f) ==
    /\ upload[f].pc = "idle"
    /\ \E l \in Link :
        /\ Known(l) /\ Permits(link[l].stage, "upload")
        /\ upload' = [upload EXCEPT ![f] = [pc |-> "loaded", link |-> l, by |-> AcceptedBy(l)]]
    /\ UNCHANGED <<roster, link, sending, click, filed>>

(* StorageService.save writes the bytes.                                    *)
UploadStore(f) ==
    /\ upload[f].pc = "loaded"
    /\ upload' = [upload EXCEPT ![f].pc = "stored"]
    /\ UNCHANGED <<roster, link, sending, click, filed>>

(* The INSERT into case_attachments, whatever the link's stage is by now.   *)
UploadInsert(f) ==
    /\ upload[f].pc = "stored"
    /\ filed' = [filed EXCEPT ![f] = [link |-> upload[f].link, by |-> upload[f].by]]
    /\ upload' = [upload EXCEPT ![f].pc = "over"]
    /\ UNCHANGED <<roster, link, sending, click>>

(* The file is refused, cannot be stored or cannot be filed.                *)
UploadDies(f) ==
    /\ upload[f].pc \in {"loaded", "stored"}
    /\ upload' = [upload EXCEPT ![f].pc = "over"]
    /\ UNCHANGED <<roster, link, sending, click, filed>>

-----------------------------------------------------------------------------

Sends(l) ==
    \/ SendList(l) \/ SendLooks(l) \/ SendInsert(l) \/ SendMail(l)
    \/ SendAudit(l) \/ SendDies(l)

Accepts(c) == AcceptLoad(c) \/ AcceptMember(c) \/ AcceptUpdate(c) \/ ClickDies(c)

Uploads(f) == UploadLoad(f) \/ UploadStore(f) \/ UploadInsert(f) \/ UploadDies(f)

Next ==
    \/ \E g \in Group : CreateGroup(g) \/ EditGroup(g)
    \/ \E l \in Link : Sends(l) \/ Close(l)
    \/ \E c \in Click : Accepts(c)
    \/ \E f \in File : Uploads(f)

Spec == Init /\ [][Next]_vars

-----------------------------------------------------------------------------
(* Properties *)

(***************************************************************************)
(* A case is with one group at a time, also when two operators press Send  *)
(* at the same moment: the index decides, not the SELECT before it.        *)
(***************************************************************************)
OneOpenLink == \A k, l \in Link : Open(k) /\ Open(l) => k = l

(***************************************************************************)
(* A delegation points at a member its group still has, or at nobody, also *)
(* when the member is removed between the page, the check and the UPDATE.  *)
(***************************************************************************)
AccepterIsAMember ==
    \A l \in Link :
        link[l].by # NoMember =>
            link[l].by \in members /\ GroupOf[link[l].by] = link[l].group

(* The rows are typed, and point at what is there.                          *)
DelegationInv == TypeOK /\ AccepterIsAMember

(***************************************************************************)
(* A delegation forgets who accepted it only when that member goes: an     *)
(* edit that has nothing to do with them leaves the pointer alone.         *)
(***************************************************************************)
ForgottenOnlyWhenRemoved ==
    [][\A l \in Link :
         link[l].by # NoMember /\ link'[l].by # link[l].by => link[l].by \notin members']_vars

(***************************************************************************)
(* Every document says it came from the person who accepted the link it    *)
(* came through, under the name they had then: renaming or removing them   *)
(* does not change what the case says.                                     *)
(***************************************************************************)
FilesNameTheAccepter ==
    \A f \in File : filed[f].link # NoLink =>
        filed[f].by # NoName /\ filed[f].by = link[filed[f].link].name

(***************************************************************************)
(* The handlers together keep the promise of the links: one at a time,     *)
(* accepted once, never back from closed, and a file only through a link   *)
(* that was accepted.                                                      *)
(***************************************************************************)
Promise == INSTANCE DelegationPromise WITH
    stage <- [l \in Link |-> link[l].stage],
    name <- [l \in Link |-> link[l].name],
    got <- [l \in Link |-> {f \in File : filed[f].link = l}]

KeepsItsPromise == Promise!Spec

=============================================================================
