-------------------------- MODULE DelegationProofs --------------------------
(***************************************************************************)
(* The promise of the links, proved for any number of sends, clicks and    *)
(* files: the invariant that ties what each request remembers to the row   *)
(* it will act on, and from it the properties of Delegation.               *)
(***************************************************************************)
EXTENDS Delegation, TLAPS

(* A send that has not inserted its row has none, and nobody was mailed a   *)
(* link that has no row.                                                    *)
SendsFit ==
    \A l \in Link :
        /\ send[l].pc \in {"idle", "listed", "clear"} => link[l].stage = "none"
        /\ send[l].pc \in {"listed", "clear"} => send[l].group \in Group
        /\ send[l].pc = "mailing" => link[l].stage # "none"
        /\ asked[l] # {} => link[l].stage # "none"

(* A link carries a name from its acceptance on, and not before.            *)
LinksFit ==
    \A l \in Link :
        /\ link[l].stage \in {"none", "sent"} => link[l].name = NoName /\ link[l].by = NoMember
        /\ link[l].stage = "accepted" => link[l].name \in Name
        /\ link[l].stage # "none" => link[l].group \in Group

(* A click under way is about a link there is, and about a member of its    *)
(* group once the member was found.                                         *)
ClicksFit ==
    \A c \in Click :
        /\ click[c].pc \in {"loaded", "claiming"} =>
             /\ click[c].link \in Link /\ click[c].member \in Member
             /\ link[click[c].link].stage # "none"
        /\ click[c].pc = "claiming" =>
             /\ click[c].name \in Name
             /\ GroupOf[click[c].member] = link[click[c].link].group

(* Link l was accepted under the name n.                                    *)
AcceptedUnder(l, n) ==
    /\ l \in Link /\ n \in Name
    /\ link[l].stage \in {"accepted", "closed"}
    /\ link[l].name = n

(* An upload under way carries the name its link was accepted under, and so *)
(* does a file that has arrived; a file arrives once.                       *)
UploadsFit ==
    \A f \in File :
        /\ upload[f].pc \in {"loaded", "stored"} => AcceptedUnder(upload[f].link, upload[f].by)
        /\ upload[f].pc # "over" => filed[f].link = NoLink
        /\ filed[f].link # NoLink => AcceptedUnder(filed[f].link, filed[f].by)

IInv ==
    /\ TypeOK
    /\ OneOpenLink
    /\ AccepterIsAMember
    /\ SendsFit
    /\ LinksFit
    /\ ClicksFit
    /\ UploadsFit

-----------------------------------------------------------------------------
(* The shapes of the steps *)

(* What a step does to the link l.                                          *)
Same(l) == link'[l] = link[l]
Forgets(l) == link'[l] = [link[l] EXCEPT !.by = NoMember]
Inserts(l) ==
    /\ SendInsert(l) /\ IndexAdmits
    /\ link[l].stage = "none" /\ send[l].group \in Group
    /\ link'[l] = [NoRow EXCEPT !.stage = "sent", !.group = send[l].group]
Closes(l) ==
    /\ Close(l)
    /\ link'[l] = [link[l] EXCEPT !.stage = "closed"]
Claims(c, l) ==
    /\ AcceptUpdate(c) /\ l = click[c].link
    /\ link[l].stage = "sent" /\ click[c].member \in members /\ click[c].name \in Name
    /\ GroupOf[click[c].member] = link[l].group
    /\ link'[l] = [link[l] EXCEPT !.stage = "accepted", !.by = click[c].member,
                                  !.name = click[c].name]

(* Every step leaves each link alone but one, and changes that one as the   *)
(* handler it belongs to does; an edit may make several forget a member.    *)
LEMMA LinkSteps ==
    ASSUME IInv, [Next]_vars
    PROVE  \/ link' = link
           \/ \E g \in Group : EditGroup(g) /\ \A l \in Link : Same(l) \/ Forgets(l)
           \/ \E l \in Link : Inserts(l) /\ link' = [link EXCEPT ![l] = link'[l]]
           \/ \E l \in Link : Closes(l) /\ link' = [link EXCEPT ![l] = link'[l]]
           \/ \E c \in Click, l \in Link : Claims(c, l) /\ link' = [link EXCEPT ![l] = link'[l]]
<1>0. /\ link \in [Link -> LinkType]
      /\ \A l \in Link : link[l] \in LinkType
      /\ \A l \in Link : send[l] \in SendType
  BY DEF IInv, TypeOK
<1>1. CASE UNCHANGED vars
  BY <1>1 DEF vars
<1>2. ASSUME NEW g \in Group, CreateGroup(g) PROVE link' = link
  BY <1>2 DEF CreateGroup
<1>3. ASSUME NEW g \in Group, EditGroup(g)
      PROVE  \A l \in Link : Same(l) \/ Forgets(l)
  BY <1>0, <1>3 DEF EditGroup, Same, Forgets
<1>4. ASSUME NEW l \in Link, Sends(l)
      PROVE  link' = link \/ (Inserts(l) /\ link' = [link EXCEPT ![l] = link'[l]])
  <2>1. CASE SendInsert(l) /\ IndexAdmits
    <3>0. send[l].pc = "clear" /\ link[l].stage = "none" /\ send[l].group \in Group
      BY <2>1 DEF SendInsert, IInv, SendsFit
    <3>1. link' = [link EXCEPT ![l] = [NoRow EXCEPT !.stage = "sent", !.group = send[l].group]]
      BY <2>1 DEF SendInsert
    <3>2. link'[l] = [NoRow EXCEPT !.stage = "sent", !.group = send[l].group]
      BY <3>1, <1>0
    <3> QED BY <2>1, <3>0, <3>1, <3>2 DEF Inserts
  <2>2. CASE SendInsert(l) /\ ~IndexAdmits
    BY <2>2 DEF SendInsert
  <2>3. CASE SendList(l) \/ SendLooks(l) \/ SendMail(l) \/ SendAudit(l) \/ SendDies(l)
    BY <2>3 DEF SendList, SendLooks, SendMail, SendAudit, SendDies
  <2> QED BY <1>4, <2>1, <2>2, <2>3 DEF Sends
<1>5. ASSUME NEW l \in Link, Close(l)
      PROVE  Closes(l) /\ link' = [link EXCEPT ![l] = link'[l]]
  <2>1. link' = [link EXCEPT ![l] = [link[l] EXCEPT !.stage = "closed"]]
    BY <1>5 DEF Close
  <2> QED BY <1>0, <1>5, <2>1 DEF Closes
<1>6. ASSUME NEW c \in Click, Accepts(c)
      PROVE  \/ link' = link
             \/ \E l \in Link : Claims(c, l) /\ link' = [link EXCEPT ![l] = link'[l]]
  <2>1. CASE AcceptUpdate(c) /\ StillSent(click[c].link) /\ ReferenceHolds(click[c].member)
    <3>0. /\ click[c].link \in Link /\ click[c].member \in members /\ click[c].name \in Name
          /\ GroupOf[click[c].member] = link[click[c].link].group
          /\ link[click[c].link].stage = "sent"
      BY <2>1 DEF AcceptUpdate, IInv, ClicksFit, StillSent, ReferenceHolds
    <3>1. link' = [link EXCEPT ![click[c].link] =
                     [link[click[c].link] EXCEPT !.stage = "accepted", !.by = click[c].member,
                                                 !.name = click[c].name]]
      BY <2>1, <3>0, <1>0 DEF AcceptUpdate, LinkType
    <3> QED BY <2>1, <3>0, <3>1, <1>0 DEF Claims
  <2>2. CASE AcceptUpdate(c) /\ ~(StillSent(click[c].link) /\ ReferenceHolds(click[c].member))
    BY <2>2 DEF AcceptUpdate
  <2>3. CASE AcceptLoad(c) \/ AcceptMember(c) \/ ClickDies(c)
    BY <2>3 DEF AcceptLoad, AcceptMember, ClickDies
  <2> QED BY <1>6, <2>1, <2>2, <2>3 DEF Accepts
<1>7. ASSUME NEW f \in File, Uploads(f) PROVE link' = link
  BY <1>7 DEF Uploads, UploadLoad, UploadStore, UploadInsert, UploadDies
<1> QED BY <1>1, <1>2, <1>3, <1>4, <1>5, <1>6, <1>7 DEF Next

-----------------------------------------------------------------------------
(* Types *)

LEMMA InitTyped == Init => TypeOK
<1> SUFFICES ASSUME Init PROVE TypeOK
  OBVIOUS
<1>1. (CHOOSE n \in Name : TRUE) \in Name
  BY DelegationAssumption
<1>2. names \in [Member -> Name]
  BY <1>1 DEF Init
<1>3. link \in [Link -> LinkType] /\ send \in [Link -> SendType]
  BY DEF Init, LinkType, NoRow, SendType, NoSend, Stages
<1>4. /\ click \in [Click -> ClickType] /\ upload \in [File -> UploadType]
      /\ filed \in [File -> FiledType]
  BY DEF Init, ClickType, NoClick, UploadType, NoUpload, FiledType, NotFiled
<1> QED BY <1>2, <1>3, <1>4 DEF Init, TypeOK

LEMMA LinksTyped ==
    ASSUME IInv, [Next]_vars
    PROVE  link' \in [Link -> LinkType]
<1>0. link \in [Link -> LinkType] /\ members \subseteq Member /\ \A l \in Link : link[l] \in LinkType
  BY DEF IInv, TypeOK
<1>1. CASE link' = link
  BY <1>0, <1>1
<1>2. ASSUME NEW g \in Group, EditGroup(g), \A l \in Link : Same(l) \/ Forgets(l)
      PROVE  link' \in [Link -> LinkType]
  <2>1. ASSUME NEW l \in Link PROVE link'[l] \in LinkType
    <3>1. CASE Same(l)
      BY <1>0, <3>1 DEF Same
    <3>2. CASE Forgets(l)
      BY <1>0, <3>2 DEF Forgets, LinkType
    <3> QED BY <1>2, <3>1, <3>2
  <2>2. link' = [l \in Link |-> link'[l]]
    BY <1>2 DEF EditGroup
  <2> QED BY <2>1, <2>2
<1>3. ASSUME NEW l \in Link, Inserts(l), link' = [link EXCEPT ![l] = link'[l]]
      PROVE  link' \in [Link -> LinkType]
  <2>1. link'[l] \in LinkType
    BY <1>3 DEF Inserts, LinkType, NoRow, Stages
  <2> QED BY <1>0, <1>3, <2>1
<1>4. ASSUME NEW l \in Link, Closes(l), link' = [link EXCEPT ![l] = link'[l]]
      PROVE  link' \in [Link -> LinkType]
  <2>1. link'[l] \in LinkType
    BY <1>0, <1>4 DEF Closes, LinkType, Stages
  <2> QED BY <1>0, <1>4, <2>1
<1>5. ASSUME NEW c \in Click, NEW l \in Link, Claims(c, l), link' = [link EXCEPT ![l] = link'[l]]
      PROVE  link' \in [Link -> LinkType]
  <2>1. link'[l] \in LinkType
    BY <1>0, <1>5 DEF Claims, LinkType, Stages
  <2> QED BY <1>0, <1>5, <2>1
<1> QED BY <1>1, <1>2, <1>3, <1>4, <1>5, LinkSteps

LEMMA RosterTyped ==
    ASSUME TypeOK, [Next]_vars
    PROVE  /\ groups' \in [Group -> {"none", "active", "inactive"}]
           /\ members' \subseteq Member
           /\ names' \in [Member -> Name]
           /\ born' \subseteq Member
           /\ edits' \in Nat
<1>0. /\ groups \in [Group -> {"none", "active", "inactive"}]
      /\ members \subseteq Member /\ names \in [Member -> Name]
      /\ born \subseteq Member /\ edits \in Nat
  BY DEF TypeOK
<1>1. ASSUME NEW rows \in SUBSET Member, Named(rows) PROVE names' \in [Member -> Name]
  BY <1>0, <1>1 DEF Named
<1>2. ASSUME NEW g \in Group PROVE Eligible(g) \subseteq Member
  BY DEF Eligible
<1>3. ASSUME NEW g \in Group, CreateGroup(g)
      PROVE  /\ groups' \in [Group -> {"none", "active", "inactive"}]
             /\ members' \subseteq Member /\ names' \in [Member -> Name]
             /\ born' \subseteq Member /\ edits' \in Nat
  <2>1. PICK rows \in SUBSET Eligible(g) \ {{}} :
          members' = members \cup rows /\ born' = born \cup rows /\ Named(rows)
    BY <1>3, Zenon DEF CreateGroup
  <2>2. groups' = [groups EXCEPT ![g] = "active"] /\ edits' = edits
    BY <1>3 DEF CreateGroup
  <2> QED BY <1>0, <1>1, <1>2, <2>1, <2>2
<1>4. ASSUME NEW g \in Group, EditGroup(g)
      PROVE  /\ groups' \in [Group -> {"none", "active", "inactive"}]
             /\ members' \subseteq Member /\ names' \in [Member -> Name]
             /\ born' \subseteq Member /\ edits' \in Nat
  <2>1. PICK state \in {"active", "inactive"}, rows \in SUBSET Eligible(g) \ {{}} :
          /\ groups' = [groups EXCEPT ![g] = state]
          /\ members' = (members \ RowsOf(g)) \cup rows
          /\ born' = born \cup rows
          /\ Named(rows)
    BY <1>4 DEF EditGroup
  <2>2. edits' = edits + 1
    BY <1>4 DEF EditGroup
  <2> QED BY <1>0, <1>1, <1>2, <2>1, <2>2
<1>5. CASE UNCHANGED roster
  BY <1>0, <1>5 DEF roster
<1>6. ASSUME NEW l \in Link, Sends(l) \/ Close(l) PROVE UNCHANGED roster
  BY <1>6 DEF Sends, SendList, SendLooks, SendInsert, SendMail, SendAudit, SendDies, Close
<1>7. ASSUME NEW c \in Click, Accepts(c) PROVE UNCHANGED roster
  BY <1>7 DEF Accepts, AcceptLoad, AcceptMember, AcceptUpdate, ClickDies
<1>8. ASSUME NEW f \in File, Uploads(f) PROVE UNCHANGED roster
  BY <1>8 DEF Uploads, UploadLoad, UploadStore, UploadInsert, UploadDies
<1> QED BY <1>3, <1>4, <1>5, <1>6, <1>7, <1>8 DEF Next, vars

LEMMA SendingTyped ==
    ASSUME TypeOK, [Next]_vars
    PROVE  /\ send' \in [Link -> SendType]
           /\ asked' \in [Link -> SUBSET Member]
           /\ told' \in [Link -> SUBSET Member]
<1>0. /\ send \in [Link -> SendType] /\ members \subseteq Member
      /\ \A l \in Link : send[l] \in SendType
      /\ asked \in [Link -> SUBSET Member] /\ told \in [Link -> SUBSET Member]
  BY DEF TypeOK
<1>1. CASE UNCHANGED sending
  BY <1>0, <1>1 DEF sending
<1>2. ASSUME NEW l \in Link, Sends(l)
      PROVE  /\ send' \in [Link -> SendType]
             /\ asked' \in [Link -> SUBSET Member]
             /\ told' \in [Link -> SUBSET Member]
  <2>1. CASE SendList(l)
    <3>1. PICK g \in Group :
            send' = [send EXCEPT ![l] = [pc |-> "listed", group |-> g,
                                         to |-> RowsOf(g), left |-> RowsOf(g)]]
      BY <2>1 DEF SendList
    <3>2. RowsOf(g) \subseteq Member
      BY <1>0 DEF RowsOf
    <3>3. [pc |-> "listed", group |-> g, to |-> RowsOf(g), left |-> RowsOf(g)] \in SendType
      BY <3>2 DEF SendType
    <3>4. UNCHANGED <<asked, told>>
      BY <2>1 DEF SendList
    <3> QED BY <1>0, <3>1, <3>3, <3>4
  <2>2. CASE SendMail(l)
    <3>1. PICK m \in send[l].left :
            /\ send' = [send EXCEPT ![l].left = @ \ {m}]
            /\ asked' \in {asked, [asked EXCEPT ![l] = @ \cup {m}]}
      BY <2>2 DEF SendMail
    <3>2. send' \in [Link -> SendType] /\ m \in Member
      BY <1>0, <3>1 DEF SendType
    <3>3. told' = told
      BY <2>2 DEF SendMail
    <3> QED BY <1>0, <3>1, <3>2, <3>3
  <2>3. CASE SendAudit(l)
    BY <1>0, <2>3 DEF SendAudit, SendType
  <2>4. CASE SendLooks(l) \/ SendInsert(l) \/ SendDies(l)
    <3>1. UNCHANGED <<asked, told>>
      BY <2>4 DEF SendLooks, SendInsert, SendDies
    <3>2. \E p \in {"over", "clear", "mailing"} : send' = [send EXCEPT ![l].pc = p]
      BY <2>4 DEF SendLooks, SendInsert, SendDies
    <3>3. send' \in [Link -> SendType]
      BY <1>0, <3>2 DEF SendType
    <3> QED BY <1>0, <3>1, <3>3
  <2> QED BY <1>2, <2>1, <2>2, <2>3, <2>4 DEF Sends
<1>3. ASSUME NEW g \in Group, CreateGroup(g) \/ EditGroup(g) PROVE UNCHANGED sending
  BY <1>3 DEF CreateGroup, EditGroup
<1>4. ASSUME NEW l \in Link, Close(l) PROVE UNCHANGED sending
  BY <1>4 DEF Close
<1>5. ASSUME NEW c \in Click, Accepts(c) PROVE UNCHANGED sending
  BY <1>5 DEF Accepts, AcceptLoad, AcceptMember, AcceptUpdate, ClickDies
<1>6. ASSUME NEW f \in File, Uploads(f) PROVE UNCHANGED sending
  BY <1>6 DEF Uploads, UploadLoad, UploadStore, UploadInsert, UploadDies
<1> QED BY <1>1, <1>2, <1>3, <1>4, <1>5, <1>6 DEF Next, vars

(* What a step does to the click c: it loads, finds its member, or ends.    *)
Loads(c) ==
    /\ click[c].pc = "idle"
    /\ \E l \in Link, m \in Member :
         /\ Known(l) /\ link[l].stage = "sent"
         /\ click'[c] = [pc |-> "loaded", link |-> l, member |-> m, name |-> NoName]
Finds(c) ==
    /\ click[c].pc = "loaded"
    /\ click[c].member \in RowsOf(link[click[c].link].group)
    /\ click'[c] = [click[c] EXCEPT !.pc = "claiming", !.name = names[click[c].member]]
Ends(c) == click'[c] = [click[c] EXCEPT !.pc = "over"]

LEMMA ClickSteps ==
    ASSUME TypeOK, [Next]_vars
    PROVE  \/ click' = click
           \/ \E c \in Click : /\ click' = [click EXCEPT ![c] = click'[c]]
                               /\ Accepts(c)
                               /\ ((Loads(c) \/ Finds(c)) /\ link' = link) \/ Ends(c)
<1>0. click \in [Click -> ClickType] /\ \A c \in Click : click[c] \in ClickType
  BY DEF TypeOK
<1>1. ASSUME NEW c \in Click, Accepts(c)
      PROVE  /\ click' = [click EXCEPT ![c] = click'[c]]
             /\ ((Loads(c) \/ Finds(c)) /\ link' = link) \/ Ends(c)
  <2>1. CASE AcceptLoad(c)
    BY <1>0, <2>1 DEF AcceptLoad, Loads, Permits
  <2>2. CASE AcceptMember(c)
    <3>1. CASE click[c].member \in RowsOf(link[click[c].link].group)
      <4>1. click' = [click EXCEPT ![c] = [click[c] EXCEPT !.pc = "claiming",
                                                           !.name = names[click[c].member]]]
        BY <1>0, <2>2, <3>1 DEF AcceptMember, ClickType
      <4> QED BY <1>0, <2>2, <3>1, <4>1 DEF AcceptMember, Finds
    <3>2. CASE click[c].member \notin RowsOf(link[click[c].link].group)
      BY <1>0, <2>2, <3>2 DEF AcceptMember, Ends
    <3> QED BY <3>1, <3>2
  <2>3. CASE AcceptUpdate(c) \/ ClickDies(c)
    BY <1>0, <2>3 DEF AcceptUpdate, ClickDies, Ends
  <2> QED BY <1>1, <2>1, <2>2, <2>3 DEF Accepts
<1>2. ASSUME NEW g \in Group, CreateGroup(g) \/ EditGroup(g) PROVE click' = click
  BY <1>2 DEF CreateGroup, EditGroup
<1>3. ASSUME NEW l \in Link, Sends(l) \/ Close(l) PROVE click' = click
  BY <1>3 DEF Sends, SendList, SendLooks, SendInsert, SendMail, SendAudit, SendDies, Close
<1>4. ASSUME NEW f \in File, Uploads(f) PROVE click' = click
  BY <1>4 DEF Uploads, UploadLoad, UploadStore, UploadInsert, UploadDies
<1> QED BY <1>1, <1>2, <1>3, <1>4 DEF Next, vars

LEMMA ClicksTyped ==
    ASSUME TypeOK, [Next]_vars
    PROVE  click' \in [Click -> ClickType]
<1>0. /\ click \in [Click -> ClickType] /\ \A c \in Click : click[c] \in ClickType
      /\ names \in [Member -> Name] /\ members \subseteq Member
  BY DEF TypeOK
<1>1. ASSUME NEW c \in Click, Loads(c) \/ Finds(c) \/ Ends(c) PROVE click'[c] \in ClickType
  <2>1. CASE Loads(c)
    BY <2>1 DEF Loads, ClickType
  <2>2. CASE Finds(c)
    BY <1>0, <2>2 DEF Finds, ClickType, RowsOf
  <2>3. CASE Ends(c)
    BY <1>0, <2>3 DEF Ends, ClickType
  <2> QED BY <1>1, <2>1, <2>2, <2>3
<1> QED BY <1>0, <1>1, ClickSteps

(* What a step does to the upload f: it loads, is stored, arrives, or ends. *)
Loaded(f) ==
    /\ upload[f].pc = "idle" /\ filed' = filed
    /\ \E l \in Link :
         /\ link[l].stage = "accepted"
         /\ upload'[f] = [pc |-> "loaded", link |-> l, by |-> AcceptedBy(l)]
Stored(f) ==
    /\ upload[f].pc = "loaded" /\ filed' = filed
    /\ upload'[f] = [upload[f] EXCEPT !.pc = "stored"]
Arrives(f) ==
    /\ upload[f].pc = "stored"
    /\ upload'[f] = [upload[f] EXCEPT !.pc = "over"]
    /\ filed' = [filed EXCEPT ![f] = [link |-> upload[f].link, by |-> upload[f].by]]
Given(f) ==
    /\ upload'[f] = [upload[f] EXCEPT !.pc = "over"]
    /\ filed' = filed

LEMMA UploadSteps ==
    ASSUME TypeOK, [Next]_vars
    PROVE  \/ UNCHANGED <<upload, filed>>
           \/ \E f \in File : /\ upload' = [upload EXCEPT ![f] = upload'[f]]
                              /\ UNCHANGED <<roster, link, sending, click>>
                              /\ Loaded(f) \/ Stored(f) \/ Arrives(f) \/ Given(f)
<1>0. upload \in [File -> UploadType] /\ \A f \in File : upload[f] \in UploadType
  BY DEF TypeOK
<1>1. ASSUME NEW f \in File, Uploads(f)
      PROVE  /\ upload' = [upload EXCEPT ![f] = upload'[f]]
             /\ UNCHANGED <<roster, link, sending, click>>
             /\ Loaded(f) \/ Stored(f) \/ Arrives(f) \/ Given(f)
  <2>1. CASE UploadLoad(f)
    <3>1. PICK l \in Link :
            /\ Known(l) /\ Permits(link[l].stage, "upload")
            /\ upload' = [upload EXCEPT ![f] = [pc |-> "loaded", link |-> l, by |-> AcceptedBy(l)]]
      BY <2>1, Zenon DEF UploadLoad
    <3> QED BY <1>0, <2>1, <3>1 DEF UploadLoad, Loaded, Permits
  <2>2. CASE UploadStore(f)
    BY <1>0, <2>2 DEF UploadStore, Stored
  <2>3. CASE UploadInsert(f)
    BY <1>0, <2>3 DEF UploadInsert, Arrives
  <2>4. CASE UploadDies(f)
    BY <1>0, <2>4 DEF UploadDies, Given
  <2> QED BY <1>1, <2>1, <2>2, <2>3, <2>4 DEF Uploads
<1>2. ASSUME NEW g \in Group, CreateGroup(g) \/ EditGroup(g) PROVE UNCHANGED <<upload, filed>>
  BY <1>2 DEF CreateGroup, EditGroup
<1>3. ASSUME NEW l \in Link, Sends(l) \/ Close(l) PROVE UNCHANGED <<upload, filed>>
  BY <1>3 DEF Sends, SendList, SendLooks, SendInsert, SendMail, SendAudit, SendDies, Close
<1>4. ASSUME NEW c \in Click, Accepts(c) PROVE UNCHANGED <<upload, filed>>
  BY <1>4 DEF Accepts, AcceptLoad, AcceptMember, AcceptUpdate, ClickDies
<1> QED BY <1>1, <1>2, <1>3, <1>4 DEF Next, vars

LEMMA UploadsTyped ==
    ASSUME TypeOK, [Next]_vars
    PROVE  upload' \in [File -> UploadType] /\ filed' \in [File -> FiledType]
<1>0. /\ upload \in [File -> UploadType] /\ \A f \in File : upload[f] \in UploadType
      /\ filed \in [File -> FiledType] /\ names \in [Member -> Name] /\ members \subseteq Member
      /\ \A l \in Link : link[l] \in LinkType
  BY DEF TypeOK
<1>1. \A l \in Link : AcceptedBy(l) \in Name \cup {NoName}
  BY <1>0 DEF AcceptedBy, LinkType
<1>2. ASSUME NEW f \in File, Loaded(f) \/ Stored(f) \/ Arrives(f) \/ Given(f)
      PROVE  upload'[f] \in UploadType /\ filed' \in [File -> FiledType]
  <2>1. CASE Loaded(f)
    BY <1>0, <1>1, <2>1 DEF Loaded, UploadType
  <2>2. CASE Stored(f)
    BY <1>0, <2>2 DEF Stored, UploadType
  <2>3. CASE Arrives(f)
    BY <1>0, <2>3 DEF Arrives, UploadType, FiledType
  <2>4. CASE Given(f)
    BY <1>0, <2>4 DEF Given, UploadType
  <2> QED BY <1>2, <2>1, <2>2, <2>3, <2>4
<1> QED BY <1>0, <1>2, UploadSteps

LEMMA StepTyped == IInv /\ [Next]_vars => TypeOK'
<1> SUFFICES ASSUME IInv, [Next]_vars PROVE TypeOK'
  OBVIOUS
<1>1. TypeOK
  BY DEF IInv
<1> QED BY <1>1, LinksTyped, RosterTyped, SendingTyped, ClicksTyped, UploadsTyped DEF TypeOK

-----------------------------------------------------------------------------
(* The parts of the invariant *)

(* Whatever happens, a link that was accepted keeps its name, and a link    *)
(* there is keeps its group and does not go back to being none.             *)
LEMMA LinksLast ==
    ASSUME IInv, [Next]_vars, NEW l \in Link
    PROVE  /\ link[l].stage # "none" =>
                link'[l].stage # "none" /\ link'[l].group = link[l].group
           /\ \A n : AcceptedUnder(l, n) => AcceptedUnder(l, n)'
<1>0. link \in [Link -> LinkType] /\ \A k \in Link : link[k] \in LinkType
  BY DEF IInv, TypeOK
<1>1. CASE link'[l] = link[l]
  BY <1>1 DEF AcceptedUnder
<1>2. CASE Forgets(l)
  BY <1>0, <1>2 DEF Forgets, AcceptedUnder, LinkType
<1>3. CASE Inserts(l)
  BY <1>3 DEF Inserts, AcceptedUnder
<1>4. CASE Closes(l)
  BY <1>0, <1>4 DEF Closes, Close, Open, AcceptedUnder, LinkType
<1>5. ASSUME NEW c \in Click, Claims(c, l)
      PROVE  /\ link'[l].stage # "none" /\ link'[l].group = link[l].group
             /\ link[l].stage = "sent"
  BY <1>0, <1>5 DEF Claims, LinkType
<1>6. \/ link'[l] = link[l] \/ Forgets(l) \/ Inserts(l) \/ Closes(l)
      \/ \E c \in Click : Claims(c, l)
  BY <1>0, LinkSteps DEF Same
<1> QED BY <1>1, <1>2, <1>3, <1>4, <1>5, <1>6 DEF AcceptedUnder

LEMMA OneOpenStays == IInv /\ [Next]_vars => OneOpenLink'
<1> SUFFICES ASSUME IInv, [Next]_vars PROVE OneOpenLink'
  OBVIOUS
<1>0. /\ link \in [Link -> LinkType] /\ \A k \in Link : link[k] \in LinkType
      /\ OneOpenLink
  BY DEF IInv, TypeOK
<1>1. CASE \A k \in Link : Open(k)' => Open(k)
  BY <1>0, <1>1 DEF OneOpenLink
<1>2. CASE link' = link
  BY <1>0, <1>2 DEF OneOpenLink, Open
<1>3. CASE \A l \in Link : Same(l) \/ Forgets(l)
  BY <1>0, <1>1, <1>3 DEF Same, Forgets, Open, LinkType
<1>4. ASSUME NEW l \in Link, Inserts(l), link' = [link EXCEPT ![l] = link'[l]]
      PROVE  OneOpenLink'
  <2>1. \A k \in Link : k # l => ~Open(k)'
    BY <1>0, <1>4 DEF Inserts, IndexAdmits, Open
  <2> QED BY <2>1 DEF OneOpenLink
<1>5. ASSUME NEW l \in Link, Closes(l), link' = [link EXCEPT ![l] = link'[l]]
      PROVE  OneOpenLink'
  BY <1>0, <1>1, <1>5 DEF Closes, Close, Open, LinkType
<1>6. ASSUME NEW c \in Click, NEW l \in Link, Claims(c, l), link' = [link EXCEPT ![l] = link'[l]]
      PROVE  OneOpenLink'
  BY <1>0, <1>1, <1>6 DEF Claims, Open, LinkType
<1> QED BY <1>2, <1>3, <1>4, <1>5, <1>6, LinkSteps

(* A step that is not an edit removes no member.                            *)
LEMMA MembersStay ==
    ASSUME [Next]_vars, \A g \in Group : ~EditGroup(g)
    PROVE  members \subseteq members'
<1>1. ASSUME NEW g \in Group, CreateGroup(g) PROVE members \subseteq members'
  BY <1>1 DEF CreateGroup
<1>2. ASSUME NEW l \in Link, Sends(l) \/ Close(l) PROVE members' = members
  BY <1>2 DEF Sends, SendList, SendLooks, SendInsert, SendMail, SendAudit, SendDies, Close, roster
<1>3. ASSUME NEW c \in Click, Accepts(c) PROVE members' = members
  BY <1>3 DEF Accepts, AcceptLoad, AcceptMember, AcceptUpdate, ClickDies, roster
<1>4. ASSUME NEW f \in File, Uploads(f) PROVE members' = members
  BY <1>4 DEF Uploads, UploadLoad, UploadStore, UploadInsert, UploadDies, roster
<1>5. CASE UNCHANGED vars
  BY <1>5 DEF vars, roster
<1> QED BY <1>1, <1>2, <1>3, <1>4, <1>5 DEF Next

LEMMA AccepterStays == IInv /\ [Next]_vars => AccepterIsAMember'
<1> SUFFICES ASSUME IInv, [Next]_vars, NEW l \in Link, link'[l].by # NoMember
             PROVE  link'[l].by \in members' /\ GroupOf[link'[l].by] = link'[l].group
  BY DEF AccepterIsAMember
<1>0. /\ link \in [Link -> LinkType] /\ \A k \in Link : link[k] \in LinkType
      /\ link[l].by # NoMember => link[l].by \in members /\ GroupOf[link[l].by] = link[l].group
  BY DEF IInv, TypeOK, AccepterIsAMember
<1>1. ASSUME NEW g \in Group, EditGroup(g)
      PROVE  link'[l].by \in members' /\ GroupOf[link'[l].by] = link'[l].group
  <2>1. PICK rows \in SUBSET Eligible(g) \ {{}} :
          /\ members' = (members \ RowsOf(g)) \cup rows
          /\ link' = [k \in Link |-> IF link[k].by \in Deleted(g, rows)
                                     THEN [link[k] EXCEPT !.by = NoMember] ELSE link[k]]
    BY <1>1 DEF EditGroup
  <2>2. CASE link[l].by \in Deleted(g, rows)
    BY <1>0, <2>1, <2>2 DEF LinkType
  <2>3. CASE link[l].by \notin Deleted(g, rows)
    BY <1>0, <2>1, <2>3 DEF Deleted
  <2> QED BY <2>2, <2>3
<1>2. CASE \A g \in Group : ~EditGroup(g)
  <2>0. members \subseteq members'
    BY <1>2, MembersStay
  <2>1. CASE link'[l] = link[l]
    BY <1>0, <2>0, <2>1
  <2>2. CASE Inserts(l)
    BY <2>2 DEF Inserts, NoRow
  <2>3. CASE Closes(l)
    BY <1>0, <2>0, <2>3 DEF Closes, LinkType
  <2>4. ASSUME NEW c \in Click, Claims(c, l)
        PROVE  link'[l].by \in members' /\ GroupOf[link'[l].by] = link'[l].group
    BY <1>0, <2>0, <2>4 DEF Claims, LinkType
  <2> QED BY <1>0, <1>2, <2>1, <2>2, <2>3, <2>4, LinkSteps
<1> QED BY <1>1, <1>2

LEMMA SendsStay == IInv /\ [Next]_vars => SendsFit'
<1> SUFFICES ASSUME IInv, [Next]_vars, NEW l \in Link
             PROVE  /\ send'[l].pc \in {"idle", "listed", "clear"} => link'[l].stage = "none"
                    /\ send'[l].pc \in {"listed", "clear"} => send'[l].group \in Group
                    /\ send'[l].pc = "mailing" => link'[l].stage # "none"
                    /\ asked'[l] # {} => link'[l].stage # "none"
  BY DEF SendsFit
<1>0. /\ link \in [Link -> LinkType] /\ \A k \in Link : link[k] \in LinkType
      /\ send \in [Link -> SendType] /\ \A k \in Link : send[k] \in SendType
      /\ asked \in [Link -> SUBSET Member]
  BY DEF IInv, TypeOK
<1>1. /\ send[l].pc \in {"idle", "listed", "clear"} => link[l].stage = "none"
      /\ send[l].pc \in {"listed", "clear"} => send[l].group \in Group
      /\ send[l].pc = "mailing" => link[l].stage # "none"
      /\ asked[l] # {} => link[l].stage # "none"
  BY DEF IInv, SendsFit
<1>2. link[l].stage # "none" => link'[l].stage # "none"
  BY LinksLast
<1>3. CASE UNCHANGED sending /\ (link[l].stage = "none" => link'[l].stage = "none")
  BY <1>1, <1>2, <1>3 DEF sending
<1>4. ASSUME NEW g \in Group, CreateGroup(g) \/ EditGroup(g)
      PROVE  UNCHANGED sending /\ link'[l].stage = link[l].stage
  BY <1>0, <1>4 DEF CreateGroup, EditGroup, LinkType
<1>5. ASSUME NEW k \in Link, Close(k)
      PROVE  UNCHANGED sending /\ (link[l].stage = "none" => link'[l].stage = "none")
  BY <1>0, <1>5 DEF Close, Open
<1>6. ASSUME NEW c \in Click, Accepts(c)
      PROVE  UNCHANGED sending /\ (link[l].stage = "none" => link'[l].stage = "none")
  <2>1. UNCHANGED sending
    BY <1>6 DEF Accepts, AcceptLoad, AcceptMember, AcceptUpdate, ClickDies
  <2>2. link' = link \/ (AcceptUpdate(c) /\ link[click[c].link].stage = "sent")
    BY <1>6 DEF Accepts, AcceptLoad, AcceptMember, AcceptUpdate, ClickDies, StillSent
  <2> QED BY <1>0, <2>1, <2>2 DEF AcceptUpdate
<1>7. ASSUME NEW f \in File, Uploads(f) PROVE UNCHANGED sending /\ link' = link
  BY <1>7 DEF Uploads, UploadLoad, UploadStore, UploadInsert, UploadDies
<1>8. CASE UNCHANGED vars
  BY <1>3, <1>8 DEF vars
<1>9. ASSUME NEW k \in Link, Sends(k), k # l
      PROVE  send'[l] = send[l] /\ asked'[l] = asked[l] /\ link'[l] = link[l]
  BY <1>0, <1>9 DEF Sends, SendList, SendLooks, SendInsert, SendMail, SendAudit, SendDies
<1>10. CASE SendList(l)
  BY <1>0, <1>1, <1>10 DEF SendList
<1>11. CASE SendLooks(l)
  BY <1>0, <1>1, <1>11 DEF SendLooks, SendType
<1>12. CASE SendInsert(l)
  <2>1. asked' = asked
    BY <1>12 DEF SendInsert
  <2>2. CASE IndexAdmits
    <3>1. /\ link' = [link EXCEPT ![l] = [NoRow EXCEPT !.stage = "sent", !.group = send[l].group]]
          /\ send' = [send EXCEPT ![l].pc = "mailing"]
      BY <1>12, <2>2 DEF SendInsert
    <3>2. link'[l].stage = "sent"
      BY <1>0, <3>1 DEF NoRow
    <3>3. send'[l].pc = "mailing"
      BY <1>0, <3>1 DEF SendType
    <3> QED BY <3>2, <3>3
  <2>3. CASE ~IndexAdmits
    <3>1. link' = link /\ send'[l].pc = "over"
      BY <1>0, <1>12, <2>3 DEF SendInsert, SendType
    <3> QED BY <1>1, <2>1, <3>1
  <2> QED BY <2>2, <2>3
<1>13. CASE SendMail(l) \/ SendAudit(l) \/ SendDies(l)
  <2>1. link' = link /\ send[l].pc \in {"listed", "clear", "mailing"}
    BY <1>13 DEF SendMail, SendAudit, SendDies
  <2>2. send'[l].pc \in {send[l].pc, "over"} /\ send'[l].group = send[l].group
    BY <1>0, <1>13 DEF SendMail, SendAudit, SendDies, SendType
  <2>3. asked'[l] = asked[l] \/ send[l].pc = "mailing"
    BY <1>13 DEF SendMail, SendAudit, SendDies
  <2>4. send[l].pc # "mailing" => send'[l].pc = "over"
    BY <1>0, <1>13 DEF SendMail, SendAudit, SendDies, SendType
  <2> QED BY <1>1, <2>1, <2>2, <2>3, <2>4
<1> QED BY <1>1, <1>3, <1>4, <1>5, <1>6, <1>7, <1>8, <1>9, <1>10, <1>11, <1>12, <1>13
        DEF Next, Sends

LEMMA LinksStay == IInv /\ [Next]_vars => LinksFit'
<1> SUFFICES ASSUME IInv, [Next]_vars, NEW l \in Link
             PROVE  /\ link'[l].stage \in {"none", "sent"} =>
                         link'[l].name = NoName /\ link'[l].by = NoMember
                    /\ link'[l].stage = "accepted" => link'[l].name \in Name
                    /\ link'[l].stage # "none" => link'[l].group \in Group
  BY DEF LinksFit
<1>0. /\ link \in [Link -> LinkType] /\ link[l] \in LinkType
      /\ link[l].stage \in {"none", "sent"} => link[l].name = NoName /\ link[l].by = NoMember
      /\ link[l].stage = "accepted" => link[l].name \in Name
      /\ link[l].stage # "none" => link[l].group \in Group
  BY DEF IInv, TypeOK, LinksFit
<1>1. CASE link'[l] = link[l]
  BY <1>0, <1>1
<1>2. CASE Forgets(l)
  BY <1>0, <1>2 DEF Forgets, LinkType
<1>3. CASE Inserts(l)
  BY <1>3 DEF Inserts, NoRow
<1>4. CASE Closes(l)
  BY <1>0, <1>4 DEF Closes, Close, Open, LinkType
<1>5. ASSUME NEW c \in Click, Claims(c, l)
      PROVE  /\ link'[l].stage = "accepted" /\ link'[l].name \in Name
             /\ link'[l].group \in Group
  BY <1>0, <1>5 DEF Claims, LinkType
<1> QED BY <1>0, <1>1, <1>2, <1>3, <1>4, <1>5, LinkSteps DEF Same

LEMMA ClicksStay == IInv /\ [Next]_vars => ClicksFit'
<1> SUFFICES ASSUME IInv, [Next]_vars, NEW c \in Click
             PROVE  /\ click'[c].pc \in {"loaded", "claiming"} =>
                         /\ click'[c].link \in Link /\ click'[c].member \in Member
                         /\ link'[click'[c].link].stage # "none"
                    /\ click'[c].pc = "claiming" =>
                         /\ click'[c].name \in Name
                         /\ GroupOf[click'[c].member] = link'[click'[c].link].group
  BY DEF ClicksFit
<1>0. /\ click \in [Click -> ClickType] /\ click[c] \in ClickType
      /\ names \in [Member -> Name] /\ members \subseteq Member
      /\ TypeOK
  BY DEF IInv, TypeOK
<1>1. /\ click[c].pc \in {"loaded", "claiming"} =>
           /\ click[c].link \in Link /\ click[c].member \in Member
           /\ link[click[c].link].stage # "none"
      /\ click[c].pc = "claiming" =>
           /\ click[c].name \in Name
           /\ GroupOf[click[c].member] = link[click[c].link].group
  BY DEF IInv, ClicksFit
<1>2. CASE click'[c] = click[c]
  BY <1>1, <1>2, LinksLast
<1>3. CASE Loads(c) /\ link' = link
  BY <1>3 DEF Loads
<1>4. CASE Finds(c) /\ link' = link
  BY <1>0, <1>1, <1>4 DEF Finds, RowsOf, ClickType
<1>5. CASE Ends(c)
  BY <1>0, <1>5 DEF Ends, ClickType
<1> QED BY <1>0, <1>2, <1>3, <1>4, <1>5, ClickSteps

LEMMA UploadsStay == IInv /\ [Next]_vars => UploadsFit'
<1> SUFFICES ASSUME IInv, [Next]_vars, NEW f \in File
             PROVE  /\ upload'[f].pc \in {"loaded", "stored"} =>
                         AcceptedUnder(upload[f].link, upload[f].by)'
                    /\ upload'[f].pc # "over" => filed'[f].link = NoLink
                    /\ filed'[f].link # NoLink => AcceptedUnder(filed[f].link, filed[f].by)'
  BY DEF UploadsFit
<1>0. /\ upload \in [File -> UploadType] /\ upload[f] \in UploadType
      /\ filed \in [File -> FiledType]
      /\ TypeOK
  BY DEF IInv, TypeOK
<1>1. /\ upload[f].pc \in {"loaded", "stored"} => AcceptedUnder(upload[f].link, upload[f].by)
      /\ upload[f].pc # "over" => filed[f].link = NoLink
      /\ filed[f].link # NoLink => AcceptedUnder(filed[f].link, filed[f].by)
  BY DEF IInv, UploadsFit
<1>2. \A l, n : AcceptedUnder(l, n) => AcceptedUnder(l, n)'
  BY LinksLast DEF AcceptedUnder
<1>3. CASE upload'[f] = upload[f] /\ filed'[f] = filed[f]
  <2>1. upload'[f].link = upload[f].link /\ upload'[f].by = upload[f].by
    BY <1>3
  <2>2. filed'[f].link = filed[f].link /\ filed'[f].by = filed[f].by
    BY <1>3
  <2> QED BY <1>1, <1>2, <1>3, <2>1, <2>2 DEF AcceptedUnder
<1>4. CASE Loaded(f) /\ link' = link
  <2>1. PICK l \in Link : /\ link[l].stage = "accepted"
                          /\ upload'[f] = [pc |-> "loaded", link |-> l, by |-> AcceptedBy(l)]
    BY <1>4 DEF Loaded
  <2>2. link[l].name \in Name /\ link[l].name # NoName
    BY <2>1, DelegationAssumption DEF IInv, LinksFit
  <2>3. upload'[f].link = l /\ upload'[f].by = link[l].name
    BY <2>1, <2>2 DEF AcceptedBy
  <2>4. filed'[f].link = NoLink /\ upload'[f].pc = "loaded"
    BY <1>1, <1>4, <2>1 DEF Loaded
  <2> QED BY <1>4, <2>1, <2>2, <2>3, <2>4 DEF AcceptedUnder
<1>5. CASE Stored(f)
  <2>1. /\ upload'[f].link = upload[f].link /\ upload'[f].by = upload[f].by
        /\ upload[f].pc = "loaded" /\ filed' = filed
    BY <1>0, <1>5 DEF Stored, UploadType
  <2> QED BY <1>1, <1>2, <2>1 DEF AcceptedUnder
<1>6. CASE Arrives(f)
  <2>1. /\ filed'[f].link = upload[f].link /\ filed'[f].by = upload[f].by
        /\ upload[f].pc = "stored" /\ upload'[f].pc = "over"
    BY <1>0, <1>6 DEF Arrives, UploadType
  <2> QED BY <1>1, <1>2, <2>1 DEF AcceptedUnder
<1>7. CASE Given(f)
  <2>1. upload'[f].pc = "over" /\ filed' = filed
    BY <1>0, <1>7 DEF Given, UploadType
  <2> QED BY <1>1, <1>2, <2>1 DEF AcceptedUnder
<1>8. ASSUME NEW e \in File, e # f, upload' = [upload EXCEPT ![e] = upload'[e]],
             Loaded(e) \/ Stored(e) \/ Arrives(e) \/ Given(e)
      PROVE  upload'[f] = upload[f] /\ filed'[f] = filed[f]
  BY <1>0, <1>8 DEF Loaded, Stored, Arrives, Given
<1> QED BY <1>0, <1>3, <1>4, <1>5, <1>6, <1>7, <1>8, UploadSteps

-----------------------------------------------------------------------------
(* The theorems *)

THEOREM DelegationInductive == Spec => []IInv
<1>1. Init => IInv
  <2> SUFFICES ASSUME Init PROVE IInv
    OBVIOUS
  <2>1. OneOpenLink /\ AccepterIsAMember /\ SendsFit /\ LinksFit
    BY DEF Init, NoRow, NoSend, OneOpenLink, Open, AccepterIsAMember, SendsFit, LinksFit
  <2>2. ClicksFit /\ UploadsFit
    BY DEF Init, NoClick, NoUpload, NotFiled, ClicksFit, UploadsFit
  <2> QED BY <2>1, <2>2, InitTyped DEF IInv
<1>2. IInv /\ [Next]_vars => IInv'
  BY StepTyped, OneOpenStays, AccepterStays, SendsStay, LinksStay, ClicksStay, UploadsStay
     DEF IInv
<1> QED BY <1>1, <1>2, PTL DEF Spec

(* The state of the links, the requests and the groups is well typed.       *)
THEOREM DelegationTyped == Spec => []TypeOK
<1>1. IInv => TypeOK
  BY DEF IInv
<1> QED BY <1>1, DelegationInductive, PTL

(* One open delegation, however many operators press Send at once.          *)
THEOREM OneGroupAtATime == Spec => []OneOpenLink
<1>1. IInv => OneOpenLink
  BY DEF IInv
<1> QED BY <1>1, DelegationInductive, PTL

(* Whatever becomes of the groups, a delegation points at a member its      *)
(* group has, or at nobody.                                                 *)
THEOREM AcceptersAreMembers == Spec => []AccepterIsAMember
<1>1. IInv => AccepterIsAMember
  BY DEF IInv
<1> QED BY <1>1, DelegationInductive, PTL

(* Both together.                                                           *)
THEOREM DelegationConsistent == Spec => []DelegationInv
BY DelegationTyped, AcceptersAreMembers, PTL DEF DelegationInv

(* Only the removal of the member makes a delegation forget them.           *)
THEOREM EditsForgetNobodyElse == Spec => ForgottenOnlyWhenRemoved
<1>1. ASSUME IInv, [Next]_vars
      PROVE  [\A l \in Link : link[l].by # NoMember /\ link'[l].by # link[l].by
                                => link[l].by \notin members']_vars
  <2> SUFFICES ASSUME NEW l \in Link, link[l].by # NoMember, link'[l].by # link[l].by
               PROVE  link[l].by \notin members'
    OBVIOUS
  <2>0. /\ link \in [Link -> LinkType] /\ link[l] \in LinkType
        /\ link[l].by \in members
        /\ link[l].stage \notin {"none", "sent"}
    BY <1>1 DEF IInv, TypeOK, AccepterIsAMember, LinksFit
  <2>1. ASSUME NEW g \in Group, EditGroup(g) PROVE link[l].by \notin members'
    <3>1. PICK rows \in SUBSET Eligible(g) \ {{}} :
            /\ members' = (members \ RowsOf(g)) \cup rows
            /\ link' = [k \in Link |-> IF link[k].by \in Deleted(g, rows)
                                       THEN [link[k] EXCEPT !.by = NoMember] ELSE link[k]]
      BY <2>1 DEF EditGroup
    <3>2. link[l].by \in Deleted(g, rows)
      BY <3>1
    <3> QED BY <3>1, <3>2 DEF Deleted
  <2>2. ASSUME NEW k \in Link, Inserts(k), link' = [link EXCEPT ![k] = link'[k]]
        PROVE  FALSE
    BY <2>0, <2>2 DEF Inserts
  <2>3. ASSUME NEW k \in Link, Closes(k), link' = [link EXCEPT ![k] = link'[k]]
        PROVE  FALSE
    BY <2>0, <2>3 DEF Closes, LinkType
  <2>4. ASSUME NEW c \in Click, NEW k \in Link, Claims(c, k), link' = [link EXCEPT ![k] = link'[k]]
        PROVE  FALSE
    BY <2>0, <2>4 DEF Claims
  <2> QED BY <1>1, <2>1, <2>2, <2>3, <2>4, LinkSteps
<1> QED BY <1>1, DelegationInductive, PTL DEF Spec, ForgottenOnlyWhenRemoved

(* Each document carries the name its link was accepted under, for good.    *)
THEOREM DocumentsNameTheAccepter == Spec => []FilesNameTheAccepter
<1>1. IInv => FilesNameTheAccepter
  BY DelegationAssumption DEF IInv, UploadsFit, AcceptedUnder, FilesNameTheAccepter
<1> QED BY <1>1, DelegationInductive, PTL

-----------------------------------------------------------------------------
(* The refinement *)

(* The three functions the abstract specification speaks of.                *)
stageOf == [l \in Link |-> link[l].stage]
nameOf == [l \in Link |-> link[l].name]
gotBy == [l \in Link |-> {f \in File : filed[f].link = l}]

LEMMA LinkStepsArePromised ==
    ASSUME IInv, [Next]_vars, UNCHANGED filed
    PROVE  [Promise!Next]_<<stageOf, nameOf, gotBy>>
<1>0. link \in [Link -> LinkType] /\ \A l \in Link : link[l] \in LinkType
  BY DEF IInv, TypeOK
<1>1. UNCHANGED gotBy
  BY DEF gotBy
<1>2. CASE \A l \in Link : link'[l].stage = link[l].stage /\ link'[l].name = link[l].name
  BY <1>1, <1>2 DEF stageOf, nameOf
<1>3. CASE \A l \in Link : Same(l) \/ Forgets(l)
  BY <1>0, <1>2, <1>3 DEF Same, Forgets, LinkType
<1>4. ASSUME NEW l \in Link, Inserts(l), link' = [link EXCEPT ![l] = link'[l]]
      PROVE  Promise!Send(l)
  <2>1. /\ link[l].stage = "none" /\ link[l].name = NoName
        /\ link'[l].stage = "sent" /\ link'[l].name = NoName
    BY <1>4 DEF Inserts, NoRow, IInv, LinksFit
  <2>2. \A k \in Link : link[k].stage \in {"none", "closed"}
    BY <1>0, <1>4 DEF Inserts, IndexAdmits, Open, LinkType, Stages
  <2>3. stageOf' = [stageOf EXCEPT ![l] = "sent"]
    BY <1>0, <1>4, <2>1 DEF stageOf
  <2>4. nameOf' = nameOf
    BY <1>0, <1>4, <2>1 DEF nameOf
  <2> QED BY <1>1, <2>1, <2>2, <2>3, <2>4 DEF Promise!Send, stageOf, nameOf, gotBy
<1>5. ASSUME NEW l \in Link, Closes(l), link' = [link EXCEPT ![l] = link'[l]]
      PROVE  Promise!Close(l)
  <2>1. link[l].stage \in {"sent", "accepted"} /\ link'[l].stage = "closed"
        /\ link'[l].name = link[l].name
    BY <1>0, <1>5 DEF Closes, Close, Open, LinkType
  <2>2. stageOf' = [stageOf EXCEPT ![l] = "closed"]
    BY <1>0, <1>5, <2>1 DEF stageOf
  <2>3. nameOf' = nameOf
    BY <1>0, <1>5, <2>1 DEF nameOf
  <2> QED BY <1>1, <2>1, <2>2, <2>3 DEF Promise!Close, stageOf, nameOf, gotBy
<1>6. ASSUME NEW c \in Click, NEW l \in Link, Claims(c, l), link' = [link EXCEPT ![l] = link'[l]]
      PROVE  \E n \in Name : Promise!Accept(l, n)
  <2>1. /\ link[l].stage = "sent" /\ link'[l].stage = "accepted"
        /\ link'[l].name = click[c].name /\ click[c].name \in Name
    BY <1>0, <1>6 DEF Claims, LinkType
  <2>2. stageOf' = [stageOf EXCEPT ![l] = "accepted"]
    BY <1>0, <1>6, <2>1 DEF stageOf
  <2>3. PICK n \in Name : n = click[c].name
    BY <2>1
  <2>4. nameOf' = [nameOf EXCEPT ![l] = n]
    BY <1>0, <1>6, <2>1, <2>3 DEF nameOf
  <2>5. Promise!Accept(l, n)
    BY <1>1, <2>1, <2>2, <2>4 DEF Promise!Accept, stageOf, nameOf, gotBy
  <2> QED BY <2>5
<1>7. ASSUME NEW l \in Link, Promise!Send(l) \/ Promise!Close(l) \/ \E n \in Name : Promise!Accept(l, n)
      PROVE  Promise!Next
  BY <1>7 DEF Promise!Next
<1> QED BY <1>2, <1>3, <1>4, <1>5, <1>6, <1>7, LinkSteps

LEMMA ArrivalsArePromised ==
    ASSUME IInv, NEW f \in File, Arrives(f), UNCHANGED link
    PROVE  Promise!Next
<1>0. filed \in [File -> FiledType] /\ upload[f].pc = "stored"
  BY DEF IInv, TypeOK, Arrives
<1>1. PICK l \in Link : l = upload[f].link /\ link[l].name \in Name /\ link[l].name # NoName
  BY <1>0, DelegationAssumption DEF IInv, UploadsFit, AcceptedUnder
<1>2. filed[f].link = NoLink /\ NoLink \notin Link
  BY <1>0, DelegationAssumption DEF IInv, UploadsFit
<1>3. \A e \in File : filed'[e].link = IF e = f THEN l ELSE filed[e].link
  BY <1>0, <1>1 DEF Arrives
<1>4. gotBy' = [gotBy EXCEPT ![l] = @ \cup {f}]
  <2>1. \A k \in Link : gotBy'[k] = IF k = l THEN gotBy[k] \cup {f} ELSE gotBy[k]
    BY <1>1, <1>2, <1>3 DEF gotBy
  <2> QED BY <1>1, <2>1 DEF gotBy
<1>5. \A k \in Link : f \notin gotBy[k]
  BY <1>2 DEF gotBy
<1>6. Promise!Receive(l, f)
  BY <1>1, <1>4, <1>5 DEF Promise!Receive, stageOf, nameOf, gotBy
<1> QED BY <1>6 DEF Promise!Next

(* Every behaviour of the handlers is one the links promise.                *)
THEOREM DelegationKeepsItsPromise == Spec => KeepsItsPromise
<1>1. Init => Promise!Init
  <2> SUFFICES ASSUME Init PROVE Promise!Init
    OBVIOUS
  <2>1. stageOf = [l \in Link |-> "none"] /\ nameOf = [l \in Link |-> NoName]
    BY DEF Init, NoRow, stageOf, nameOf
  <2>2. gotBy = [l \in Link |-> {}]
    BY DelegationAssumption DEF Init, NotFiled, gotBy
  <2> QED BY <2>1, <2>2 DEF Promise!Init, stageOf, nameOf, gotBy
<1>2. ASSUME IInv, [Next]_vars
      PROVE  [Promise!Next]_<<stageOf, nameOf, gotBy>>
  <2>1. TypeOK
    BY <1>2 DEF IInv
  <2>2. CASE UNCHANGED filed
    BY <1>2, <2>2, LinkStepsArePromised
  <2>3. CASE \E f \in File : Arrives(f) /\ UNCHANGED link
    BY <1>2, <2>3, ArrivalsArePromised
  <2> QED BY <1>2, <2>1, <2>2, <2>3, UploadSteps DEF Loaded, Stored, Given
<1>3. [Promise!Next]_<<stageOf, nameOf, gotBy>>
        => [Promise!Next]_<<[l \in Link |-> link[l].stage], [l \in Link |-> link[l].name],
                            [l \in Link |-> {f \in File : filed[f].link = l}]>>
  BY DEF stageOf, nameOf, gotBy
<1> QED BY <1>1, <1>2, <1>3, DelegationInductive, PTL DEF Spec, KeepsItsPromise, Promise!Spec

=============================================================================
